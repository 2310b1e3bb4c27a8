# Verification of the research pipeline and its operations agent

TLA+ specifications of the research pipeline (`src/energy_research`) and of the operations
agent that runs it (`src/ops_agent`), TLC configurations that check them on small instances,
and TLAPS proofs that hold for every value of the constants. Paths below are relative to the
repository; `cycle.py` and the like name files of those two packages.

To check a run: `tlc -config MCResearchCycle.cfg MCResearchCycle.tla`; to check the proofs of
a module: `tlapm ResearchCycleProofs.tla`. `PROJECT.json` lists the runs, the code each
definition stands for, the hazards, and for every property a plausible bug that breaks it.

## 1. The system

**Research pipeline.** One batch process per cycle. `run_cycle` asks a language model for
trading theses, screens them statistically on a first slice of history (discovery), backtests
those that pass on a second (refinement), improves rejected ones in bounded waves, and
evaluates at most one variant of each lineage on a third slice (final evaluation) that may be
used once per lineage, ever. All state is in SQLite, one transaction per repository call, and
in one Parquet file per series. `ingest` is another process that rewrites those.

**Operations agent.** One batch process per tick of an external scheduler. It refreshes data,
polls qualitative feeds, triggers cycles, remediates stale data, spends a resource budget and
opens configuration proposals as git branches that a human merges or rejects. Its state is a
second SQLite file and the git repository.

Nothing in either program locks one process out while another runs, except SQLite's own write
lock. The interesting behaviours are therefore kills between two commits, exceptions half way,
other processes between two statements, and vendors that change while they are being read.

### Components

| Component | State | Operations | What makes it correct |
|---|---|---|---|
| one research cycle, `orchestration/cycle.py` | the cycle row and, through the services, every research table | `run_cycle`, `replay_cycle` | what is stored is consistent at every kill point; the run ends within its caps; a completed cycle accounts for every thesis |
| generation, `generation/service.py` | lineages, ledger rows, theses | `generate_initial`, `generate_refinement` | a thesis never precedes its lineage and ledger row; a lineage is a chain of variants |
| critique, `critique/service.py` | critiques | `critique_thesis` | a critique belongs to the rejected variant that is refined next |
| screening, `screening/service.py` | screening results, thesis statuses | `screen_cycle` | a verdict is recorded before it is applied; the family is what was really tested |
| multiplicity, `screening/multiplicity.py` | none | Benjamini-Hochberg, Bonferroni | the family error is what the method promises |
| conditions and signals, `common/conditions.py`, `common/signals.py` | none | exposure, activity, returns of a thesis | no day's exposure depends on that day's or a later close |
| backtesting, `backtesting/service.py` | backtest results, statuses | refinement and final runs | the final split is read only with the entitlement in hand |
| engine and costs, `backtesting/engine.py`, `costs.py` | none | returns, turnover, costs | costs are charged for every entry and exit |
| evaluation ledger, `datastore/ledger.py` | one row per lineage, refusals | `spend` | one grant per lineage under any concurrency and any crash |
| datastore, `datastore/repository.py`, `lake.py`, `schema.py` | rows, Parquet files | store and read series, freshness gate, splits | rows describe files; splits do not overlap and do not move |
| reporting, `reporting/report_builder.py` | reports | build, render | every thesis is listed |
| ingestion, `orchestration/ingest.py`, `ingestion/` | an in-memory payload cache per connector | `fetch_series`, `fetch_context`, `discover` | what the vendor had published is stored, from whichever shard and page |
| cleaning, `cleaning/` | quality records | `clean_series` | one observation per date, the newest |
| model backends, `common/llm.py`, `ops_agent/llm_backend.py` | none | calls with retries | every call ends, and a rate limit costs no answer |
| agent budgets, `ops_agent/budget.py` | usage per period, exhaustion mark, activity log | `guard` | what is spent is bounded by what is counted, overshoot is bounded, alarms are true |
| agent tick, `agent.py`, `remediation.py`, `scheduling.py`, `notify.py` | schedule rows, watermarks, activity log | `tick` | each due cycle runs, is retried or is escalated; documents get stored |
| proposals, `ops_agent/proposals/git_store.py` | branches, merges, index rows | `open_proposal`, `approve`, `reject` | the index never claims what git does not have |
| discovery and onboarding, `ops_agent/discovery/`, `onboarding/` | proposals opened through the store | `bootstrap`, `onboard` | only what was approved comes into effect, and stays; every vendor gets an answer |
| configuration, CLI, logging | the files under `config/` | `load_config`, print | a configuration that loads is one the connectors can be built from |
| dashboard | none | views | out of scope: read-only |

How they interact: `cli` starts one `run_cycle`, `ingest_all`, `tick`, `bootstrap`, `onboard`,
`approve` or `reject` per process. `run_cycle` calls the services in sequence and they talk to
one another only through the datastore. `tick` calls `ingest_all` and `run_cycle` in its own
process. `ingest_all` calls each connector's `fetch_series`, then `clean_series`, then
`store_cleaned_series`. `bootstrap` and `onboard` call `guard` before every model or vendor
call and then `open_proposal`.

### What is hard to test here

* **Kills and exceptions between commits**: lineage, ledger row and thesis are three
  transactions; a verdict and its status are two; spending the entitlement, reading the split
  and storing the result are three; a series is a file and then a row; a merge and its index
  row are two stores; a cycle, its shortlist and the schedule row are three.
* **Interleavings**: concurrent `spend`s, `guard`s that check and increment in two
  transactions, overlapping ticks, two researchers approving, one or two `ingest_all` rewriting
  files while a cycle reads them, a vendor publishing between two pages.
* **Timeouts and retries**: SQLite's busy timeout, the remediation loop, vendor outages, a rate
  limit met by the retry loop of the model backends.
* **Stale reads**: proposals rendered from files read before another one was merged, or from
  the branch a researcher has checked out; labels and rows read before the files.
* **Loops that must end**: improvement waves, remediation, pagination.
* **Boundaries**: lineage depth against run budget, a limit of zero, whole-day splits of a
  short history, the largest rank that clears in Benjamini-Hochberg, a position still open at
  the end of a split, the first day after a rolling window fills.

`PROJECT.json` lists these as hazards, each at its line, with the properties that cover it.

## 2. The modules and the code

The convention everywhere: one action is one committed transaction, one file write, one git
command or one request, together with the computation that precedes it, because that is where
another process can come in or the process can die. Guards are the code's conditions and early
returns. Operators with a telling suffix that no action uses (`SpendSwapped`,
`CommitBusyGrants`, `UpsertOldFreshness`, ...) are plausible bugs: they are the mutants named in
`PROJECT.json`, and each makes TLC violate the property it is listed with.

| Module | Models | Composition |
|---|---|---|
| `ResearchCycle` | `run_cycle` and all the services it calls | implements `Entitlement` |
| `Entitlement` | the abstract promise of the ledger: each lineage spent once, read for its holder only | |
| `EvaluationLedger` | `spend` statement by statement, many processes | implements `Entitlement` |
| `Screening` | what `screen_cycle` computes, in numbers | refines a choice `ResearchCycle` leaves free |
| `SeriesStore` | series files and rows, freshness gate, split sizing and reads, `ingest_all` beside them | |
| `VendorFetch` | a declarative connector's `fetch_series` against a changing vendor | what `SeriesStore` takes as one fetch |
| `BudgetGuard` | `guard` by several processes over several periods | |
| `OpsTick` | `tick` by overlapping processes, with the remediation loop | takes `run_cycle` and `ingest_all` as single steps that may fail |
| `Proposals` | `open_proposal`, `approve`, `reject`, git, and git by hand | |
| `ModelCalls` | `complete` of the three backends of `common/llm.py`, with the retry loop | what `ResearchCycle` takes as one answer of the model |
| `Provisioning` | `bootstrap` and `onboard` from the probe to the merged files, `load_config` | takes `open_proposal` and `approve` as the two and one steps `Proposals` opens up |

`MC*.tla` give the constants of each their values; `*Proofs.tla` hold the theorems. Two modules of
proofs are about two components each: `SelectionProofs` (`Screening` and `EvaluationLedger`, which
between them decide what is selected and what is evaluated) and `VendorProofs` (`ModelCalls` and
`VendorFetch`, the clients of a service outside). `Screening` and `VendorFetch` therefore name their
specifications `ScreeningSpec` and `FetchSpec`.

### ResearchCycle

`theses`, `lineages`, `ledger`, `refusals`, `screenings`, `backtests`, `critiques`, `reports`
and `cycle` are the tables; a thesis's index is its rowid order, in which every loop of the
code visits it. `pc` and `queue`, `picked`, `wave`, `launched` are the locals of `run_cycle`.
`finalReads` records for whom the final split was read and `declined` which lineages had a
critique rejected; they are history variables. A draft has one of the shapes that later code
tells apart: valid, or invalid in a way that the refinement or the report can or cannot digest.
Numbers are abstracted to the side of the bar they fall on, and activity to whether it
suffices. Faults are a constant: `raise` lets any call of the run raise, one that reads data, runs
the engine, asks the model or writes a row of the database (SQLite may answer that it is locked);
the write is then not made, and the code marks the cycle failed, or fails at that too. `kill` ends
the process at any point.

### Entitlement and EvaluationLedger

`EvaluationLedger` splits `spend` into BEGIN IMMEDIATE, UPDATE, SELECT, INSERT and COMMIT.
`db` and `refused` are the committed rows, `staged` what an open transaction wrote, `lock` the
connection that holds the write lock. A caller that cannot get the lock waits, and may give up
when its busy timeout ends, also when the commit itself is busy. Callers die anywhere and are
restarted for any thesis. The refinement maps `db` to `holder`: COMMIT is `Spend`, everything
else stutters.

### Screening

Conditions with every subject (level, moving average, change), comparator and reference
(constant, moving average, rolling quantile), the one-day shift, the activity counts, the
notional costs are charged on, the refusal of under-observed theses, and both corrections over
whatever p-values the bootstrap returns. Fractions are pairs compared by cross multiplication,
so nothing is rounded. The panel grows one day at a time and `screen_cycle` is called on it.
Returns, Sharpe ratio, drawdown and the bootstrap itself are left out.

### SeriesStore

`vendor` is what each provider has published, `file` the Parquet file (`NoFrame` while it is
truncated and unreadable), `row` its row with the time of its ingestion (`stamp` is that clock),
`job` the ingest processes. `write_series` truncates and fills; the row follows in a
transaction of its own. Two processes may run `ingest_all` at once: `job[i].alone` notes
whether another process held a frame of the same series meanwhile, and two that fill one file
may leave one nobody can read. `torn` are the series whose last write was killed half way or
overlapped another, `crossed` those that two processes ever wrote at once; both are history.
The cycle's part is the gate of `assert_fresh`, the sizing by `_create_split_allocations`, and
`_read_split`, which selects the rows, reads the files one by one, slices, aligns and refuses
panels with too many holes. A frame is a set of days, a synthetic flag and the edition of its
prices: frames of one vendor and one edition agree on every day they share. `keyOf` is the
configuration: two providers may serve one instrument, and an instrument may keep a
business-day calendar. `kindOf` is what a vendor does to what it served before: one of kind
`adds` leaves it alone, one that `revises` may change any of it, and `sample` is
`sample_provider`, which serves the same values every day for the days that end today
(`SampleWindow`), so that each midnight drops a day and gives the others another day's price.
Vendors of the first two kinds are outside of the program; none withdraws its newest days.

### VendorFetch

`shelf` is the rows each path serves, in order, `cfg` the descriptor: pagination `none`, `offset`
or `cursor`, whether the vendor adds at the front or the end, one path per instrument or one that
they share, a daily mean or not. `cache` is the connector's payload cache. A run requests, filters,
maps, averages, moves to the next shard, cleans and stores, one instrument after another, while the
vendor publishes on every path at once. An observation is known by the rows its value was made of,
and of `elements`, the list of rows received, only how often each is in it: nothing after depends
on their order, since `clean_series` sorts.

### BudgetGuard, OpsTick, Proposals

`BudgetGuard` has the usage table, the exhaustion mark and the `budget_blocked` rows of each
period, and one `guard` per process as: read and compare, increment in another transaction,
then the external calls of that unit; or read the mark, write it, log, notify. The clock moves
between any two. A unit may cost several calls, up to `CallsPerUnit`, since the guard is asked once
for what follows it: `_call_with_backoff` sends a model request up to six times, and `discover` one
request for each endpoint and page.

`OpsTick` abstracts the clock into flags: `due[kind]` is cleared by `update_schedule` and set
again by a passing cadence; `fresh` is set by an ingestion and cleared by time. Each document
has a time stamp, may be published out of order, and is `stored` once ingested. `owed`, `lost`,
`burst` and `deaths` count shortlists and cycles for the properties.

`Proposals` keeps of git what the commands see: `main`, the merge commits of the operating
branch; `tip` and `base` of each proposal branch; `unfinished`, a merge stopped by a conflict.
`rows` is the index. Researchers also edit branches, abort or finish a merge by hand.

### ModelCalls

One call of `complete` with several requests. `todo` and `payloads` are the loop of the backend;
`attempt` is the loop of `_call_with_backoff`, whose waits (4, 8, 16, 32 and 60 seconds and a
jitter) pass seconds of the vendor's window. `left` and `used` are that window, met at any point
of it, with any part of the quota used by earlier calls and a bounded part by other processes.
`seen` and `lost` remember the errors behind each request given up. The adapters differ where
the code does: Gemini's turns a request given up into one unparseable answer, Anthropic's raises
and loses the answers it had, the stub asks nobody.

### Provisioning

A configuration is a set of lines, each of one list of `default.yaml` or `providers.yaml`.
`main` is what the operating branch has held, `made` the proposal branches with what each was
rendered from, `tree` the branch that is checked out, which is what `load_config` and
`_render_file_changes` read. A bootstrap probes vendor by vendor, drafts from each usable catalog,
renders whole files, opens the branch, whose base is the operating branch by then, and lists it.
Rendering and opening are two steps since another approve may come in between. Approving is git's
three-way merge on lines, or a conflict. `todo`, `usable` and `work` are locals of a command;
`owed` and `outcome` record which vendors got an answer.

## 3. The runs

| Run | Instance | States | What it shows |
|---|---|---|---|
| `research_cycle` | 2 lineages of 1 refinement, and 1 of up to 2; an exception of any call, database writes included, and a kill anywhere | 131 thousand | at every kill point the ledger accounts for the final reads, one variant of a lineage survives, a promotion has its evidence on record, variants form one chain and the caps hold; a completed cycle accounts for every thesis; the tables implement `Entitlement`; a living run ends |
| `ledger_concurrent` | 2 callers, 2 lineages, 2 theses, 2 calls each | 220 thousand | one grant and one final read per lineage, true refusals, no call waits for ever, `spend` implements `Entitlement` |
| `budget_overlap` | 2 processes, 2 periods, limits 1 and 0, 2 and 3 calls a unit | 935 thousand | overshoot and the calls made of it are bounded, blocks are true, notices are few |
| `ops_tick` | 2 ticks, 1 feed, 1 retry, 1 death | 203 thousand | shortlists, cycles, escalations and schedule stay in step |
| `ops_tick_goes_on` | 1 tick, 2 documents, 2 retries, outages | 6.5 thousand | every document is stored in the end, every tick ends |
| `proposals` | 2 proposals, 2 researchers, 2 commits a branch, 3 merges, kills | 378 thousand | the index claims no branch and no merge that git does not have |
| `series_store` | 2 series, 5 days, 4 histories, 3 configurations, vendors that revise, the sample connector, 2 runs of ingest, overlapping or not | 4.4 million | the splits are in order and stay what they were, rows describe files, the gate tells the truth |
| `screening` | 4 theses, 2 instruments, 2 prices, 5 days, 4 p-values, both methods | 173 thousand | no look-ahead, a round trip per stretch held, the family is corrected as promised |
| `vendor_fetch` | 48 descriptors, 2 instruments, 2 shards, up to 3 publications | 18 thousand | nothing published is missed, a shared file is one snapshot, paging ends |
| `model_calls` | 2 requests, a quota of 2 a window of 120 s, 1 of it taken by others | 109 thousand | a spent quota costs no answer, every call ends |
| `provisioning` | a bootstrap, an onboard, 2 vendors, 3 drafts, 1 descriptor, 2 proposals, 2 merges | 956 thousand | only what was approved is in effect, and it stays; every vendor gets its answer |
| `report_is_complete` | 2 theses, no faults | violation | see section 6 |

### Bounds and why they are enough

* `ResearchCycle` needs two lineages for a confusion of lineages and one refinement for a
  confusion of variants; a chain needs depth two, and that is a second setup, with one lineage,
  because two lineages of depth two pass five minutes. A lineage meets another only through
  the ledger, the loops over theses and the family. The launch budget is lineages times
  (1 + depth), so in this code it is reached only when every depth is.
* `EvaluationLedger`: a double grant or a false refusal needs two callers of one lineage; the
  second lineage and the second call of each are for retries and for refusals that name the
  wrong row. Nothing in `spend` depends on how many callers wait. There is no symmetry here
  since liveness is checked.
* `BudgetGuard`: the overshoot bound speaks of the number of processes; two show that it is
  tight (limit 1, usage 2) and the proof covers the rest. Two periods are needed for a roll-over
  during a call. A model call that is retried once and a probe of three requests stand for the six
  attempts and for any number of endpoints and pages, which the proof has too.
* `OpsTick`: two ticks overlap; one death and one retry reach every path. Time stamps need two
  values only for out-of-order publication, in the liveness run.
* `Proposals`: a conflict and a lost merge need two proposals, a race needs two researchers,
  a second approve of an edited branch two commits; three merges let both be merged and one
  again. Deadlock is off: when all processes were killed or all bounds are reached there is
  nothing left to do.
* `SeriesStore`: fractions of 50 % and 34 % give a five-day history splits of 3, 1 and 1 days,
  so that a hole can lie inside a split, and shorter histories empty splits. A vendor's history is
  empty, complete, a day short or has a hole; two more days are published while two ingest
  runs rewrite each file under the cycle's eyes; the tolerance of one day and a gap limit of
  zero put the gate and the alignment at their thresholds. The two runs follow one another with
  every history and configuration; they overlap with complete histories and one provider each,
  since what overlapping disturbs is one series at a time, and the proofs, which have no such
  bound, cover the rest. A vendor that revises beside one that adds, and the sample connector beside
  one and on its own, with a window of three days (`SampleDays`, 1200 in the code) that moves twice,
  are three more setups. Deadlock is off: time is bounded.
* `Screening`: the longest window is three days, so five days have days before, at and after
  every warm-up; a family of four has ties and every rank. The p-values lie on both sides of
  each critical value k/4 of 6/12. Deadlock is off: the panel is bounded.
* `VendorFetch`: pages of three rows cut the rows of a day in two, and of a time too; two shards,
  two instruments and three publications while the run lasts. Deadlock is off: a run ends.
* `ModelCalls`: the window equals the sum of the waits, the largest that the property allows; a
  quota of two with one taken by others is the least that leaves this process something and
  can still be found spent. Two requests follow one another in one window. Deadlock is off: one
  call is followed to its end.
* `Provisioning`: two proposals are needed for one rendered before the other is merged, two merges
  for the order of the two; one vendor has a module and one is declarative; the drafts add an
  entry and a category, repeat an instrument key, and invent a category.

### Fairness

* `ResearchCycle`, `VendorFetch`, `ModelCalls`: `WF` of the process's own step. The code is
  sequential; while it lives it goes on: a vendor's client answers or raises, and `sleep` returns.
  Kills are in the model and are not fair.
* `EvaluationLedger`: `WF` per caller of its next statement or its busy timeout. SQLite returns
  to a waiting connection in one of the two ways, and the holder of the lock either goes on or
  dies, which releases it.
* `OpsTick`: `WF` of each tick's steps (the scheduler starts ticks again and again), `WF` of the
  passing refresh cadence, and `SF` of a market refresh that succeeds: a vendor asked infinitely
  often answers at some time. Cycles, polls and remediations may fail for ever.
* Vendors publish a bounded number of times, in `VendorFetch` and `SeriesStore`. Against a vendor
  that adds rows faster than pages are read the paging loop of the code would not end.

No other module states liveness, and none of their specifications has fairness.

## 4. What is proved

`PROJECT.json` lists 50 theorems, checked by TLAPS for every value of the constants. They rest
only on the named assumptions of the modules: caps, limits and bounds are natural numbers, the
sets of processes, ticks, feeds, proposals and researchers are finite, a configured store has a
series, the vendor's window is no longer than the sum of the waits, the markers for "nobody" and
"unspent" are not members of the sets they stand beside, and the fault set is any subset of the
faults. Theses and conditions name instruments of the panel, a minimum of active days is a natural
number, and p-values and the level are fractions of one whole. A vendor serves each row of its
shard once, a time is in one shard, and where days are averaged an older shard has whole days, as
the yearly files that shards are made for do. No fairness is assumed. Each module of proofs has
the same three parts: `Init => IInv`, `IInv /\ [Next]_vars => IInv'` with a lemma per group of
actions, and `IInv` gives the property. On the instances of their runs TLC finds the inductive
invariants to hold too: `NoticeInv`, `StableUntilRevised`, `ScreeningInv` and `FetchInv` were
checked that way.

* **`ResearchCycleProofs`**: `TypeOK`, `LedgerRowBeforeThesis`, every safety invariant the run
  `research_cycle` checks, and that `run_cycle` implements `Entitlement`, for every number of
  lineages and theses, every depth and every fault set. Five inductive invariants, each resting on
  the ones before. `IInv` is for `FinalsHoldTheirRow`, which is not inductive: that a spend finds
  its lineage unspent needs to know that nothing is spent before the final loop
  (`NothingSpentYet`), that within it only the lineage at hand may be spent (`QueuedAreUnspent`),
  that the thesis at hand is its pending finalist (`FinalistIsPending`), and that ledger and
  lineage rows are appended in step (`RowsInOrder`). With `ReadersKnown`, that the final split has
  not been read for the thesis it is about to be read for, it is `LedgerAccountsForFinals`. `CInv`
  makes every lineage a chain: a thesis that is not its lineage's youngest was rejected
  (`OlderAreRejected`), and the rows a wave refines are youngest and stay so until their turn
  (`CandidatesAreYoungest`), which gives `OneSurvivorPerLineage` and `RefinementChain`. `EInv` has
  for each status the rows behind it, among them that a proposed thesis has none
  (`UntestedHaveNoRows`) and that the verdict about to be applied was recorded (`VerdictAtHand`):
  `PromotionHasEvidence`. `KInv` bounds what is launched and stored and ties the stored depth to
  the youngest iteration (`DepthIsStored`): `CapsHold`. The depth may lag by one, behind the last
  thesis only, between the insert and `bump_lineage_depth`, and for good where that call raises or
  the run is killed before it (`Lagging`): the next reader of the depth would be the next wave,
  and such a run has none. `AInv` says of each status that is not final which loop will still
  visit the thesis (`Waits`); when the report is built none is left to come:
  `CompletedIsAccountedFor`. `ImplementsEntitlement` follows from `IInv`, `CInv`, `KInv` and
  `ReadersKnown`: every step of the run is a step of the ledger's promise or leaves it as it was.
  `RunUsesUpWhatIsLeft` is the half of `RunEnds` that needs no fairness: `Left` lists the parts of
  the run, the waves, the loops of a wave, the rows of a loop and the places of its body that are
  left, and every step takes from one of them and leaves those before it (`GoesOn`,
  `GoingOnTakes`), an order in which nothing goes down for ever (`LeftIsWellFounded`). It needs
  that each loop has finitely many rows and that there are no more waves than the depth
  (`LoopsAreFinite`).
* **`SelectionProofs`**, of `EvaluationLedger`: `TypeOK`, `OneGrantPerLineage`,
  `TransactionSeesCurrentRow`, `RefusalsAreTrue`, `ReadsAreEntitled`, and that the statements of
  `spend` implement `Entitlement`, for any number of callers, lineages and theses. The key is
  `LockIsHeld`: who is inside a transaction holds the one write lock, so what its UPDATE saw stays
  true until COMMIT; `SelectIsSpent` and `GrantIsHeld` carry what it saw on, and `GrantsApart` says
  that of one lineage only one caller is ever about to read.
* **`SelectionProofs`**, of `Screening`: `NoLookahead`, `RoundTrips` and `FamilyControl`, for every
  number of theses, instruments and days, every condition, any prices and any p-values. There is
  little of a state machine here and much of what the operators compute. `ClauseIsCausal`: a
  clause's value on a day is made of windows that end on that day, so two panels that agree up to a
  day agree on every clause up to it, and the shift by one day does the rest. `RoundTrips` matches
  the days a notional is charged on with the stretches a leg is held: every stretch has one day it
  is entered (`StretchesHaveEntries`) and one it is left (`StretchesHaveExits`), the two counts are
  compared through bijections, and a stretch open on the last day is left by its flattening.
  `KthSmallestFacts` and `ClearingIsFilled` say that as many p-values are at or below the largest
  clearing rank's as that rank says, without which neither correction would be a statement about
  sets; `DiscoveryClears`, `HochbergIsLargest` and `BonferroniIsDiscovery` are the two methods. The
  invariant `ScreeningInv` adds that the first pass divides the theses by their activity
  (`FirstPassDivides`) and that every thesis of the family has one test (`TestsFollow`).
* **`BudgetGuardProofs`**: `TypeOK`, `OvershootIsBounded`, `SpendIsBounded` and, each from an
  invariant of its own, `BlockedMeansExhausted` and `NoticesAreFew`. A process let through for a
  kind and period is counted before it increments, so an increment moves one unit from one term of
  the bound to the other; `ZeroBlocks` treats a limit of zero, where nobody is ever let through.
  For `SpendIsBounded` the calls made are counted together with those that the units in hand may
  still come to (`ToCome`), which the units counted cover (`CallsAreCovered`): an increment adds
  as many to come as a unit may cost, a call takes one, and a process that ends or dies gives back
  the rest.
  `NoticeInv` counts the notices of a period together with those its processes are still on their
  way to send (`NoticesToCome`): only a process that read the mark of its period unset may send one,
  and it writes the mark first. A process on its own reads what it wrote (`AloneSendsOnce`).
* **`OpsTickProofs`**: `TypeOK`, `ShortlistForEveryCycle`, `CyclesPerCadence`,
  `EscalationIsEarned`, and the action property `DueUntilRun`. `BurstBound` splits a cadence at
  the moment the cycle stops being due: before it, completed cycles belong to ticks still on
  their way to record them or dead; after it, only ticks that had found it due may add one.
  `TicksUseUpTheirSteps` bounds the steps of a tick by the places of its code, its remediation
  attempts and its feeds, and has each of its own steps use some up whatever the others do; that a
  fetched document is of a feed the poll has still to finish (`FetchedIsToFinish`) is what keeps
  the poll from going round.
* **`ProposalsProofs`**: `TypeOK`, `RowsHaveBranches`, `ApprovedIsMerged`, `MergedIsRecorded`,
  for any proposals and researchers. The row is the last thing `open_proposal` writes
  (`RowIsLast`), only proposals with a row are ever merged (`MergedAreKnown`), and an approve
  past its merge holds a commit of the operating branch (`MergeInHand`).
* **`VendorProofs`**, of `ModelCalls`: `TypeOK` and `QuotaCostsNoAnswer`, for every quota, every
  share others take and every window up to the sum of the waits. `WindowIsRunningOut` says that a
  request that has met nothing but the quota has either used up, of the window of its first refusal,
  what it has slept, or has come into a fresh one; after 120 seconds of sleep only the second is
  left. `CallsUseUpTheirSteps`: a call has at most twelve steps a request, and an answer, a failure
  and a sleep each take one or more of them.
* **`VendorProofs`**, of `VendorFetch`: `SeriesIsWhole`, `MeanWeighsOnce` and
  `SharedFileIsOneSnapshot`, for any instruments, shards and columns, any order of a collection, any
  page length and any number of publications between two requests. `ShelvesHold` says that a path
  serves every row of its instruments and times once, which a publication at either end keeps
  (`GrownFacts`). `PagesAreRead` is the invariant of the two paging loops: the rows up to the
  offset, or to where the cursor resumes, have been read (`ReadUpTo`). Rows added at the end leave
  positions alone (`AddedAtTheEnd`); added at the front they move a cursor along with its row, but
  not an offset, which then has rows read twice and none missed (`AddedAtTheFront`): hence the
  exception in `MeanWeighsOnce` and none in `SeriesIsWhole`. When the loop ends the elements are
  whole (`ElementsAreWhole`). `DatesApart` keeps the batches of two shards from sharing a date, so
  that `clean_series` drops none of what was mapped (`NoneIsDropped`) and a series grows by whole
  shards (`SeriesSoFar`). `CacheHolds` has each payload be all that its path served at one moment;
  what a series is made of depends on the payloads alone (`BatchIsMade`), which are never replaced.
  `RunsUseUpWhatIsLeft`: every page moves the offset or the cursor on (`FollowCursorMoves`), so each
  step takes from the publications, series, endpoints, steps or rows that are left, in the order
  `LessLeft`.
* **`ProvisioningProofs`**: `TypeOK`, `OnlyApprovedInEffect`, `VendorsAreAnswered` and the action
  property `ApprovedLinesStay`, for any number of commands, vendors, drafts and merges.
  `BranchesAreRendered` ties each branch to what its command had read and the base it was put
  on; `SourcesAreApproved` follows approved lines from the operating branch into what is read and
  back; `UnansweredAreToCome` says that a vendor without a row is still in the loop's list.
* **`SeriesStoreProofs`**: `TypeOK`, `RowDescribesFile`, `SplitsInOrder`, `SplitIsStable` and the
  action property `GateIsTrue`, for any number of series, providers, days, fractions and
  overlapping ingests. `SharingIsNoted` says that of two processes that hold a frame of one series
  neither passes for alone, so what a process that does has written is there until its row is
  (`WrittenAlone`). While a series was never written by two at once, each frame fetched and each
  file holds the day of the newest row (`NeverCrossed`), which is what a fetch gives whose vendor
  may drop early days and never withdraws its newest (`VendorsReachOn`). `RangesInOrder` is the
  arithmetic of the splits for every span, also a negative one, where the final split comes out
  empty; `ReadsAreInRange` says that the ranges are set once, before the first panel, and that
  every panel lies in its own. `StableInv` is for `SplitIsStable`, and holds until a vendor
  changes what it served (`StableUntilRevised`, `OneEdition`): every frame is the start of its
  vendor's history (`HistoriesGrowAtTheEnd`); while no two ingests write a series, what is read of
  it later is never shorter (`NeverShorter`); so from the allocation on every file reaches the
  last day of the ranges (`RangesAreCovered`), and what a panel was cut to once it is cut to again
  (`PanelsAreCuts`).

Five of the theorems state definitions that no run checks: `LedgerRowBeforeThesis`,
`TransactionSeesCurrentRow`, `EscalationIsEarned`, `RowsHaveBranches`, and the type invariants.
They are steps towards the others, or say less than a run is worth. `RunUsesUpWhatIsLeft`,
`CallsUseUpTheirSteps`, `RunsUseUpWhatIsLeft` and `TicksUseUpTheirSteps` are no properties of a run
either: TLC checks directly the liveness they are part of.

**Only model-checked.** Liveness (`RunEnds`, `CallsReturn`, `MaterialIsStored`, `TicksEnd`,
`FetchEnds`, `Answered`), since the prover handles neither fairness with ENABLED nor the
induction that would join it to a decreasing measure. For `RunEnds`, `FetchEnds`, `Answered` and
`TicksEnd` the measure itself is proved to go down for every value of the constants; that a step is
possible until the end, and so happens under fairness, is what only TLC shows. `spend` has no loop,
so `CallsReturn` has nothing of the kind to prove, and `MaterialIsStored` rests on the strong
fairness of the refresh. Every safety invariant and every other action property
that a passing run checks is proved.

## 5. What is not modelled, and what is abstracted

* Prices, returns, Sharpe ratios, drawdowns, the bootstrap and the wording of anything. The
  pipeline's control depends on them only through verdicts, which `ResearchCycle` chooses
  freely and `Screening` partly computes.
* Quality records and issue detection: nothing in the program reads them back.
* `replay_cycle`, and `fetch_context` and the storage of documents beyond what `OpsTick` has of
  them: planned, section 7.
* `data_source_descriptors`: `onboard` writes it last and nothing reads it.
* `load_config` appears in `Provisioning` as what it refuses in provider and instrument entries;
  its other sections, CLI and logging have no state. The documents of the sample connectors and
  the dashboard: no state of their own. What a vendor's `discover` answers is parsed in one step.
* Of an answer of a model only whether it is a payload, a refusal or neither; of a draft only the
  lines it would add. Wording is never compared.
* Fractions of the configuration are whole percents and p-values are fractions of a common
  denominator; floating-point rounding at a bound is therefore not represented.
* `OpsTick` reads in one step what is due and whether the data are fresh, and `Proposals` takes
  the checkout and the merge of an approve together: between the two reads, or the two git commands,
  no other process comes in.
* In `OpsTick` a whole `ingest_all` is one step that may fail, and a whole `run_cycle` is one
  that completes, finds stale data or raises; their insides are `SeriesStore` and
  `ResearchCycle`. In `SeriesStore` a vendor's answer is one step; its inside is `VendorFetch`.
* SQLite is taken at its documented word: one writer, atomic commit, rollback on death. So are
  the atomicity of single git ref updates.

## 6. Where documents and code differ

One difference has a run whose counterexample shows it.

* `EveryThesisReported` (`report_is_complete`): report-contract.md says a thesis with no entry in
  the report is a contract violation. An invalid draft is stored as it came, and the refinement
  (`generation/service.py:196`) or the report (`report_builder.py:65`) later reads it as if it
  were well formed and raises. The cycle is marked failed and no thesis has an entry.

The following definitions state what a document or comment says and the code does not keep. They
are in no run; add one to a configuration to see its counterexample.

| Definition | Says | The code |
|---|---|---|
| `BudgetGuard!BudgetNeverExceeded` | SC-010, budgets are never exceeded | two processes may both pass the check; `OvershootIsBounded` is what holds |
| `BudgetGuard!EveryCallIsCounted` | budget-contract.md:7-8, every model call and every vendor request is discretionary spend | one `guard` covers the up to six attempts of a model call (`common/llm.py:67-86`), and one the requests of a `discover`, one for each endpoint and page (`vendor_probe.py:94`, `declarative.py:359-366`); `SpendIsBounded` is what holds |
| `BudgetGuard!EveryExhaustionNotified` | SC-010, every exhaustion event is notified | one mark serves both kinds of a period, so the second kind to run out is silent |
| `OpsTick!WatermarkIsIngested` | `ops_agent/store/schema.py:63`, the watermark is what has been ingested | the poll writes it before it ingests (`agent.py:288`); after an outage it names a document that is not stored and no later poll sees, until a market refresh stores it, which is what `MaterialIsStored` checks |
| `OpsTick!BlockedCycleIsVisible` | SC-009, a blocked cycle runs or is escalated | the ingestion inside the poll (`agent.py:291`) is unguarded, so an outage there ends the tick before its due cycle |
| `Proposals!RecordedCommitIsItsMerge` | proposal-lifecycle.md rule 4 | a second approve merges nothing and records whatever HEAD is |
| `Proposals!RejectedIsUnmerged`, `RejectionIsDurable` | the lifecycle, rule 5 | no status is checked: approve after reject and reject after approve both succeed |
| `Proposals!TreeIsApproved` | cycles run on what was approved | a conflicting merge leaves its markers in the working tree |
| `ResearchCycle!InvalidIsExcluded` | data-model.md:102, invalid drafts are excluded from further processing | `invalid_schema` is among the statuses that are critiqued and refined (`cycle.py:36,152`) |
| `ResearchCycle!RejectedCritiqueEndsLineage` | `critique/service.py:57`, the loop stops refining that lineage | the loop goes to the next candidate and finds the lineage again in the next wave; depth 2 is needed to see it |
| `SeriesStore!SyntheticIsLabelled` | data-model.md:38, synthetic provenance propagates | the label is read from the rows before the files, which an ingest may replace in between |
| `SeriesStore!SampleIsAFixture` | `sample_provider.py:81-83`, the sample dataset is a fixture, identical across ingestions, which makes replay meaningful | its values are, but they are dated from today backwards (`sample_provider.py:93-95`): after an ingestion past midnight a split read again has lost a day and has other prices |
| `Provisioning!NothingUnapprovedInEffect` | SC-002 (`spec.md:309`, `quickstart.md:91`), no configuration change takes effect unapproved | a proposal rendered while another one's branch is checked out carries that one's lines along; `OnlyApprovedInEffect` is what holds |
| `Provisioning!ApprovedConfigurationLoads` | `proposals/models.py:49,57,65`, the drafts mirror the settings | a draft's category is any string; once approved, one that the settings do not know ends every later command at `load_config` |

Other differences, found by changing an instance or by reading:

* With two overlapping ingest runs the file of an older fetch may be written over that of a newer
  one before the newer row. Then the gate lets a cycle start on stale prices, and an instrument's
  history shrinks under a cycle, so that a split read twice is not the same panel: this is what
  `crossed` excuses in `GateIsTrue` and excludes from `SplitIsStable`. The next ingestion that has
  the series to itself repairs row and file.
* `SplitIsStable` needs one provider per instrument, histories that overlapped, and vendors that
  have not changed what they served: with two providers, which one serves an instrument changes
  with the order of ingestion; a vendor that revises a price has the next ingestion rewrite it in
  the file; and with the sample connector every midnight does, while the window it serves loses a
  day at the front. Nothing in a cycle holds on to the panel it read first. The other properties of
  `SeriesStore` hold for such vendors too.
* `MeanWeighsOnce` leaves out offset pages of a vendor that adds at the front, with a daily
  mean: a row that moved to the next page is read twice and counts twice.
* Shards that cut a day in two make `SeriesIsWhole` fail under a daily mean, such as `Shards` of
  `<<{1, 2, 3}, {4, 5, 6}>>` with two times a day: each shard has a mean of its own for that day and
  `clean_series` keeps one of them. `ShardAssumption` leaves them out.
* declarative-connector.md rule 4 has the paging loop end when a response yields no new element.
  The code ends when it yields no element, so a vendor that ignores the offset, a descriptor in
  offset mode without `offset_param`, or a cursor that repeats would never end one. `FetchEnds`
  is about vendors that honour the parameters.
* `config/settings.py:79-82` says a read fails at or above `max_cross_series_gap_days`; it fails
  above (`RefusePanel`).
* `agent.py:254` records a failed market refresh with outcome `ok` and as done for its cadence.
* `quickstart.md:94` approves by branch name; the command resolves ids only.
* Between reading the files and reading the base of the branch another proposal may be merged; the
  rendered files then take its lines out again. `ApprovedLinesStay` allows just that.
* A bootstrap whose budget runs out, or whose model raises, while drafting leaves the vendors after
  that one without a row. One with nothing new to propose logs a `propose` with outcome `ok`.
* A draft's `provider_id` is never compared with the vendor that was asked, and entries repeated
  inside one draft are all written. An approved market entry for a provider without a module
  makes `ingest_all` raise a LookupError.
* A quota by the day outlasts the 120 seconds of the retry loop and becomes an invalid draft for
  good. Two processes that share a quota may starve one of them: `Others < Quota` excludes it.
* A request given up by the Anthropic adapter loses the answers to the requests before it.
* A reject after an approve clears the applied commit although the merge stays.

## 7. Plan

Done: the modules above, in the order `ResearchCycle` with `Entitlement`, `EvaluationLedger`,
`BudgetGuard`, `OpsTick`, `Proposals`, `SeriesStore`, `Screening`, `VendorFetch`, `ModelCalls`,
`Provisioning`; proofs for all of them, with every safety property that a run checks.

Next, to extend the model:

1. `replay_cycle` on `SeriesStore`: it runs a new cycle with the recorded configuration and seed
   on the series as they are by then and sizes the splits anew, so what it reproduces depends
   on what was ingested meanwhile.
2. `fetch_context` and document storage in detail, composed with the poll of `OpsTick`.

Then, to prove more:

1. That a request, or a fetch, as a whole implements the single step `ResearchCycle` and
   `SeriesStore` take it for.
