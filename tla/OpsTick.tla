------------------------------- MODULE OpsTick -------------------------------
(***************************************************************************)
(* ops_agent/agent.py:tick, the pass an external scheduler starts on a     *)
(* cadence: refresh market data if due, poll the qualitative feeds if due, *)
(* then, if a cycle is due, run one, remediating stale data before         *)
(* escalating (remediation.py).  Nothing stops the scheduler from starting *)
(* a tick while the one before it still runs, so there are several         *)
(* processes; they share ops_agent.sqlite and the research data store.     *)
(*                                                                         *)
(* The wall clock is abstracted: is_due is a flag that update_schedule     *)
(* clears and that the passing of a cadence sets again; the freshness of   *)
(* the required series is a flag that ingestion may set and time clears.   *)
(* One action is one transaction together with the computation before it.  *)
(***************************************************************************)
EXTENDS Integers, FiniteSets

CONSTANTS
  Ticks,       \* processes
  Feeds,       \* <<provider, category>> of the qualitative feeds
  LastTs,      \* bound: documents are stamped 1..LastTs
  MaxRetries,  \* remediation.max_retries
  Faults,      \* of "vendor" (an outage), "raise" (another exception), "kill"
  MaxDeaths    \* bound: ticks that die

ASSUME TickAssumption ==
  /\ IsFiniteSet(Ticks) /\ IsFiniteSet(Feeds)
  /\ LastTs \in Nat /\ MaxRetries \in Nat /\ MaxDeaths \in Nat
  /\ Faults \subseteq {"vendor", "raise", "kill"}

Kinds == {"market_refresh", "qualitative_poll", "cycle"}

VARIABLES
  due,        \* is_due of each kind of operating_schedule_state
  fresh,      \* every required series is within the freshness tolerance
  published,  \* feed -> timestamps of the documents its vendor offers
  stored,     \* feed -> timestamps of its documents in context_docs
  watermark,  \* feed -> last_seen_marker, 0 before there is one
  pc,         \* tick -> next step
  toPoll,     \* tick -> feeds its poll has still to visit
  fetched,    \* tick -> the feed just fetched with its newest timestamp
  foundNew,   \* tick -> found_new
  tries,      \* tick -> remediation attempts begun
  ended,      \* tick -> how its last pass ended
  owed,       \* history: completed cycles no shortlist was sent for
  lost,       \* history: those of them whose tick died before it could
  burst,      \* history: cycles completed since the cycle last became due
  deaths      \* history: ticks that died

world == <<fresh, published, stored>>
agent == <<due, watermark>>
locals == <<toPoll, fetched, foundNew, tries, ended>>
history == <<owed, lost, burst, deaths>>
vars == <<world, agent, pc, locals, history>>

Init ==
  /\ due = [k \in Kinds |-> TRUE]
  /\ fresh = FALSE
  /\ published = [f \in Feeds |-> {}]
  /\ stored = published
  /\ watermark = [f \in Feeds |-> 0]
  /\ pc = [p \in Ticks |-> "idle"]
  /\ toPoll = [p \in Ticks |-> {}]
  /\ fetched = [p \in Ticks |-> {}]
  /\ foundNew = [p \in Ticks |-> FALSE]
  /\ tries = [p \in Ticks |-> 0]
  /\ ended = [p \in Ticks |-> "none"]
  /\ owed = 0 /\ lost = 0 /\ burst = 0 /\ deaths = 0

Goto(p, place) == pc' = [pc EXCEPT ![p] = place]

Return(p, how) ==
  /\ Goto(p, "idle")
  /\ ended' = [ended EXCEPT ![p] = how]

\* update_schedule_state with the current time.
Fired(kind) == due' = [due EXCEPT ![kind] = FALSE]

(***************************************************************************)
(* ingest_all as its callers see it.  It refreshes the series its vendors  *)
(* have news of and replaces the stored documents of every feed by those   *)
(* on offer; when it raises, what came before the failing vendor is kept.  *)
(***************************************************************************)
\* Mutant: only documents newer than the watermark are stored.
IngestNewerOnly ==
  /\ fresh' \in {fresh, TRUE}
  /\ stored' = [f \in Feeds |->
                  stored[f] \union {t \in published[f] : t > watermark[f]}]
  /\ UNCHANGED published

IngestSucceeds ==
  /\ fresh' \in {fresh, TRUE}
  /\ stored' = published
  /\ UNCHANGED published

IngestFails ==
  /\ "vendor" \in Faults
  /\ fresh' \in {fresh, TRUE}
  /\ \E done \in SUBSET Feeds :
       stored' = [f \in Feeds |-> IF f \in done THEN published[f] ELSE stored[f]]
  /\ UNCHANGED published

-----------------------------------------------------------------------------
Start(p) ==
  /\ pc[p] = "idle"
  /\ Goto(p, "refresh")
  /\ ended' = [ended EXCEPT ![p] = "none"]
  /\ tries' = [tries EXCEPT ![p] = 0]
  /\ foundNew' = [foundNew EXCEPT ![p] = FALSE]
  /\ UNCHANGED <<world, agent, toPoll, fetched, history>>

(***************************************************************************)
(* _refresh_market_data_if_due: a failed ingestion is logged and counts as *)
(* fired all the same.                                                     *)
(***************************************************************************)
RefreshNotDue(p) ==
  /\ pc[p] = "refresh"
  /\ ~due["market_refresh"]
  /\ Goto(p, "poll")
  /\ UNCHANGED <<world, agent, locals, history>>

RefreshSucceeds(p) ==
  /\ pc[p] = "refresh"
  /\ due["market_refresh"]
  /\ IngestSucceeds
  /\ Goto(p, "refreshed")
  /\ UNCHANGED <<agent, locals, history>>

RefreshFails(p) ==
  /\ pc[p] = "refresh"
  /\ due["market_refresh"]
  /\ IngestFails
  /\ Goto(p, "refreshed")
  /\ UNCHANGED <<agent, locals, history>>

RecordRefresh(p) ==
  /\ pc[p] = "refreshed"
  /\ Fired("market_refresh")
  /\ Goto(p, "poll")
  /\ UNCHANGED <<world, watermark, locals, history>>

(***************************************************************************)
(* _poll_qualitative_feeds_if_due.  The order of the feeds is left open.   *)
(***************************************************************************)
PollNotDue(p) ==
  /\ pc[p] = "poll"
  /\ ~due["qualitative_poll"]
  /\ Goto(p, "cycle")
  /\ UNCHANGED <<world, agent, locals, history>>

StartPoll(p) ==
  /\ pc[p] = "poll"
  /\ due["qualitative_poll"]
  /\ toPoll' = [toPoll EXCEPT ![p] = Feeds]
  /\ Goto(p, "poll_feed")
  /\ UNCHANGED <<world, agent, fetched, foundNew, tries, ended, history>>

NewDocs(f) == {t \in published[f] : t > watermark[f]}

\* A connector that raises is logged and skipped.
SkipFeed(p, f) ==
  /\ pc[p] = "poll_feed"
  /\ f \in toPoll[p]
  /\ "vendor" \in Faults \/ NewDocs(f) = {}
  /\ toPoll' = [toPoll EXCEPT ![p] = @ \ {f}]
  /\ UNCHANGED <<world, agent, pc, fetched, foundNew, tries, ended, history>>

FetchNewDocs(p, f) ==
  /\ pc[p] = "poll_feed"
  /\ f \in toPoll[p]
  /\ \E t \in NewDocs(f) :
       /\ \A u \in NewDocs(f) : u <= t
       /\ fetched' = [fetched EXCEPT ![p] = {<<f, t>>}]
  /\ foundNew' = [foundNew EXCEPT ![p] = TRUE]
  /\ Goto(p, "mark_feed")
  /\ UNCHANGED <<world, agent, toPoll, tries, ended, history>>

UpdateWatermark(p, f, t) ==
  /\ pc[p] = "mark_feed"
  /\ <<f, t>> \in fetched[p]
  /\ watermark' = [watermark EXCEPT ![f] = t]
  /\ fetched' = [fetched EXCEPT ![p] = {}]
  /\ toPoll' = [toPoll EXCEPT ![p] = @ \ {f}]
  /\ Goto(p, "poll_feed")
  /\ UNCHANGED <<world, due, foundNew, tries, ended, history>>

EndPoll(p) ==
  /\ pc[p] = "poll_feed"
  /\ toPoll[p] = {}
  /\ Goto(p, IF foundNew[p] THEN "ingest_docs" ELSE "polled")
  /\ UNCHANGED <<world, agent, locals, history>>

IngestDocs(p) ==
  /\ pc[p] = "ingest_docs"
  /\ IngestSucceeds
  /\ Goto(p, "polled")
  /\ UNCHANGED <<agent, locals, history>>

\* Nothing catches this one: the tick ends with a traceback.
IngestDocsRaises(p) ==
  /\ pc[p] = "ingest_docs"
  /\ IngestFails
  /\ Return(p, "raised")
  /\ UNCHANGED <<agent, toPoll, fetched, foundNew, tries, history>>

RecordPoll(p) ==
  /\ pc[p] = "polled"
  /\ Fired("qualitative_poll")
  /\ Goto(p, "cycle")
  /\ UNCHANGED <<world, watermark, locals, history>>

(***************************************************************************)
(* The cycle of tick, and remediate_and_run_cycle.                         *)
(***************************************************************************)
CycleNotDue(p) ==
  /\ pc[p] = "cycle"
  /\ ~due["cycle"]
  /\ Return(p, "noop")
  /\ UNCHANGED <<world, agent, toPoll, fetched, foundNew, tries, history>>

\* assert_fresh lets run_cycle go on, or raises StaleDataError.
RunCycle(p) ==
  /\ pc[p] = "cycle"
  /\ due["cycle"]
  /\ Goto(p, IF fresh THEN "running" ELSE "remediate")
  /\ UNCHANGED <<world, agent, locals, history>>

MayRemediate(p) == pc[p] = "remediate" /\ tries[p] < MaxRetries

\* Mutant: `while True`, the attempts are not counted.
RemediateForever(p) ==
  /\ MayRemediate(p)
  /\ \/ IngestSucceeds /\ Goto(p, "retry")
     \/ IngestFails /\ Goto(p, "remediate")
  /\ UNCHANGED <<agent, locals, history>>

RemediateIngest(p) ==
  /\ MayRemediate(p)
  /\ tries' = [tries EXCEPT ![p] = @ + 1]
  /\ \/ IngestSucceeds /\ Goto(p, "retry")
     \/ IngestFails /\ Goto(p, "remediate")
  /\ UNCHANGED <<agent, toPoll, fetched, foundNew, ended, history>>

RetryCycle(p) ==
  /\ pc[p] = "retry"
  /\ Goto(p, IF fresh THEN "running" ELSE "remediate")
  /\ UNCHANGED <<world, agent, locals, history>>

GiveUp(p) ==
  /\ pc[p] = "remediate"
  /\ ~MayRemediate(p)
  /\ Goto(p, "escalate")
  /\ UNCHANGED <<world, agent, locals, history>>

\* Mutant: an escalated cycle is recorded as fired.
EscalateAndRecord(p) ==
  /\ pc[p] = "escalate"
  /\ Fired("cycle")
  /\ Return(p, "escalated")
  /\ UNCHANGED <<world, watermark, toPoll, fetched, foundNew, tries, history>>

\* The activity row and the notification; the cycle stays due.
Escalate(p) ==
  /\ pc[p] = "escalate"
  /\ Return(p, "escalated")
  /\ UNCHANGED <<world, agent, toPoll, fetched, foundNew, tries, history>>

\* Mutant: the result is recorded and not sent.
CompleteQuietly(p) ==
  /\ pc[p] = "running"
  /\ owed' = owed + 1
  /\ burst' = burst + 1
  /\ Goto(p, "record")
  /\ UNCHANGED <<world, agent, locals, lost, deaths>>

CompleteCycle(p) ==
  /\ pc[p] = "running"
  /\ owed' = owed + 1
  /\ burst' = burst + 1
  /\ Goto(p, "notify")
  /\ UNCHANGED <<world, agent, locals, lost, deaths>>

\* Any exception of run_cycle but StaleDataError.
CycleRaises(p) ==
  /\ "raise" \in Faults
  /\ pc[p] = "running"
  /\ Return(p, "raised")
  /\ UNCHANGED <<world, agent, toPoll, fetched, foundNew, tries, history>>

\* The cycle_trigger row, the shortlist, the notify_shortlist row.
NotifyShortlist(p) ==
  /\ pc[p] = "notify"
  /\ owed' = owed - 1
  /\ Goto(p, "record")
  /\ UNCHANGED <<world, agent, locals, lost, burst, deaths>>

\* Mutant: the schedule row is not updated.
RecordNothing(p) ==
  /\ pc[p] = "record"
  /\ Return(p, "ran")
  /\ UNCHANGED <<world, agent, toPoll, fetched, foundNew, tries, history>>

RecordCycle(p) ==
  /\ pc[p] = "record"
  /\ Fired("cycle")
  /\ Return(p, "ran")
  /\ UNCHANGED <<world, watermark, toPoll, fetched, foundNew, tries, history>>

\* The process is killed, or its notification sink or database raises.
Die(p, how) ==
  /\ pc[p] # "idle"
  /\ deaths < MaxDeaths
  /\ deaths' = deaths + 1
  /\ lost' = IF pc[p] = "notify" THEN lost + 1 ELSE lost
  /\ toPoll' = [toPoll EXCEPT ![p] = {}]
  /\ fetched' = [fetched EXCEPT ![p] = {}]
  /\ Return(p, how)
  /\ UNCHANGED <<world, agent, foundNew, tries, owed, burst>>

Kill(p) == "kill" \in Faults /\ Die(p, "killed")

SinkRaises(p) == "raise" \in Faults /\ pc[p] = "notify" /\ Die(p, "raised")

(***************************************************************************)
(* The world: cadences pass, data age, vendors publish, and not always in  *)
(* the order of their timestamps.                                          *)
(***************************************************************************)
\* now - last_fired_at reaches the cadence.
Elapse(kind) ==
  /\ ~due[kind]
  /\ due' = [due EXCEPT ![kind] = TRUE]
  /\ burst' = IF kind = "cycle" THEN 0 ELSE burst
  /\ UNCHANGED <<world, watermark, pc, locals, owed, lost, deaths>>

Age ==
  /\ fresh
  /\ fresh' = FALSE
  /\ UNCHANGED <<published, stored, agent, pc, locals, history>>

Publish(f, t) ==
  /\ t \notin published[f]
  /\ published' = [published EXCEPT ![f] = @ \union {t}]
  /\ UNCHANGED <<fresh, stored, agent, pc, locals, history>>

-----------------------------------------------------------------------------
RefreshStep(p) ==
  RefreshNotDue(p) \/ RefreshSucceeds(p) \/ RefreshFails(p) \/ RecordRefresh(p)

PollStep(p) ==
  \/ PollNotDue(p) \/ StartPoll(p) \/ EndPoll(p)
  \/ IngestDocs(p) \/ IngestDocsRaises(p) \/ RecordPoll(p)
  \/ \E f \in Feeds :
       \/ SkipFeed(p, f) \/ FetchNewDocs(p, f)
       \/ \E t \in 1..LastTs : UpdateWatermark(p, f, t)

CycleStep(p) ==
  \/ CycleNotDue(p) \/ RunCycle(p) \/ CompleteCycle(p) \/ CycleRaises(p)
  \/ NotifyShortlist(p) \/ RecordCycle(p)

RemediationStep(p) ==
  RemediateIngest(p) \/ RetryCycle(p) \/ GiveUp(p) \/ Escalate(p)

Step(p) == Start(p) \/ RefreshStep(p) \/ PollStep(p) \/ CycleStep(p) \/ RemediationStep(p)

World ==
  \/ Age
  \/ \E kind \in Kinds : Elapse(kind)
  \/ \E f \in Feeds, t \in 1..LastTs : Publish(f, t)

Next ==
  \/ \E p \in Ticks : Step(p) \/ Kill(p) \/ SinkRaises(p)
  \/ World

Spec == Init /\ [][Next]_vars

\* The scheduler keeps starting ticks and their code goes on, the refresh cadence passes
\* again and again, and a vendor asked again and again answers at some time.
FairSpec ==
  /\ Spec
  /\ \A p \in Ticks : WF_vars(Step(p)) /\ SF_vars(RefreshSucceeds(p))
  /\ WF_vars(Elapse("market_refresh"))

-----------------------------------------------------------------------------
TypeOK ==
  /\ due \in [Kinds -> BOOLEAN]
  /\ fresh \in BOOLEAN
  /\ published \in [Feeds -> SUBSET (1..LastTs)]
  /\ stored \in [Feeds -> SUBSET (1..LastTs)]
  /\ watermark \in [Feeds -> 0..LastTs]
  /\ pc \in [Ticks -> {"idle", "refresh", "refreshed", "poll", "poll_feed", "mark_feed",
                       "ingest_docs", "polled", "cycle", "running", "remediate",
                       "retry", "escalate", "notify", "record"}]
  /\ toPoll \in [Ticks -> SUBSET Feeds]
  /\ fetched \in [Ticks -> SUBSET (Feeds \X (1..LastTs))]
  /\ foundNew \in [Ticks -> BOOLEAN]
  /\ tries \in [Ticks -> 0..MaxRetries]
  /\ ended \in [Ticks -> {"none", "noop", "ran", "escalated", "raised", "killed"}]
  /\ owed \in Nat /\ lost \in Nat /\ burst \in Nat /\ deaths \in 0..MaxDeaths

\* FR-009: a shortlist is sent for each completed cycle and for no other, whether the
\* cycle ran at once or after remediation; the only ones missing are those whose tick
\* died on the way from the cycle to its notification.
ShortlistForEveryCycle ==
  owed = lost + Cardinality({p \in Ticks : pc[p] = "notify"})

\* A cadence triggers one cycle per overlapping tick at most, and one more for each tick
\* that died before it had recorded the cycle as fired.
CyclesPerCadence == burst <= Cardinality(Ticks) + deaths

\* FR-008: a tick gives up and escalates only when it has used all its attempts.
EscalationIsEarned ==
  \A p \in Ticks : ended[p] = "escalated" => tries[p] = MaxRetries

\* A cycle stops being due only at the end of a tick that ran one: after an escalation,
\* an exception or a kill the next tick tries again.
DueUntilRun ==
  [][due["cycle"] /\ ~due'["cycle"] =>
       \E p \in Ticks : pc[p] = "record" /\ ended'[p] = "ran"]_vars

\* FR-007 for every document, also one dated before the watermark or found by a poll
\* whose ingestion failed: the market refresh stores it in the end.
MaterialIsStored ==
  \A f \in Feeds, t \in 1..LastTs : t \in published[f] ~> t \in stored[f]

\* Every tick ends, whatever the vendors do: the remediation loop is bounded.
TicksEnd == \A p \in Ticks : pc[p] # "idle" ~> pc[p] = "idle"

(***************************************************************************)
(* What the documents say and the code does not do.                        *)
(***************************************************************************)

\* schema.py: the watermark says what is already ingested.  Between ticks, then, the
\* document it names is stored.
WatermarkIsIngested ==
  (\A p \in Ticks : pc[p] = "idle") =>
    \A f \in Feeds : watermark[f] = 0 \/ watermark[f] \in stored[f]

\* SC-009: a cycle that is due and meets an unreachable vendor runs or is escalated.
BlockedCycleIsVisible ==
  [][\A p \in Ticks :
       pc[p] # "idle" /\ pc'[p] = "idle" /\ due["cycle"] =>
         ended'[p] \in {"ran", "escalated"}]_vars
=============================================================================
