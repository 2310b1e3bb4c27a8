------------------------------ MODULE Screening ------------------------------
(***************************************************************************)
(* What screen_cycle decides on one discovery panel, in numbers: the       *)
(* exposure a condition allows on each day (common/conditions.py), the     *)
(* activity counted from it (common/signals.py) and the notional its costs *)
(* are charged on (backtesting/costs.py), the refusal of under-observed    *)
(* theses, and the family correction (screening/multiplicity.py).          *)
(* ResearchCycle leaves all of this to a free choice of verdicts.          *)
(*                                                                         *)
(* Prices and p-values are small integers; a mean or a quantile is a pair  *)
(* of numerator and denominator, compared by cross multiplication.  The    *)
(* panel grows a day at a time, so that a property can speak of what was   *)
(* known on a day.                                                         *)
(***************************************************************************)
EXTENDS Integers, Sequences, FiniteSetsExt

CONSTANTS
  Instruments,  \* instrument keys of the panel
  Levels,       \* prices an instrument can have
  Hypotheses,   \* the proposed theses, in the order theses_for_cycle returns them
  MaxDays,      \* bound: days of the panel
  MinActive,    \* conditional_screening.min_active_days.discovery
  BlockSize,    \* screening.block_size
  PValues,      \* p-values the bootstrap can return
  One,          \* the p-value 1.0; the others are fractions of it
  Alpha,        \* screening.alpha, as a fraction of One
  Methods       \* choices of screening.multiplicity_method

NoCondition == {}

VARIABLES
  panel,  \* days of the discovery split so far: instrument -> price
  method, \* multiplicity_method of the configuration
  step,   \* of screen_cycle, "data" before it is called
  next,   \* index of the next thesis of the first pass, or of the next test
  tested, \* indices admitted to the family, in order
  failed, \* indices refused before testing
  p,      \* p-values of the family so far, in the order of tested
  passes  \* indices of the theses the correction lets pass

screeningVars == <<panel, method, step, next, tested, failed, p, passes>>

(***************************************************************************)
(* Conditions.                                                             *)
(***************************************************************************)
\* ConditionClause: the fields that do not apply are null, here 0.
ClauseOK(c) ==
  /\ c.instrument \in Instruments
  /\ c.subject \in {"level", "sma", "change"}
  /\ c.subject = "level" <=> c.lookback = 0
  /\ c.comparator \in {"<", "<=", ">", ">="}
  /\ c.reference \in {"constant", "sma", "rolling_quantile"}
  /\ c.reference = "constant" <=> c.refLookback = 0
  /\ c.reference # "rolling_quantile" => c.quantile = 0
  /\ c.lookback \in Nat /\ c.refLookback \in Nat /\ c.quantile \in 0..100

SignalHypothesis ==
  /\ Hypotheses \in Seq({Hypotheses[i] : i \in DOMAIN Hypotheses})
  /\ \A i \in DOMAIN Hypotheses :
      /\ Hypotheses[i].direction \in {"long", "short", "spread", "relative_value"}
      /\ Hypotheses[i].instruments \in Seq(Instruments)
      /\ \A c \in Hypotheses[i].condition : ClauseOK(c)

ScreeningConfig ==
  /\ One \in Nat /\ PValues \subseteq 0..One /\ Alpha \in 1..(One - 1)
  /\ MinActive \in Nat /\ BlockSize \in Nat /\ BlockSize >= 2
  /\ Methods \subseteq {"benjamini_hochberg", "bonferroni"}

ASSUME ScreeningAssumption == SignalHypothesis /\ ScreeningConfig

Fraction(a, b) == [num |-> a, den |-> b]
Price(days, k, t) == days[t][k]

\* series.rolling(n): the n prices up to a day.
Window(days, k, n, t) == [u \in (t - n + 1)..t |-> Price(days, k, u)]

\* .mean()
Mean(window, n) == Fraction(MapThenSumSet(LAMBDA u : window[u], DOMAIN window), n)

\* The r-th smallest price of the window, counted from 0.
OrderStatistic(window, r) ==
  CHOOSE v \in {window[u] : u \in DOMAIN window} :
    /\ Cardinality({u \in DOMAIN window : window[u] < v}) <= r
    /\ r < Cardinality({u \in DOMAIN window : window[u] <= v})

\* .quantile(q): linear between the two order statistics around q.
Quantile(window, n, q) ==
  LET position == q * (n - 1)
      low == position \div 100
      high == IF low + 1 < n THEN low + 1 ELSE low
      weight == position % 100
  IN Fraction(OrderStatistic(window, low) * (100 - weight)
                + OrderStatistic(window, high) * weight, 100)

\* Days on which the subject or the reference is NaN.
WarmUp(c, t) ==
  \/ c.subject = "sma" /\ t < c.lookback
  \/ c.subject = "change" /\ t <= c.lookback
  \/ t < c.refLookback

Subject(days, c, t) ==
  CASE c.subject = "level"  -> Fraction(Price(days, c.instrument, t), 1)
    [] c.subject = "sma"    -> Mean(Window(days, c.instrument, c.lookback, t), c.lookback)
    [] c.subject = "change" -> Fraction(Price(days, c.instrument, t)
                                          - Price(days, c.instrument, t - c.lookback), 1)

Reference(days, c, t) ==
  CASE c.reference = "constant" -> Fraction(c.value, 1)
    [] c.reference = "sma"      -> Mean(Window(days, c.instrument, c.refLookback, t), c.refLookback)
    [] c.reference = "rolling_quantile" ->
         Quantile(Window(days, c.instrument, c.refLookback, t), c.refLookback, c.quantile)

Compare(comparator, x, y) ==
  LET a == x.num * y.den
      b == y.num * x.den
  IN CASE comparator = "<"  -> a < b
       [] comparator = "<=" -> a <= b
       [] comparator = ">"  -> a > b
       [] comparator = ">=" -> a >= b

ClauseActive(days, c, t) ==
  /\ ~WarmUp(c, t)
  /\ Compare(c.comparator, Subject(days, c, t), Reference(days, c, t))

\* Mutant: the mask is not shifted, the close of a day decides the exposure of that day.
ExposedSameDay(days, condition, t) == \A c \in condition : ClauseActive(days, c, t)

\* evaluate_condition: what the closes up to a day say is the exposure of the next.
Exposed(days, condition, t) ==
  condition # NoCondition => t > 1 /\ \A c \in condition : ClauseActive(days, c, t - 1)

(***************************************************************************)
(* Activity and costs.  The first day has no return and drops out.         *)
(***************************************************************************)
ReturnDays(days) == 2..Len(days)
InMarket(days, condition) == {t \in ReturnDays(days) : Exposed(days, condition, t)}

Entries(days, condition) ==
  {t \in InMarket(days, condition) : t - 1 \notin InMarket(days, condition)}

\* Mutant: a position still open at the end of the split is not closed.
ExitsSeen(days, condition) ==
  {t \in ReturnDays(days) \ InMarket(days, condition) : t - 1 \in InMarket(days, condition)}

\* Days after a position's last one: an open position closes when the split ends.
Exits(days, condition) ==
  {t \in 3..(Len(days) + 1) : /\ t \notin InMarket(days, condition)
                              /\ t - 1 \in InMarket(days, condition)}

Legs(h) == IF h.direction \in {"spread", "relative_value"} THEN 2 ELSE Len(h.instruments)

\* (entries + exits) * n_legs: what transaction costs and slippage are charged on.
TradedNotional(days, h) ==
  (Cardinality(Entries(days, h.condition)) + Cardinality(Exits(days, h.condition))) * Legs(h)

(***************************************************************************)
(* The family correction.                                                  *)
(***************************************************************************)
Family == DOMAIN p
KthSmallest(k) ==
  CHOOSE v \in {p[i] : i \in Family} :
    /\ Cardinality({i \in Family : p[i] < v}) < k
    /\ k <= Cardinality({i \in Family : p[i] <= v})

\* Ranks whose p-value clears its critical value alpha * k / m.
Clearing == {k \in Family : KthSmallest(k) * Len(p) <= Alpha * k}

\* Mutant: the first rank that fails ends the search, a step-down procedure.
StepDownPasses ==
  LET k == Max({0} \union {r \in Family : 1..r \subseteq Clearing})
  IN {tested[i] : i \in {i \in Family : k > 0 /\ p[i] * Len(p) <= Alpha * k}}

\* benjamini_hochberg: the critical value of the largest rank that clears its own.
HochbergPasses ==
  IF Clearing = {} THEN {}
  ELSE {tested[i] : i \in {i \in Family : p[i] * Len(p) <= Alpha * Max(Clearing)}}

BonferroniPasses == {tested[i] : i \in {i \in Family : p[i] * Len(p) <= Alpha}}

(***************************************************************************)
(* screen_cycle.                                                           *)
(***************************************************************************)
ScreeningInit ==
  /\ panel = <<>>
  /\ method \in Methods
  /\ step = "data"
  /\ next = 1
  /\ tested = <<>> /\ failed = {} /\ p = <<>> /\ passes = {}

\* The panel read_discovery_data returns: any prices.
Observe ==
  /\ step = "data"
  /\ Len(panel) < MaxDays
  /\ \E day \in [Instruments -> Levels] : panel' = Append(panel, day)
  /\ UNCHANGED <<method, step, next, tested, failed, p, passes>>

ScreenCycle ==
  /\ step = "data"
  /\ panel # <<>>
  /\ step' = "first_pass"
  /\ UNCHANGED <<panel, method, next, tested, failed, p, passes>>

ActiveDays(i) == Cardinality(InMarket(panel, Hypotheses[i].condition))

RefuseUnderObserved ==
  /\ step = "first_pass" /\ next <= Len(Hypotheses)
  /\ ActiveDays(next) < MinActive
  /\ failed' = failed \union {next}
  /\ next' = next + 1
  /\ UNCHANGED <<panel, method, step, tested, p, passes>>

AdmitToFamily ==
  /\ step = "first_pass" /\ next <= Len(Hypotheses)
  /\ ActiveDays(next) >= MinActive
  /\ tested' = Append(tested, next)
  /\ next' = next + 1
  /\ UNCHANGED <<panel, method, step, failed, p, passes>>

StartTests ==
  /\ step = "first_pass" /\ next > Len(Hypotheses)
  /\ step' = "tests"
  /\ next' = 1
  /\ UNCHANGED <<panel, method, tested, failed, p, passes>>

\* block_bootstrap_test: any p-value, and 1.0 for a series of less than two blocks.
Test ==
  /\ step = "tests" /\ next <= Len(tested)
  /\ \E v \in PValues :
       /\ Cardinality(ReturnDays(panel)) < 2 * BlockSize => v = One
       /\ p' = Append(p, v)
  /\ next' = next + 1
  /\ UNCHANGED <<panel, method, step, tested, failed, passes>>

Decide ==
  /\ step = "tests" /\ next > Len(tested)
  /\ passes' = IF method = "bonferroni" THEN BonferroniPasses ELSE HochbergPasses
  /\ step' = "decided"
  /\ UNCHANGED <<panel, method, next, tested, failed, p>>

ScreeningNext ==
  \/ Observe \/ ScreenCycle
  \/ RefuseUnderObserved \/ AdmitToFamily
  \/ StartTests \/ Test \/ Decide

ScreeningSpec == ScreeningInit /\ [][ScreeningNext]_screeningVars

(***************************************************************************)
(* Properties.                                                             *)
(***************************************************************************)
Conditions == {Hypotheses[i].condition : i \in DOMAIN Hypotheses}

\* spec 003 FR-004: the exposure of every day up to tomorrow is settled by the closes up
\* to today, whatever tomorrow's close will be, for every transform, lookback and
\* reference a condition can name.
NoLookahead ==
  step = "data" =>
    \A condition \in Conditions, x, y \in [Instruments -> Levels], t \in 1..(Len(panel) + 1) :
      Exposed(Append(panel, x), condition, t) <=> Exposed(Append(panel, y), condition, t)

\* The stretches of days a position is held over, without gaps, as first and last day.
Stretches(days, condition) ==
  LET held == InMarket(days, condition) IN
  {r \in ReturnDays(days) \X ReturnDays(days) :
     /\ r[1] <= r[2] /\ r[1]..r[2] \subseteq held
     /\ r[1] - 1 \notin held /\ r[2] + 1 \notin held}

\* Costs are charged for exactly one entry and one exit a leg for each stretch a position
\* is held, the one cut off by the end of the split included; for an unconditional thesis
\* that is one round trip, as before conditions existed (003 FR-012).
RoundTrips ==
  step = "data" => \A i \in DOMAIN Hypotheses :
    LET h == Hypotheses[i] IN
    /\ TradedNotional(panel, h) = 2 * Legs(h) * Cardinality(Stretches(panel, h.condition))
    /\ h.condition = NoCondition /\ Len(panel) > 1 => TradedNotional(panel, h) = 2 * Legs(h)

\* 001 FR-030 and 003 FR-006: the family is exactly the theses observed long enough, and
\* what passes is the largest set of them whose p-values all lie within alpha times the
\* set's share of the family; Bonferroni never passes more.
Observed == {i \in DOMAIN Hypotheses : ActiveDays(i) >= MinActive}
PValue(i) == p[CHOOSE j \in Family : tested[j] = i]
Discoveries ==
  {R \in SUBSET Observed :
     \A i \in R : PValue(i) * Cardinality(Observed) <= Alpha * Cardinality(R)}

FamilyControl ==
  step = "decided" =>
    /\ {tested[j] : j \in DOMAIN tested} = Observed
    /\ failed = DOMAIN Hypotheses \ Observed
    /\ method = "benjamini_hochberg" => passes = UNION Discoveries
    /\ method = "bonferroni" => \E R \in Discoveries : passes \subseteq R
=============================================================================
