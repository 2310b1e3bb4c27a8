--------------------------- MODULE SelectionProofs ---------------------------
(***************************************************************************)
(* The two guards against selecting a thesis by chance.                    *)
(*                                                                         *)
(* Screening, for any panel, conditions and family: no close decides an    *)
(* exposure before the next day's, costs are charged for every round trip, *)
(* and the correction passes the largest set of theses that alpha allows.  *)
(*                                                                         *)
(* The evaluation ledger, for any number of callers, lineages and theses:  *)
(* its statements, however the callers interleave, die and time out, spend *)
(* every lineage at most once and implement Entitlement.                   *)
(*                                                                         *)
(* The two share no state; Init, Next and Spec are the ledger's, the       *)
(* screening's have their module's name in theirs.                         *)
(***************************************************************************)
EXTENDS Screening, EvaluationLedger, FiniteSetTheorems, WellFoundedInduction, TLAPS


\* A non-empty set of natural numbers has a least one.
LEMMA LeastOfNat ==
  ASSUME NEW S \in SUBSET Nat, S # {}
  PROVE  \E x \in S : \A y \in S : x <= y
<1> DEFINE Less == {ss \in Nat \X Nat : ss[1] < ss[2]}
<1>1. Less = OpToRel(<, Nat)
  BY DEF OpToRel
<1>2. IsWellFoundedOn(Less, Nat)
  BY <1>1, NatLessThanWellFounded
<1> HIDE DEF Less
<1>3. PICK x \in S : \A y \in S : ~(<<y, x>> \in Less)
  BY <1>2, WFMin
<1>4. ASSUME NEW y \in S PROVE x <= y
  <2>1. ~(<<y, x>> \in Less)
    BY <1>3
  <2> QED
    BY <2>1 DEF Less
<1> QED
  BY <1>3, <1>4

\* A non-empty set of natural numbers up to a bound has a greatest one.
LEMMA GreatestUpTo ==
  ASSUME NEW n \in Nat, NEW S \in SUBSET (0..n), S # {}
  PROVE  \E x \in S : \A y \in S : x >= y
<1> DEFINE T == {n - y : y \in S}
<1>0. T # {}
  OBVIOUS
<1>1. T \in SUBSET Nat
  OBVIOUS
<1> HIDE DEF T
<1>2. PICK t \in T : \A u \in T : t <= u
  BY <1>0, <1>1, LeastOfNat
<1>3. PICK x \in S : t = n - x
  BY DEF T
<1>4. ASSUME NEW y \in S PROVE x >= y
  <2>1. n - y \in T
    BY DEF T
  <2> QED
    BY <2>1, <1>2, <1>3
<1> QED
  BY <1>4

\* A subset of an interval is finite and no larger than the interval.
LEMMA FiniteInterval ==
  ASSUME NEW n \in Nat, NEW a \in Nat, NEW S \in SUBSET (a..n)
  PROVE  IsFiniteSet(S) /\ Cardinality(S) \in Nat
<1>1. IsFiniteSet(a..n)
  BY FS_Interval
<1> QED
  BY <1>1, FS_Subset, FS_CardinalityType

\* A one-to-one image of a finite set has its size.
LEMMA SameSize ==
  ASSUME NEW S, NEW T, IsFiniteSet(S), NEW f \in [S -> T],
         \A x, y \in S : f[x] = f[y] => x = y,
         \A z \in T : \E x \in S : f[x] = z
  PROVE  IsFiniteSet(T) /\ Cardinality(T) = Cardinality(S)
<1>1. f \in Bijection(S, T)
  BY DEF Bijection, Injection, Surjection, IsInjective
<1>2. ExistsBijection(S, T)
  BY <1>1 DEF ExistsBijection
<1> QED
  BY <1>2, FS_Bijection

-----------------------------------------------------------------------------
(***************************************************************************)
(* Conditions.                                                             *)
(***************************************************************************)

\* The condition of a day's exposure looks at the closes up to that day only: two panels
\* that agree on them have the same clauses active (common/conditions.py _clause_active).
LEMMA ClauseIsCausal ==
  ASSUME NEW days, NEW other, NEW c, ClauseOK(c), NEW t \in Nat \ {0},
         \A u \in 1..t : days[u] = other[u]
  PROVE  ClauseActive(days, c, t) <=> ClauseActive(other, c, t)
<1> SUFFICES ASSUME ~WarmUp(c, t)
             PROVE  /\ Subject(days, c, t) = Subject(other, c, t)
                    /\ Reference(days, c, t) = Reference(other, c, t)
  BY DEF ClauseActive
<1>1. ASSUME NEW n \in Nat, n <= t
      PROVE  Window(days, c.instrument, n, t) = Window(other, c.instrument, n, t)
  <2>1. \A u \in (t - n + 1)..t : u \in 1..t
    BY <1>1
  <2> QED
    BY <2>1 DEF Window, Price
<1>2. Price(days, c.instrument, t) = Price(other, c.instrument, t)
  BY DEF Price
<1>3. c.lookback \in Nat /\ c.refLookback \in Nat
  BY DEF ClauseOK
<1>4. Subject(days, c, t) = Subject(other, c, t)
  <2>1. CASE c.subject = "level"
    BY <2>1, <1>2 DEF Subject
  <2>2. CASE c.subject = "sma"
    <3>1. c.lookback <= t
      BY <2>2, <1>3 DEF WarmUp
    <3>2. Window(days, c.instrument, c.lookback, t) = Window(other, c.instrument, c.lookback, t)
      BY <3>1, <1>1, <1>3
    <3> QED
      BY <2>2, <3>2 DEF Subject
  <2>3. CASE c.subject = "change"
    <3>1. c.lookback < t
      BY <2>3, <1>3 DEF WarmUp
    <3>2. t - c.lookback \in 1..t
      BY <3>1, <1>3
    <3>3. Price(days, c.instrument, t - c.lookback) = Price(other, c.instrument, t - c.lookback)
      BY <3>2 DEF Price
    <3> QED
      BY <2>3, <3>3, <1>2 DEF Subject
  <2> QED
    BY <2>1, <2>2, <2>3 DEF ClauseOK
<1>5. Reference(days, c, t) = Reference(other, c, t)
  <2>1. CASE c.reference = "constant"
    BY <2>1 DEF Reference
  <2>2. c.refLookback <= t
    BY <1>3 DEF WarmUp
  <2>3. Window(days, c.instrument, c.refLookback, t)
          = Window(other, c.instrument, c.refLookback, t)
    BY <2>2, <1>1, <1>3
  <2>4. CASE c.reference = "sma"
    BY <2>4, <2>3 DEF Reference
  <2>5. CASE c.reference = "rolling_quantile"
    BY <2>5, <2>3 DEF Reference
  <2> QED
    BY <2>1, <2>4, <2>5 DEF ClauseOK
<1> QED
  BY <1>4, <1>5
-----------------------------------------------------------------------------
(***************************************************************************)
(* What screen_cycle keeps from step to step.                              *)
(***************************************************************************)
ScreeningTypeOK ==
  /\ panel \in Seq([Instruments -> Levels])
  /\ method \in Methods
  /\ step \in {"data", "first_pass", "tests", "decided"}
  /\ next \in Nat \ {0}
  /\ tested \in Seq(DOMAIN Hypotheses)
  /\ failed \subseteq DOMAIN Hypotheses
  /\ p \in Seq(PValues)

\* The theses the first pass has come to.
Seen ==
  {i \in DOMAIN Hypotheses : step # "data" /\ (step = "first_pass" => i < next)}

\* The first pass divides what it has come to by its activity, and admits nothing twice.
FirstPassDivides ==
  /\ step = "first_pass" => next <= Len(Hypotheses) + 1
  /\ {tested[j] : j \in DOMAIN tested} = Seen \intersect Observed
  /\ failed = Seen \ Observed
  /\ \A i, j \in DOMAIN tested : tested[i] = tested[j] => i = j

\* Every thesis of the family has one test, and the correction sees them all.
TestsFollow ==
  /\ step \in {"data", "first_pass"} => p = <<>>
  /\ step = "data" => next = 1
  /\ step = "tests" => Len(p) = next - 1 /\ next <= Len(tested) + 1
  /\ step = "decided" =>
       /\ Len(p) = Len(tested)
       /\ passes = IF method = "bonferroni" THEN BonferroniPasses ELSE HochbergPasses

ScreeningInv == ScreeningTypeOK /\ FirstPassDivides /\ TestsFollow

-----------------------------------------------------------------------------
\* A thesis is active on some number of days, and is observed long enough or it is not.
LEMMA ActivityIsCounted ==
  ASSUME NEW i, NEW days, Len(days) \in Nat
  PROVE  /\ IsFiniteSet(InMarket(days, i))
         /\ Cardinality(InMarket(days, i)) \in Nat
<1>1. InMarket(days, i) \in SUBSET (2..Len(days))
  BY DEF InMarket, ReturnDays
<1> QED
  BY <1>1, FiniteInterval

LEMMA ConfigurationFacts ==
  /\ MinActive \in Nat /\ One \in Nat /\ Alpha \in Nat \ {0} /\ PValues \subseteq 0..One
  /\ Len(Hypotheses) \in Nat /\ DOMAIN Hypotheses = 1..Len(Hypotheses)
<1>1. SignalHypothesis /\ ScreeningConfig
  BY ScreeningAssumption
<1>2. Hypotheses \in Seq({Hypotheses[i] : i \in DOMAIN Hypotheses})
  BY <1>1 DEF SignalHypothesis
<1>3. Len(Hypotheses) \in Nat /\ DOMAIN Hypotheses = 1..Len(Hypotheses)
  BY <1>2
<1> QED
  BY <1>1, <1>3 DEF ScreeningConfig

LEMMA ScreeningInit_Inv == ScreeningInit => ScreeningInv
<1> SUFFICES ASSUME ScreeningInit PROVE ScreeningInv
  OBVIOUS
<1> USE DEF ScreeningInit
<1>1. ScreeningTypeOK
  BY DEF ScreeningTypeOK
<1>2. Seen = {}
  BY DEF Seen
<1>3. FirstPassDivides
  BY <1>2 DEF FirstPassDivides
<1>4. TestsFollow
  BY DEF TestsFollow
<1> QED
  BY <1>1, <1>3, <1>4 DEF ScreeningInv

\* Once read, the panel does not change, and neither does what it shows.
LEMMA PanelSettles ==
  ASSUME panel' = panel
  PROVE  Observed' = Observed /\ \A i : ActiveDays(i)' = ActiveDays(i)
BY DEF Observed, ActiveDays

LEMMA ScreeningTypeStep == ScreeningTypeOK /\ [ScreeningNext]_screeningVars => ScreeningTypeOK'
<1> SUFFICES ASSUME ScreeningTypeOK, [ScreeningNext]_screeningVars PROVE ScreeningTypeOK'
  OBVIOUS
<1> USE ConfigurationFacts DEF ScreeningTypeOK
<1>0. CASE UNCHANGED screeningVars
  BY <1>0 DEF screeningVars
<1>1. CASE Observe
  BY <1>1 DEF Observe
<1>2. CASE ScreenCycle
  BY <1>2 DEF ScreenCycle
<1>3. CASE RefuseUnderObserved
  BY <1>3 DEF RefuseUnderObserved
<1>4. CASE AdmitToFamily
  BY <1>4 DEF AdmitToFamily
<1>5. CASE StartTests
  BY <1>5 DEF StartTests
<1>6. CASE Test
  BY <1>6 DEF Test
<1>7. CASE Decide
  BY <1>7 DEF Decide
<1> QED
  BY <1>0, <1>1, <1>2, <1>3, <1>4, <1>5, <1>6, <1>7 DEF ScreeningNext

LEMMA ScreeningStep == ScreeningInv /\ [ScreeningNext]_screeningVars => ScreeningInv'
<1> SUFFICES ASSUME ScreeningInv, [ScreeningNext]_screeningVars
             PROVE  FirstPassDivides' /\ TestsFollow'
  BY ScreeningTypeStep DEF ScreeningInv
<1>t. ScreeningTypeOK /\ FirstPassDivides /\ TestsFollow /\ ScreeningTypeOK'
  BY ScreeningTypeStep DEF ScreeningInv
<1>c. Len(Hypotheses) \in Nat /\ DOMAIN Hypotheses = 1..Len(Hypotheses) /\ next \in Nat \ {0}
        /\ MinActive \in Nat
  BY <1>t, ConfigurationFacts DEF ScreeningTypeOK
<1>l. Len(tested) \in Nat /\ DOMAIN tested = 1..Len(tested) /\ Len(p) \in Nat
  BY <1>t DEF ScreeningTypeOK
<1>0. CASE UNCHANGED screeningVars
  <2>1. Observed' = Observed /\ Seen' = Seen
    BY <1>0, PanelSettles DEF screeningVars, Seen
  <2>2. BonferroniPasses' = BonferroniPasses /\ HochbergPasses' = HochbergPasses
    BY <1>0 DEF screeningVars, BonferroniPasses, HochbergPasses, Clearing, KthSmallest, Family
  <2> QED
    BY <1>0, <1>t, <2>1, <2>2 DEF screeningVars, FirstPassDivides, TestsFollow
<1>1. CASE Observe
  <2>1. Seen = {} /\ Seen' = {}
    BY <1>1 DEF Observe, Seen
  <2> QED
    BY <1>1, <1>t, <2>1 DEF Observe, FirstPassDivides, TestsFollow
<1>2. CASE ScreenCycle
  <2>1. Seen = {} /\ Seen' = {}
    BY <1>2, <1>t, <1>c DEF ScreenCycle, Seen, TestsFollow
  <2> QED
    BY <1>2, <1>t, <1>c, <2>1 DEF ScreenCycle, FirstPassDivides, TestsFollow
<1>3. CASE RefuseUnderObserved
  <2>1. next \in DOMAIN Hypotheses /\ Observed' = Observed /\ Seen' = Seen \union {next}
    BY <1>3, <1>c, PanelSettles DEF RefuseUnderObserved, Seen
  <2>2. Cardinality(InMarket(panel, Hypotheses[next].condition)) \in Nat
    BY <1>t, ActivityIsCounted DEF ScreeningTypeOK
  <2>3. next \notin Observed
    BY <1>3, <1>c, <2>2 DEF RefuseUnderObserved, Observed, ActiveDays
  <2> QED
    BY <1>3, <1>t, <1>c, <2>1, <2>3 DEF RefuseUnderObserved, FirstPassDivides, TestsFollow
<1>4. CASE AdmitToFamily
  <2>1. next \in DOMAIN Hypotheses /\ Observed' = Observed /\ Seen' = Seen \union {next}
    BY <1>4, <1>c, PanelSettles DEF AdmitToFamily, Seen
  <2>2. next \in Observed
    BY <1>4, <2>1 DEF AdmitToFamily, Observed
  <2>3. next \notin {tested[j] : j \in DOMAIN tested}
    BY <1>4, <1>t, <1>c DEF AdmitToFamily, FirstPassDivides, Seen
  <2>4. /\ DOMAIN tested' = 1..(Len(tested) + 1)
        /\ \A j \in DOMAIN tested : tested'[j] = tested[j]
        /\ tested'[Len(tested) + 1] = next
    BY <1>4, <1>t, <1>l DEF AdmitToFamily, ScreeningTypeOK
  <2>5. {tested'[j] : j \in DOMAIN tested'} = {tested[j] : j \in DOMAIN tested} \union {next}
    BY <2>4, <1>l
  <2>6. \A i, j \in DOMAIN tested' : tested'[i] = tested'[j] => i = j
    <3> SUFFICES ASSUME NEW i \in DOMAIN tested', NEW j \in DOMAIN tested',
                        tested'[i] = tested'[j]
                 PROVE  i = j
      OBVIOUS
    <3>1. CASE i \in DOMAIN tested /\ j \in DOMAIN tested
      BY <3>1, <2>4, <1>t DEF FirstPassDivides
    <3>2. CASE i = Len(tested) + 1 /\ j \in DOMAIN tested
      BY <3>2, <2>4, <2>3
    <3>3. CASE i \in DOMAIN tested /\ j = Len(tested) + 1
      BY <3>3, <2>4, <2>3
    <3> QED
      BY <3>1, <3>2, <3>3, <2>4, <1>l
  <2>7. FirstPassDivides'
    BY <1>4, <1>t, <1>c, <2>1, <2>2, <2>5, <2>6 DEF AdmitToFamily, FirstPassDivides
  <2> QED
    BY <1>4, <1>t, <2>7 DEF AdmitToFamily, TestsFollow
<1>5. CASE StartTests
  <2>1. Observed' = Observed /\ Seen' = Seen
    BY <1>5, <1>t, <1>c, PanelSettles DEF StartTests, Seen
  <2> QED
    BY <1>5, <1>t, <1>l, <2>1 DEF StartTests, FirstPassDivides, TestsFollow
<1>6. CASE Test
  <2>1. Observed' = Observed /\ Seen' = Seen
    BY <1>6, PanelSettles DEF Test, Seen
  <2>2. Len(p') = Len(p) + 1
    BY <1>6, <1>t DEF Test, ScreeningTypeOK
  <2> QED
    BY <1>6, <1>t, <1>c, <1>l, <2>1, <2>2 DEF Test, FirstPassDivides, TestsFollow
<1>7. CASE Decide
  <2>1. Observed' = Observed /\ Seen' = Seen
    BY <1>7, PanelSettles DEF Decide, Seen
  <2>2. BonferroniPasses' = BonferroniPasses /\ HochbergPasses' = HochbergPasses
    BY <1>7 DEF Decide, BonferroniPasses, HochbergPasses, Clearing, KthSmallest, Family
  <2> QED
    BY <1>7, <1>t, <1>c, <1>l, <2>1, <2>2 DEF Decide, FirstPassDivides, TestsFollow
<1> QED
  BY <1>0, <1>1, <1>2, <1>3, <1>4, <1>5, <1>6, <1>7 DEF ScreeningNext

THEOREM ScreeningInvariance == ScreeningSpec => []ScreeningInv
BY ScreeningInit_Inv, ScreeningStep, PTL DEF ScreeningSpec
-----------------------------------------------------------------------------
(***************************************************************************)
(* No look-ahead and round trips.                                          *)
(***************************************************************************)

\* The shift by a day: what is appended to the panel is not looked at before the day after.
LEMMA TomorrowIsNotSeen ==
  ASSUME ScreeningTypeOK, NEW condition \in Conditions,
         NEW x \in [Instruments -> Levels], NEW y \in [Instruments -> Levels],
         NEW t \in 1..(Len(panel) + 1)
  PROVE  Exposed(Append(panel, x), condition, t) <=> Exposed(Append(panel, y), condition, t)
<1>1. panel \in Seq([Instruments -> Levels]) /\ Len(panel) \in Nat
  BY DEF ScreeningTypeOK
<1>2. \A u \in 1..Len(panel) :
        Append(panel, x)[u] = panel[u] /\ Append(panel, y)[u] = panel[u]
  BY <1>1
<1>3. \A c \in condition : ClauseOK(c)
  <2>1. SignalHypothesis
    BY ScreeningAssumption
  <2> QED
    BY <2>1 DEF SignalHypothesis, Conditions
<1>4. ASSUME NEW c \in condition, t > 1
      PROVE  ClauseActive(Append(panel, x), c, t - 1) <=> ClauseActive(Append(panel, y), c, t - 1)
  <2>1. t - 1 \in Nat \ {0}
    BY <1>1, <1>4
  <2>2. \A u \in 1..(t - 1) : Append(panel, x)[u] = Append(panel, y)[u]
    BY <1>1, <1>2
  <2> QED
    BY <1>3, <2>1, <2>2, ClauseIsCausal
<1> QED
  BY <1>4 DEF Exposed

\* Every stretch of held days begins with an entry of its own, and every entry begins one.
LEMMA StretchesHaveEntries ==
  ASSUME NEW days, Len(days) \in Nat, NEW condition
  PROVE  /\ IsFiniteSet(Stretches(days, condition))
         /\ Cardinality(Entries(days, condition)) = Cardinality(Stretches(days, condition))
<1> DEFINE held == InMarket(days, condition)
           S == Stretches(days, condition)
           E == Entries(days, condition)
           first == [r \in S |-> r[1]]
<1>1. held \subseteq 2..Len(days)
  BY DEF InMarket, ReturnDays
<1>2. \A r \in S : /\ r[1] \in Int /\ r[2] \in Int /\ r[1] <= r[2]
                   /\ r[1]..r[2] \subseteq held /\ r[1] - 1 \notin held /\ r[2] + 1 \notin held
                   /\ r = <<r[1], r[2]>>
  BY DEF Stretches, ReturnDays
<1>3. \A r \in (2..Len(days)) \X (2..Len(days)) :
        (r[1] <= r[2] /\ r[1]..r[2] \subseteq held /\ r[1] - 1 \notin held /\ r[2] + 1 \notin held)
          => r \in S
  BY DEF Stretches, ReturnDays
<1>4. E = {t \in held : t - 1 \notin held}
  BY DEF Entries
<1>5. IsFiniteSet(S)
  <2>0. IsFiniteSet(2..Len(days))
    BY FS_Interval
  <2>1. IsFiniteSet((2..Len(days)) \X (2..Len(days)))
    BY <2>0, FS_Product
  <2>2. S \in SUBSET ((2..Len(days)) \X (2..Len(days)))
    BY DEF Stretches, ReturnDays
  <2> QED
    BY <2>1, <2>2, FS_Subset
<1> HIDE DEF held, S, E
<1>6. \A r \in S : r[1] \in r[1]..r[2]
  BY <1>2
<1>7. first \in [S -> E]
  BY <1>2, <1>4, <1>6
<1>8. \A q, r \in S : first[q] = first[r] => q = r
  <2> SUFFICES ASSUME NEW q \in S, NEW r \in S, q[1] = r[1] PROVE q[2] = r[2]
    BY <1>2
  <2>1. ~(q[2] < r[2])
    <3> SUFFICES ASSUME q[2] < r[2] PROVE FALSE
      OBVIOUS
    <3>1. q[2] + 1 \in r[1]..r[2]
      BY <1>2
    <3> QED
      BY <3>1, <1>2
  <2>2. ~(r[2] < q[2])
    <3> SUFFICES ASSUME r[2] < q[2] PROVE FALSE
      OBVIOUS
    <3>1. r[2] + 1 \in q[1]..q[2]
      BY <1>2
    <3> QED
      BY <3>1, <1>2
  <2> QED
    BY <2>1, <2>2, <1>2
<1>9. ASSUME NEW t \in E PROVE \E r \in S : first[r] = t
  <2> DEFINE Ends == {n \in Nat : t <= n /\ n + 1 \notin held}
  <2>1. t \in held /\ t \in Nat /\ t >= 2 /\ t <= Len(days) /\ t - 1 \notin held
    BY <1>1, <1>4
  <2>2. Len(days) \in Ends
    BY <2>1, <1>1
  <2>3. PICK e \in Ends : \A n \in Ends : e <= n
    BY <2>2, LeastOfNat
  <2>4. e \in Nat /\ t <= e /\ e <= Len(days) /\ e + 1 \notin held
    BY <2>2, <2>3
  <2>5. \A u \in t..e : u \in held
    <3> SUFFICES ASSUME NEW u \in t..e, u \notin held PROVE FALSE
      OBVIOUS
    <3>1. u # t
      BY <2>1
    <3>2. u - 1 \in Ends
      BY <3>1, <2>1, <2>4
    <3> QED
      BY <3>2, <2>3, <2>4
  <2>6. <<t, e>> \in S
    BY <2>1, <2>4, <2>5, <1>3
  <2>7. first[<<t, e>>] = t
    BY <2>6
  <2> QED
    BY <2>6, <2>7
<1>10. Cardinality(E) = Cardinality(S)
  <2> HIDE DEF first
  <2> QED
    BY <1>5, <1>7, <1>8, <1>9, SameSize
<1> QED
  BY <1>5, <1>10 DEF S, E

\* Every stretch ends with an exit of its own on the day after, and every exit ends one.
LEMMA StretchesHaveExits ==
  ASSUME NEW days, Len(days) \in Nat, NEW condition
  PROVE  Cardinality(Exits(days, condition)) = Cardinality(Stretches(days, condition))
<1> DEFINE held == InMarket(days, condition)
           S == Stretches(days, condition)
           E == Exits(days, condition)
           after == [r \in S |-> r[2] + 1]
<1>1. held \subseteq 2..Len(days)
  BY DEF InMarket, ReturnDays
<1>2. \A r \in S : /\ r[1] \in 2..Len(days) /\ r[2] \in 2..Len(days) /\ r[1] <= r[2]
                   /\ r[1]..r[2] \subseteq held /\ r[1] - 1 \notin held /\ r[2] + 1 \notin held
                   /\ r = <<r[1], r[2]>>
  BY DEF Stretches, ReturnDays
<1>3. \A r \in (2..Len(days)) \X (2..Len(days)) :
        (r[1] <= r[2] /\ r[1]..r[2] \subseteq held /\ r[1] - 1 \notin held /\ r[2] + 1 \notin held)
          => r \in S
  BY DEF Stretches, ReturnDays
<1>4. E = {t \in 3..(Len(days) + 1) : t \notin held /\ t - 1 \in held}
  BY DEF Exits
<1>5. IsFiniteSet(S)
  BY StretchesHaveEntries
<1> HIDE DEF held, S, E
<1>6. \A r \in S : r[2] \in r[1]..r[2]
  BY <1>2
<1>7. after \in [S -> E]
  <2> SUFFICES ASSUME NEW r \in S PROVE r[2] + 1 \in E
    OBVIOUS
  <2>1. r[2] \in held /\ r[2] + 1 \notin held /\ r[2] \in 2..Len(days)
    BY <1>2, <1>6
  <2>2. r[2] + 1 \in 3..(Len(days) + 1) /\ (r[2] + 1) - 1 = r[2]
    BY <2>1
  <2> QED
    BY <2>1, <2>2, <1>4
<1>8. \A q, r \in S : after[q] = after[r] => q = r
  <2> SUFFICES ASSUME NEW q \in S, NEW r \in S, q[2] = r[2] PROVE q[1] = r[1]
    BY <1>2
  <2>1. ~(q[1] < r[1])
    <3> SUFFICES ASSUME q[1] < r[1] PROVE FALSE
      OBVIOUS
    <3>1. r[1] - 1 \in q[1]..q[2]
      BY <1>2
    <3> QED
      BY <3>1, <1>2
  <2>2. ~(r[1] < q[1])
    <3> SUFFICES ASSUME r[1] < q[1] PROVE FALSE
      OBVIOUS
    <3>1. q[1] - 1 \in r[1]..r[2]
      BY <1>2
    <3> QED
      BY <3>1, <1>2
  <2> QED
    BY <2>1, <2>2, <1>2
<1>9. ASSUME NEW t \in E PROVE \E r \in S : after[r] = t
  <2>1. /\ t \in Nat /\ 3 <= t /\ t <= Len(days) + 1
        /\ t - 1 \in held /\ t \notin held /\ t - 1 >= 2 /\ t - 1 <= Len(days)
    BY <1>4
  <2> DEFINE Starts == {n \in 0..(t - 1) : n - 1 \notin held}
  <2>2. 2 \in Starts
    BY <2>1, <1>1
  <2>3. PICK s \in Starts : \A n \in Starts : s >= n
    <3>1. Starts # {}
      BY <2>2
    <3>0. t - 1 \in Nat
      BY <2>1
    <3>2. Starts \in SUBSET (0..(t - 1))
      OBVIOUS
    <3> HIDE DEF Starts
    <3> QED
      BY <3>0, <3>1, <3>2, GreatestUpTo
  <2>4. s \in Nat /\ 2 <= s /\ s <= t - 1 /\ s - 1 \notin held
    BY <2>2, <2>3
  <2>5. \A u \in s..(t - 1) : u \in held
    <3> SUFFICES ASSUME NEW u \in s..(t - 1), u \notin held PROVE FALSE
      OBVIOUS
    <3>1. u # t - 1
      BY <2>1
    <3>2. u + 1 \in Starts
      BY <3>1, <2>1, <2>4
    <3> QED
      BY <3>2, <2>3, <2>4
  <2>6. <<s, t - 1>> \in S
    <3>1. (t - 1) + 1 = t
      BY <2>1
    <3> QED
      BY <2>1, <2>4, <2>5, <3>1, <1>3
  <2>7. after[<<s, t - 1>>] = t
    BY <2>1, <2>6
  <2> QED
    BY <2>6, <2>7
<1>10. Cardinality(E) = Cardinality(S)
  <2> HIDE DEF after
  <2> QED
    BY <1>5, <1>7, <1>8, <1>9, SameSize
<1> QED
  BY <1>10 DEF S, E

\* Two transactions a stretch, on every leg.
LEMMA TradedPerStretch ==
  ASSUME NEW days, Len(days) \in Nat, NEW h, Len(h.instruments) \in Nat
  PROVE  /\ Legs(h) \in Nat
         /\ TradedNotional(days, h) = 2 * Legs(h) * Cardinality(Stretches(days, h.condition))
<1> DEFINE s == Cardinality(Stretches(days, h.condition))
           l == Legs(h)
<1>1. l \in Nat
  BY DEF Legs
<1>2. s \in Nat
  BY StretchesHaveEntries, FS_CardinalityType
<1>3. TradedNotional(days, h) = (s + s) * l
  BY StretchesHaveEntries, StretchesHaveExits DEF TradedNotional
<1> HIDE DEF s, l
<1>4. (s + s) * l = 2 * l * s
  BY <1>1, <1>2
<1> QED
  BY <1>1, <1>3, <1>4 DEF s, l

\* Without a condition there is one stretch, from the first day that has a return.
LEMMA UnconditionalIsOneStretch ==
  ASSUME NEW days, Len(days) \in Nat, Len(days) > 1
  PROVE  Cardinality(Stretches(days, NoCondition)) = 1
<1>1. InMarket(days, NoCondition) = 2..Len(days)
  BY DEF InMarket, ReturnDays, Exposed
<1>2. Entries(days, NoCondition) = {2}
  BY <1>1 DEF Entries
<1>3. Cardinality(Entries(days, NoCondition)) = 1
  BY <1>2, FS_Singleton
<1> QED
  BY <1>3, StretchesHaveEntries

LEMMA RoundTripsHold == ScreeningTypeOK => RoundTrips
<1> SUFFICES ASSUME ScreeningTypeOK, NEW i \in DOMAIN Hypotheses
             PROVE  LET h == Hypotheses[i]
                        n == Cardinality(Stretches(panel, h.condition))
                    IN /\ TradedNotional(panel, h) = 2 * Legs(h) * n
                       /\ h.condition = NoCondition /\ Len(panel) > 1 =>
                            TradedNotional(panel, h) = 2 * Legs(h)
  BY DEF RoundTrips
<1> DEFINE h == Hypotheses[i]
<1>1. Len(panel) \in Nat
  BY DEF ScreeningTypeOK
<1>2. Len(h.instruments) \in Nat
  <2>1. SignalHypothesis
    BY ScreeningAssumption
  <2>2. h.instruments \in Seq(Instruments)
    BY <2>1 DEF SignalHypothesis
  <2> QED
    BY <2>2
<1> HIDE DEF h
<1>3. Legs(h) \in Nat
        /\ TradedNotional(panel, h) = 2 * Legs(h) * Cardinality(Stretches(panel, h.condition))
  BY <1>1, <1>2, TradedPerStretch
<1>4. ASSUME h.condition = NoCondition, Len(panel) > 1
      PROVE  TradedNotional(panel, h) = 2 * Legs(h)
  <2>1. Cardinality(Stretches(panel, h.condition)) = 1
    BY <1>1, <1>4, UnconditionalIsOneStretch
  <2> QED
    BY <1>3, <2>1
<1> QED
  BY <1>3, <1>4 DEF h

\* A close never decides an exposure before the next day's (evaluate_condition's shift), for
\* every condition the settings allow and a panel of any length.
THEOREM NoLookaheadHolds == ScreeningSpec => []NoLookahead
<1>1. ScreeningInv => NoLookahead
  BY TomorrowIsNotSeen DEF ScreeningInv, NoLookahead
<1> QED
  BY <1>1, ScreeningInvariance, PTL

\* Costs are charged for one entry and one exit a leg for each stretch a position is held.
THEOREM RoundTripsCharged == ScreeningSpec => []RoundTrips
<1>1. ScreeningInv => RoundTrips
  BY RoundTripsHold DEF ScreeningInv
<1> QED
  BY <1>1, ScreeningInvariance, PTL
-----------------------------------------------------------------------------
(***************************************************************************)
(* The family correction (screening/multiplicity.py).                      *)
(***************************************************************************)

\* A product grows with its factor.
LEMMA ProductGrows ==
  ASSUME NEW a \in Int, NEW b \in Int, NEW c \in Nat, a <= b
  PROVE  a * c <= b * c /\ c * a <= c * b
OBVIOUS

\* When the tests are done, the j-th p-value is the j-th admitted thesis's.
TestsDone ==
  /\ p \in Seq(PValues) /\ tested \in Seq(DOMAIN Hypotheses) /\ Len(p) = Len(tested)
  /\ {tested[j] : j \in DOMAIN tested} = Observed
  /\ \A i, j \in DOMAIN tested : tested[i] = tested[j] => i = j

LEMMA FamilyFacts ==
  ASSUME TestsDone
  PROVE  /\ Len(p) \in Nat /\ Family = 1..Len(p) /\ DOMAIN tested = Family
         /\ IsFiniteSet(Family) /\ Cardinality(Family) = Len(p)
         /\ \A i \in Family : p[i] \in 0..One /\ tested[i] \in Observed
         /\ \A i \in Family : PValue(tested[i]) = p[i]
         /\ Cardinality(Observed) = Len(p)
<1>1. Len(p) \in Nat /\ Family = 1..Len(p) /\ DOMAIN tested = Family
  BY DEF TestsDone, Family
<1>2. IsFiniteSet(Family) /\ Cardinality(Family) = Len(p)
  <2>1. IsFiniteSet(1..Len(p)) /\ Cardinality(1..Len(p)) = IF 1 > Len(p) THEN 0 ELSE Len(p) - 1 + 1
    BY <1>1, FS_Interval
  <2> QED
    BY <1>1, <2>1
<1>3. \A i \in Family : p[i] \in 0..One /\ tested[i] \in Observed
  <2> SUFFICES ASSUME NEW i \in Family PROVE p[i] \in 0..One /\ tested[i] \in Observed
    OBVIOUS
  <2>1. p[i] \in PValues
    BY DEF TestsDone, Family
  <2>2. tested[i] \in Observed
    BY <1>1 DEF TestsDone
  <2> QED
    BY <2>1, <2>2, ConfigurationFacts
<1>4. ASSUME NEW i \in Family PROVE PValue(tested[i]) = p[i]
  <2>1. (CHOOSE j \in Family : tested[j] = tested[i]) = i
    BY <1>1, <1>4 DEF TestsDone
  <2> QED
    BY <2>1 DEF PValue
<1>5. Cardinality(Observed) = Len(p)
  <2>1. tested \in [Family -> Observed]
    BY <1>1, <1>3 DEF TestsDone
  <2>2. \A z \in Observed : \E j \in Family : tested[j] = z
    BY <1>1 DEF TestsDone
  <2>3. \A i, j \in Family : tested[i] = tested[j] => i = j
    BY <1>1 DEF TestsDone
  <2> QED
    BY <1>2, <2>1, <2>2, <2>3, SameSize
<1> QED
  BY <1>1, <1>2, <1>3, <1>4, <1>5

\* The theses of some members of the family are as many as the members.
LEMMA AsManyTheses ==
  ASSUME TestsDone, NEW D \in SUBSET Family
  PROVE  /\ Cardinality({tested[i] : i \in D}) = Cardinality(D)
         /\ IsFiniteSet(D) /\ Cardinality(D) \in Nat /\ Cardinality(D) <= Len(p)
<1>1. IsFiniteSet(D) /\ Cardinality(D) \in Nat /\ Cardinality(D) <= Len(p)
  BY FamilyFacts, FS_Subset, FS_CardinalityType
<1> DEFINE R == {tested[i] : i \in D}
           thesisOf == [i \in D |-> tested[i]]
<1>2. thesisOf \in [D -> R] /\ \A z \in R : \E i \in D : thesisOf[i] = z
  OBVIOUS
<1>3. \A i, j \in D : thesisOf[i] = thesisOf[j] => i = j
  BY FamilyFacts DEF TestsDone
<1> HIDE DEF R, thesisOf
<1>4. Cardinality(R) = Cardinality(D)
  BY <1>1, <1>2, <1>3, SameSize
<1> QED
  BY <1>1, <1>4 DEF R

\* p-values at most v, and below v.
AtMost(v) == {i \in Family : p[i] <= v}
Below(v) == {i \in Family : p[i] < v}

\* The k-th smallest p-value of the family is one of its p-values, with fewer than k below it
\* and at least k up to it.
LEMMA KthSmallestFacts ==
  ASSUME TestsDone, NEW k \in Family
  PROVE  /\ KthSmallest(k) \in 0..One
         /\ Cardinality(Below(KthSmallest(k))) < k
         /\ k <= Cardinality(AtMost(KthSmallest(k)))
<1> DEFINE Values == {p[i] : i \in Family}
           Reached == {v \in Values : k <= Cardinality(AtMost(v))}
<1>1. Values \in SUBSET (0..One) /\ Values # {} /\ One \in Nat /\ k \in Nat \ {0}
  <2>1. Values # {} /\ One \in Nat /\ k \in Nat \ {0}
    BY FamilyFacts, ConfigurationFacts
  <2>2. Values \in SUBSET (0..One)
    BY FamilyFacts
  <2> QED
    BY <2>1, <2>2
<1>2. \A i \in Family : p[i] \in Values
  OBVIOUS
<1>3. \A v \in Values : \E i \in Family : v = p[i]
  OBVIOUS
<1>n. \A D \in SUBSET Family : IsFiniteSet(D) /\ Cardinality(D) \in Nat
  BY AsManyTheses
<1>r. \A v : AtMost(v) \in SUBSET Family /\ Below(v) \in SUBSET Family
  BY DEF AtMost, Below
<1> HIDE DEF Values
<1>4. PICK top \in Values : \A v \in Values : top >= v
  BY <1>1, GreatestUpTo
<1>5. AtMost(top) = Family
  BY <1>2, <1>4 DEF AtMost
<1>6. top \in Reached
  BY <1>5, FamilyFacts
<1>7. PICK w \in Reached : \A v \in Reached : w <= v
  <2>1. Reached # {}
    BY <1>6
  <2>2. \A v \in Values : v \in Nat
    BY <1>1
  <2>3. Reached \in SUBSET Nat
    BY <2>2
  <2> HIDE DEF Reached
  <2> QED
    BY <2>1, <2>3, LeastOfNat
<1>8. Cardinality(Below(w)) < k
  <2> SUFFICES ASSUME ~(Cardinality(Below(w)) < k) PROVE FALSE
    OBVIOUS
  <2>1. k <= Cardinality(Below(w))
    BY <1>1, <1>n, <1>r
  <2>2. Below(w) # {}
    BY <2>1, <1>1, FS_EmptySet
  <2> DEFINE Lower == {v \in Values : v < w}
  <2>3. Lower \in SUBSET (0..One) /\ Lower # {}
    BY <1>1, <1>2, <2>2 DEF Below
  <2>4. PICK u \in Lower : \A v \in Lower : u >= v
    <3> HIDE DEF Lower
    <3> QED
      BY <1>1, <2>3, GreatestUpTo
  <2>5. AtMost(u) = Below(w)
    <3>1. u \in Int /\ w \in Int /\ u < w /\ \A i \in Family : p[i] \in Int
      BY <1>1, <2>4, <1>7, FamilyFacts
    <3>2. \A i \in Family : p[i] <= u <=> p[i] < w
      BY <3>1, <1>2, <2>4
    <3> QED
      BY <3>2 DEF AtMost, Below
  <2>6. u \in Reached
    BY <2>1, <2>4, <2>5
  <2> QED
    BY <2>4, <2>6, <1>7, <1>1
<1>9. w \in Values /\ Cardinality(Below(w)) < k /\ k <= Cardinality(AtMost(w))
  BY <1>7, <1>8
<1>10. /\ KthSmallest(k) \in Values
       /\ Cardinality(Below(KthSmallest(k))) < k
       /\ k <= Cardinality(AtMost(KthSmallest(k)))
  BY <1>9 DEF KthSmallest, Values, AtMost, Below
<1> QED
  BY <1>1, <1>10

\* The largest rank that clears, when one does.
LEMMA LargestRank ==
  ASSUME TestsDone, Clearing # {}
  PROVE  Max(Clearing) \in Clearing /\ \A k \in Clearing : k <= Max(Clearing)
<1>1. Clearing \in SUBSET (0..Len(p)) /\ Len(p) \in Nat
  BY FamilyFacts DEF Clearing
<1>2. \E x \in Clearing : \A y \in Clearing : x >= y
  BY <1>1, GreatestUpTo
<1>3. Max(Clearing) \in Clearing /\ \A y \in Clearing : Max(Clearing) >= y
  BY <1>2 DEF Max
<1> QED
  BY <1>1, <1>3

\* Members of the family within alpha times a share of it.
Within(k) == {i \in Family : p[i] * Len(p) <= Alpha * k}

\* As many members are within the share of a rank that clears as the rank says.
LEMMA ClearingIsFilled ==
  ASSUME TestsDone, NEW k \in Clearing
  PROVE  k <= Cardinality(Within(k))
<1>1. k \in Family /\ KthSmallest(k) * Len(p) <= Alpha * k
  BY DEF Clearing
<1>2. KthSmallest(k) \in 0..One /\ k <= Cardinality(AtMost(KthSmallest(k)))
  BY <1>1, KthSmallestFacts
<1> DEFINE v == KthSmallest(k)
<1>3. AtMost(v) \subseteq Within(k)
  <2> SUFFICES ASSUME NEW i \in Family, p[i] <= v PROVE p[i] * Len(p) <= Alpha * k
    BY DEF AtMost, Within
  <2>1. p[i] \in Int /\ v \in Int /\ Len(p) \in Nat /\ Alpha \in Int /\ k \in Int
    BY <1>1, <1>2, FamilyFacts, ConfigurationFacts
  <2>2. p[i] * Len(p) <= v * Len(p)
    BY <2>1, ProductGrows
  <2>3. p[i] * Len(p) \in Int /\ v * Len(p) \in Int /\ Alpha * k \in Int
    BY <2>1
  <2> QED
    BY <1>1, <2>2, <2>3
<1>4. Within(k) \in SUBSET Family
  BY DEF Within
<1>5. IsFiniteSet(Within(k)) /\ Cardinality(Within(k)) \in Nat
  BY <1>4, AsManyTheses
<1>6. Cardinality(AtMost(v)) <= Cardinality(Within(k)) /\ Cardinality(AtMost(v)) \in Nat
  BY <1>3, <1>5, FS_Subset, FS_CardinalityType
<1> QED
  BY <1>1, <1>2, <1>5, <1>6, FamilyFacts

\* Members that are all within the share of a rank make the rank of their number clear.
LEMMA DiscoveryClears ==
  ASSUME TestsDone, NEW D \in SUBSET Family, D # {}, D \subseteq Within(Cardinality(D))
  PROVE  Cardinality(D) \in Clearing
<1> DEFINE r == Cardinality(D)
           w == KthSmallest(r)
<1>1. IsFiniteSet(D) /\ r \in Nat /\ r <= Len(p) /\ r # 0
  BY AsManyTheses, FS_EmptySet
<1>2. r \in Family
  BY <1>1, FamilyFacts
<1>3. w \in 0..One /\ Cardinality(Below(w)) < r
  BY <1>2, KthSmallestFacts
<1> HIDE DEF r
<1>4. PICK i \in D : ~(p[i] < w)
  <2>1. Below(w) \in SUBSET Family
    BY DEF Below
  <2>2. IsFiniteSet(Below(w)) /\ Cardinality(Below(w)) \in Nat
    BY <2>1, AsManyTheses
  <2>3. ~(D \subseteq Below(w))
    BY <1>1, <1>3, <2>2, FS_Subset DEF r
  <2> QED
    BY <2>3 DEF Below
<1>5. p[i] * Len(p) <= Alpha * r
  BY DEF Within, r
<1> HIDE DEF w
<1>6. p[i] \in Int /\ w \in Int /\ Len(p) \in Nat /\ Alpha \in Int /\ r \in Int
  BY <1>1, <1>3, FamilyFacts, ConfigurationFacts
<1>7. w * Len(p) <= p[i] * Len(p)
  BY <1>4, <1>6, ProductGrows
<1>8. p[i] * Len(p) \in Int /\ w * Len(p) \in Int /\ Alpha * r \in Int
  BY <1>6
<1>9. w * Len(p) <= Alpha * r
  BY <1>5, <1>7, <1>8
<1> QED
  BY <1>2, <1>9 DEF Clearing, w, r

\* What Hochberg's rule passes are the members within the share of the largest rank, and
\* these are, with every other discovery, in one.
LEMMA HochbergIsLargest ==
  ASSUME TestsDone
  PROVE  HochbergPasses = UNION Discoveries
<1>f. /\ Len(p) \in Nat /\ DOMAIN tested = Family /\ Cardinality(Observed) = Len(p)
      /\ \A i \in Family : tested[i] \in Observed /\ PValue(tested[i]) = p[i] /\ p[i] \in Int
      /\ \A z \in Observed : \E i \in Family : z = tested[i]
      /\ Alpha \in Nat
  BY FamilyFacts, ConfigurationFacts DEF TestsDone
<1>1. ASSUME NEW z \in HochbergPasses PROVE z \in UNION Discoveries
  <2> DEFINE K == Max(Clearing)
             R == {tested[i] : i \in Within(K)}
  <2>1. Clearing # {} /\ z \in R
    BY <1>1 DEF HochbergPasses, Within
  <2>2. K \in Clearing /\ K \in Nat /\ K <= Cardinality(Within(K))
    BY <2>1, LargestRank, ClearingIsFilled, FamilyFacts DEF Clearing
  <2>3. Within(K) \in SUBSET Family
    BY DEF Within
  <2>4. Cardinality(R) = Cardinality(Within(K)) /\ Cardinality(R) \in Nat
    BY <2>3, AsManyTheses
  <2>5. R \in SUBSET Observed
    BY <1>f, <2>3
  <2>6. \A y \in R : PValue(y) * Cardinality(Observed) <= Alpha * Cardinality(R)
    <3> SUFFICES ASSUME NEW i \in Within(K)
                 PROVE  p[i] * Len(p) <= Alpha * Cardinality(R)
      BY <1>f, <2>3
    <3>1. p[i] * Len(p) <= Alpha * K /\ p[i] \in Int
      BY <1>f DEF Within
    <3> HIDE DEF K, R
    <3>2. K <= Cardinality(R) /\ Alpha * K <= Alpha * Cardinality(R)
      BY <1>f, <2>2, <2>4, ProductGrows
    <3>3. p[i] * Len(p) \in Int /\ Alpha * K \in Int /\ Alpha * Cardinality(R) \in Int
      BY <1>f, <2>2, <2>4, <3>1
    <3> QED
      BY <3>1, <3>2, <3>3
  <2>7. R \in Discoveries
    BY <2>5, <2>6 DEF Discoveries
  <2> QED
    BY <2>1, <2>7
<1>2. ASSUME NEW R \in Discoveries, NEW z \in R PROVE z \in HochbergPasses
  <2> DEFINE D == {i \in Family : tested[i] \in R}
  <2>1. R \in SUBSET Observed
          /\ \A y \in R : PValue(y) * Cardinality(Observed) <= Alpha * Cardinality(R)
    BY <1>2 DEF Discoveries
  <2>2. R = {tested[i] : i \in D} /\ D \in SUBSET Family
    BY <1>f, <2>1
  <2>3. PICK i \in D : z = tested[i]
    BY <1>2, <2>2
  <2> HIDE DEF D
  <2>4. Cardinality(R) = Cardinality(D) /\ Cardinality(D) \in Nat
    BY <2>2, AsManyTheses
  <2>5. D \subseteq Within(Cardinality(D))
    <3> SUFFICES ASSUME NEW j \in D PROVE j \in Family /\ p[j] * Len(p) <= Alpha * Cardinality(D)
      BY DEF Within
    <3>1. j \in Family /\ tested[j] \in R
      BY <2>2
    <3> QED
      BY <1>f, <2>1, <2>4, <3>1
  <2>6. Cardinality(D) \in Clearing
    BY <2>2, <2>3, <2>5, DiscoveryClears
  <2> DEFINE K == Max(Clearing)
  <2>7. Cardinality(D) <= K /\ K \in Nat
    BY <2>6, LargestRank, FamilyFacts DEF Clearing
  <2>8. p[i] * Len(p) <= Alpha * Cardinality(D) /\ i \in Family /\ p[i] \in Int
    BY <1>f, <2>2, <2>3, <2>5 DEF Within
  <2> HIDE DEF K
  <2>9. Alpha * Cardinality(D) <= Alpha * K
    BY <1>f, <2>4, <2>7, ProductGrows
  <2>10. p[i] * Len(p) <= Alpha * K
    <3>1. p[i] * Len(p) \in Int /\ Alpha * Cardinality(D) \in Int /\ Alpha * K \in Int
      BY <1>f, <2>4, <2>7, <2>8
    <3> QED
      BY <2>8, <2>9, <3>1
  <2> QED
    BY <2>3, <2>6, <2>8, <2>10 DEF HochbergPasses, K
<1> QED
  BY <1>1, <1>2

\* What Bonferroni's rule passes is a discovery of its own.
LEMMA BonferroniIsDiscovery ==
  ASSUME TestsDone
  PROVE  BonferroniPasses \in Discoveries
<1> DEFINE D == {i \in Family : p[i] * Len(p) <= Alpha}
<1>1. BonferroniPasses = {tested[i] : i \in D} /\ D \in SUBSET Family
  BY DEF BonferroniPasses
<1>f. /\ Len(p) \in Nat /\ Cardinality(Observed) = Len(p) /\ Alpha \in Nat
      /\ \A i \in Family : tested[i] \in Observed /\ PValue(tested[i]) = p[i] /\ p[i] \in Int
  BY FamilyFacts, ConfigurationFacts
<1>2. Cardinality(BonferroniPasses) = Cardinality(D) /\ Cardinality(D) \in Nat /\ IsFiniteSet(D)
  BY <1>1, AsManyTheses
<1>3. ASSUME NEW i \in D PROVE p[i] * Len(p) <= Alpha * Cardinality(D)
  <2>1. p[i] * Len(p) <= Alpha /\ i \in Family
    OBVIOUS
  <2>2. Cardinality(D) # 0
    BY <1>2, <1>3, FS_EmptySet
  <2> HIDE DEF D
  <2>3. Alpha * 1 <= Alpha * Cardinality(D) /\ Alpha * 1 = Alpha
    BY <1>f, <1>2, <2>2, ProductGrows
  <2>4. p[i] * Len(p) \in Int /\ Alpha * Cardinality(D) \in Int
    BY <1>f, <1>2, <2>1
  <2> QED
    BY <1>f, <2>1, <2>3, <2>4
<1> HIDE DEF D
<1>4. BonferroniPasses \in SUBSET Observed
  BY <1>1, <1>f
<1>5. \A z \in BonferroniPasses :
        PValue(z) * Cardinality(Observed) <= Alpha * Cardinality(BonferroniPasses)
  BY <1>1, <1>2, <1>3, <1>f
<1> QED
  BY <1>4, <1>5 DEF Discoveries

\* The family is exactly the theses observed long enough, and Benjamini-Hochberg passes the
\* largest discovery among them, Bonferroni no more (001 FR-030, 003 FR-006), for any number
\* of theses, any p-values and any panel.
THEOREM FamilyControlled == ScreeningSpec => []FamilyControl
<1>1. ScreeningInv => FamilyControl
  <2> SUFFICES ASSUME ScreeningInv, step = "decided" PROVE FamilyControl
    BY DEF FamilyControl
  <2>1. Seen = DOMAIN Hypotheses
    BY DEF Seen
  <2>2. Observed \subseteq DOMAIN Hypotheses
    BY DEF Observed
  <2>3. TestsDone
    BY <2>1, <2>2 DEF ScreeningInv, ScreeningTypeOK, FirstPassDivides, TestsFollow, TestsDone
  <2>4. {tested[j] : j \in DOMAIN tested} = Observed /\ failed = DOMAIN Hypotheses \ Observed
    BY <2>1, <2>2 DEF ScreeningInv, FirstPassDivides
  <2>5. passes = IF method = "bonferroni" THEN BonferroniPasses ELSE HochbergPasses
    BY DEF ScreeningInv, TestsFollow
  <2> QED
    BY <2>3, <2>4, <2>5, HochbergIsLargest, BonferroniIsDiscovery DEF FamilyControl
<1> QED
  BY <1>1, ScreeningInvariance, PTL

-----------------------------------------------------------------------------
(***************************************************************************)
(* The evaluation ledger.                                                  *)
(***************************************************************************)
\* The write lock is held by whoever is in a transaction, hence by one caller.
LockIsHeld == \A c \in Callers : pc[c] \in InTransaction => lock = c

\* A call under way has arguments.
CallHasArguments ==
  \A c \in Callers :
    pc[c] \in InTransaction \union {"begin", "granted", "refused"} =>
      lineage[c] \in Lineages /\ thesis[c] \in Theses

\* An UPDATE that matched no row did so because no row was unspent.
SelectIsSpent == \A c \in Callers : pc[c] = "select" => db[lineage[c]] # Unspent

\* A caller that was granted its lineage holds it.
GrantIsHeld == \A c \in Callers : pc[c] = "granted" => db[lineage[c]] = thesis[c]

\* It is the only one that is about to read for its lineage.
GrantsApart ==
  \A c, d \in Callers :
    pc[c] = "granted" /\ pc[d] = "granted" /\ lineage[c] = lineage[d] => c = d

IInv ==
  /\ TypeOK
  /\ LockIsHeld
  /\ CallHasArguments
  /\ SelectIsSpent
  /\ TransactionSeesCurrentRow
  /\ GrantIsHeld
  /\ GrantsApart
  /\ OneGrantPerLineage
  /\ RefusalsAreTrue
  /\ ReadsAreEntitled

-----------------------------------------------------------------------------
LEMMA InitIInv == Init => IInv
<1> SUFFICES ASSUME Init PROVE IInv
  OBVIOUS
<1>1. TypeOK
  BY DEF Init, TypeOK, Clean
<1>2. /\ LockIsHeld /\ CallHasArguments /\ SelectIsSpent /\ TransactionSeesCurrentRow
      /\ GrantIsHeld /\ GrantsApart
  BY DEF Init, LockIsHeld, CallHasArguments, SelectIsSpent, TransactionSeesCurrentRow,
         GrantIsHeld, GrantsApart, InTransaction
<1>3. OneGrantPerLineage /\ RefusalsAreTrue /\ ReadsAreEntitled
  BY DEF Init, OneGrantPerLineage, RefusalsAreTrue, ReadsAreEntitled
<1> QED
  BY <1>1, <1>2, <1>3 DEF IInv

\* Types are kept by every step of any caller.
LEMMA TypeOKStep == TypeOK /\ CallHasArguments /\ Next => TypeOK'
<1> SUFFICES ASSUME TypeOK, CallHasArguments, NEW c \in Callers,
                    \/ SpendStep(c) \/ BusyTimeout(c) \/ CommitBusy(c) \/ Kill(c) \/ Restart(c)
                    \/ \E l \in Lineages : Create(c, l)
                    \/ \E l \in Lineages, t \in Theses : Call(c, l, t)
             PROVE  TypeOK'
  BY DEF Next
<1> USE DEF TypeOK, Goto, Stage, Release, Clean, call
<1>1. CASE BeginImmediate(c) \/ Update(c) \/ Select(c)
  BY <1>1 DEF BeginImmediate, Update, Select
<1>2. CASE CommitSpend(c)
  <2>1. lineage[c] \in Lineages /\ thesis[c] \in Theses
    BY <1>2 DEF CommitSpend, CallHasArguments, InTransaction
  <2> QED
    BY <1>2, <2>1 DEF CommitSpend
<1>3. CASE CommitRefusal(c)
  <2>1. lineage[c] \in Lineages /\ thesis[c] \in Theses
    BY <1>3 DEF CommitRefusal, CallHasArguments, InTransaction
  <2> QED
    BY <1>3, <2>1 DEF CommitRefusal
<1>4. CASE ReadFinal(c)
  <2>1. lineage[c] \in Lineages /\ thesis[c] \in Theses
    BY <1>4 DEF ReadFinal, CallHasArguments
  <2> QED
    BY <1>4, <2>1 DEF ReadFinal
<1>5. CASE Return(c) \/ BusyTimeout(c) \/ CommitBusy(c) \/ Kill(c) \/ Restart(c)
  BY <1>5 DEF Return, BusyTimeout, CommitBusy, Kill, Restart
<1>6. ASSUME NEW l \in Lineages, Create(c, l) PROVE TypeOK'
  BY <1>6 DEF Create
<1>7. ASSUME NEW l \in Lineages, NEW t \in Theses, Call(c, l, t) PROVE TypeOK'
  BY <1>7 DEF Call
<1> QED
  BY <1>1, <1>2, <1>3, <1>4, <1>5, <1>6, <1>7 DEF SpendStep

\* A step of any caller, one case per statement.
LEMMA NextIInv == IInv /\ [Next]_vars => IInv'
<1> SUFFICES ASSUME IInv, [Next]_vars PROVE IInv'
  OBVIOUS
<1>0. CASE UNCHANGED vars
  BY <1>0 DEF IInv, TypeOK, LockIsHeld, CallHasArguments, SelectIsSpent,
              TransactionSeesCurrentRow, GrantIsHeld, GrantsApart, OneGrantPerLineage,
              RefusalsAreTrue, ReadsAreEntitled, vars, call, InTransaction
<1>1. CASE Next
  <2>0. TypeOK'
    BY <1>1, TypeOKStep DEF IInv
  <2> SUFFICES ASSUME NEW c \in Callers,
                    \/ SpendStep(c) \/ BusyTimeout(c) \/ CommitBusy(c) \/ Kill(c) \/ Restart(c)
                    \/ \E l \in Lineages : Create(c, l)
                    \/ \E l \in Lineages, t \in Theses : Call(c, l, t)
               PROVE IInv'
    BY <1>1 DEF Next
  <2> USE LedgerAssumption
      DEF IInv, TypeOK, LockIsHeld, CallHasArguments, SelectIsSpent,
          TransactionSeesCurrentRow, GrantIsHeld, GrantsApart, OneGrantPerLineage,
          RefusalsAreTrue, ReadsAreEntitled, InTransaction, Goto, Stage, Release, Clean, call
  <2>1. CASE BeginImmediate(c)
    BY <2>0, <2>1 DEF BeginImmediate
  <2>2. CASE Update(c)
    BY <2>0, <2>2 DEF Update
  <2>3. CASE Select(c)
    BY <2>0, <2>3 DEF Select
  <2>4. CASE CommitSpend(c)
    BY <2>0, <2>4 DEF CommitSpend
  <2>5. CASE CommitRefusal(c)
    BY <2>0, <2>5 DEF CommitRefusal
  <2>6. CASE ReadFinal(c)
    BY <2>0, <2>6 DEF ReadFinal
  <2>7. CASE Return(c) \/ Restart(c)
    BY <2>0, <2>7 DEF Return, Restart
  <2>8. CASE BusyTimeout(c) \/ CommitBusy(c) \/ Kill(c)
    BY <2>0, <2>8 DEF BusyTimeout, CommitBusy, Kill
  <2>9. ASSUME NEW l \in Lineages, Create(c, l) PROVE IInv'
    BY <2>0, <2>9 DEF Create
  <2>10. ASSUME NEW l \in Lineages, NEW t \in Theses, Call(c, l, t) PROVE IInv'
    BY <2>0, <2>10 DEF Call
  <2> QED
    BY <2>1, <2>2, <2>3, <2>4, <2>5, <2>6, <2>7, <2>8, <2>9, <2>10 DEF SpendStep
<1> QED
  BY <1>0, <1>1

-----------------------------------------------------------------------------
\* The strengthened invariant holds in every reachable state.
THEOREM Invariance == Spec => []IInv
BY InitIInv, NextIInv, PTL DEF Spec

\* Type correctness of the ledger's tables and of the callers' control.
THEOREM TypeCorrect == Spec => []TypeOK
<1>1. IInv => TypeOK
  BY DEF IInv
<1> QED
  BY <1>1, Invariance, PTL

\* At most one call per lineage is ever granted, and the row names its thesis
\* (EvaluationLedger.spend), for any number of concurrent callers.
THEOREM SpentOnce == Spec => []OneGrantPerLineage
<1>1. IInv => OneGrantPerLineage
  BY DEF IInv
<1> QED
  BY <1>1, Invariance, PTL

\* What a transaction read is still so when it commits (BEGIN IMMEDIATE).
THEOREM TransactionsAreCurrent == Spec => []TransactionSeesCurrentRow
<1>1. IInv => TransactionSeesCurrentRow
  BY DEF IInv
<1> QED
  BY <1>1, Invariance, PTL

\* A refusal, recorded or returned, is always a true one.
THEOREM RefusedTruly == Spec => []RefusalsAreTrue
<1>1. IInv => RefusalsAreTrue
  BY DEF IInv
<1> QED
  BY <1>1, Invariance, PTL

\* The final-evaluation split is read by entitled theses only, and for each of them once
\* (BacktestingService.run_final_evaluation).
THEOREM ReadsEntitled == Spec => []ReadsAreEntitled
<1>1. IInv => ReadsAreEntitled
  BY DEF IInv
<1> QED
  BY <1>1, Invariance, PTL

-----------------------------------------------------------------------------
(***************************************************************************)
(* Refinement.  COMMIT is where a spend takes effect, and the read of the  *)
(* final split is one; every other statement stutters.                     *)
(***************************************************************************)
LEMMA InitRefines == Init => Abstract!Init
BY DEF Init, Abstract!Init

LEMMA NextRefines == IInv /\ [Next]_vars => [Abstract!Next]_(Abstract!vars)
<1> SUFFICES ASSUME IInv, [Next]_vars
             PROVE  Abstract!Next \/ UNCHANGED <<db, readers>>
  BY DEF Abstract!vars
<1> USE DEF IInv, TypeOK, InTransaction
<1>0. CASE UNCHANGED vars
  BY <1>0 DEF vars
<1>1. CASE Next
  <2> SUFFICES ASSUME NEW c \in Callers,
                    \/ SpendStep(c) \/ BusyTimeout(c) \/ CommitBusy(c) \/ Kill(c) \/ Restart(c)
                    \/ \E l \in Lineages : Create(c, l)
                    \/ \E l \in Lineages, t \in Theses : Call(c, l, t)
               PROVE Abstract!Next \/ UNCHANGED <<db, readers>>
    BY <1>1 DEF Next
  <2>1. CASE CommitSpend(c)
    <3>1. lineage[c] \in Lineages /\ thesis[c] \in Theses /\ db[lineage[c]] = Unspent
      BY <2>1 DEF CommitSpend, CallHasArguments, TransactionSeesCurrentRow
    <3>2. Abstract!Spend(lineage[c], thesis[c])
      BY <2>1, <3>1 DEF CommitSpend, Abstract!Spend
    <3> QED
      BY <3>1, <3>2 DEF Abstract!Next
  <2>2. CASE ReadFinal(c)
    <3>1. lineage[c] \in Lineages /\ thesis[c] \in Theses /\ db[lineage[c]] = thesis[c]
      BY <2>2 DEF ReadFinal, CallHasArguments, GrantIsHeld
    <3>2. <<lineage[c], thesis[c]>> \notin readers
      BY <2>2 DEF ReadFinal, ReadsAreEntitled
    <3>3. Abstract!ReadFinal(lineage[c], thesis[c])
      BY <2>2, <3>1, <3>2 DEF ReadFinal, Abstract!ReadFinal
    <3> QED
      BY <3>1, <3>3 DEF Abstract!Next
  <2>3. ASSUME NEW l \in Lineages, Create(c, l) PROVE Abstract!Next
    <3>1. Abstract!Create(l)
      BY <2>3 DEF Create, Abstract!Create
    <3> QED
      BY <3>1 DEF Abstract!Next
  <2>4. CASE BeginImmediate(c) \/ Update(c) \/ Select(c) \/ CommitRefusal(c) \/ Return(c)
    BY <2>4 DEF BeginImmediate, Update, Select, CommitRefusal, Return
  <2>5. CASE BusyTimeout(c) \/ CommitBusy(c) \/ Kill(c) \/ Restart(c)
    BY <2>5 DEF BusyTimeout, CommitBusy, Kill, Restart
  <2>6. ASSUME NEW l \in Lineages, NEW t \in Theses, Call(c, l, t)
        PROVE  UNCHANGED <<db, readers>>
    BY <2>6 DEF Call
  <2> QED
    BY <2>1, <2>2, <2>3, <2>4, <2>5, <2>6 DEF SpendStep
<1> QED
  BY <1>0, <1>1

\* The statements of spend, create and the gated read implement the indivisible
\* spend-once ledger.
THEOREM Implementation == Spec => ImplementsEntitlement
BY InitRefines, NextRefines, Invariance, PTL DEF Spec, ImplementsEntitlement, Abstract!Spec
=============================================================================
