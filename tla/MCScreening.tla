----------------------------- MODULE MCScreening -----------------------------
(***************************************************************************)
(* Screening for four theses over two instruments.                         *)
(***************************************************************************)
EXTENDS Screening

Traded == "traded"
Signal == "signal"

TwoInstruments == {Traded, Signal}
TwoLevels == {1, 3}

Clause(k, subject, lookback, comparator, reference, value, refLookback, quantile) ==
  [instrument |-> k, subject |-> subject, lookback |-> lookback,
   comparator |-> comparator, reference |-> reference, value |-> value,
   refLookback |-> refLookback, quantile |-> quantile]

AboveItsMean == Clause(Signal, "level", 0, ">", "sma", 0, 2, 0)
Rising == Clause(Signal, "change", 1, ">=", "constant", 0, 0, 0)
LowMean == Clause(Traded, "sma", 2, "<=", "rolling_quantile", 0, 3, 40)
NotHigh == Clause(Signal, "level", 0, "<", "constant", 3, 0, 0)

Unconditional == [instruments |-> <<Traded>>, direction |-> "long", condition |-> {}]
OnSignal == [instruments |-> <<Traded>>, direction |-> "short",
             condition |-> {AboveItsMean, Rising}]
OnQuantile == [instruments |-> <<Traded, Signal>>, direction |-> "spread",
               condition |-> {LowMean}]
OnLevel == [instruments |-> <<Traded, Signal>>, direction |-> "long",
            condition |-> {NotHigh}]

FourTheses == <<Unconditional, OnSignal, OnQuantile, OnLevel>>

SomePValues == {1, 3, 5, 12}
BothMethods == {"benjamini_hochberg", "bonferroni"}
=============================================================================
