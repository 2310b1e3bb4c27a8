---------------------------- MODULE MCSeriesStore ----------------------------
(***************************************************************************)
(* SeriesStore for two series: two instruments, or two providers of one.   *)
(***************************************************************************)
EXTENDS SeriesStore

CONSTANTS s1, s2, k1, k2, k3, i1, i2

TwoSeries == <<s1, s2>>
OneProviderEach == (s1 :> k1) @@ (s2 :> k2)
TwoProvidersOfOne == (s1 :> k1) @@ (s2 :> k1)
OneOnBusinessDays == (s1 :> k1) @@ (s2 :> k3)
ThreeConfigurations == {OneProviderEach, TwoProvidersOfOne, OneOnBusinessDays}

\* Nothing, all, all but the newest day, or all but one in the middle.
ShortHistory == 1..(FirstDay - 1)
FourHistories == {{}, 1..FirstDay, ShortHistory, (1..FirstDay) \ {2}}
TwoIngests == {i1, i2}

\* One ingest at a time with every history, the second vendor never late; two at once
\* with complete ones; and vendors that revise, or are the sample connector.
Complete == [s \in Series |-> 1..FirstDay]
Adding == [s \in Series |-> "adds"]
ManySetups ==
  {[key |-> k, published |-> h, kind |-> Adding, ingests |-> {i1}] :
     k \in ThreeConfigurations,
     h \in {h \in [Series -> FourHistories] : h[s2] # ShortHistory}}
  \union {[key |-> OneProviderEach, published |-> Complete, kind |-> Adding,
            ingests |-> TwoIngests]}
  \union {[key |-> OneProviderEach, published |-> Complete, kind |-> k, ingests |-> {i1}] :
            k \in {[Adding EXCEPT ![s2] = "revises"], [Adding EXCEPT ![s2] = "sample"],
                   [s \in Series |-> "sample"]}}

TheFirst == {s1}
TheThirdKey == {k3}
AllButTheSecond == Days \ {2}
=============================================================================
