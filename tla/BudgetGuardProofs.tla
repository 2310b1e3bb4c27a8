--------------------------- MODULE BudgetGuardProofs ---------------------------
(***************************************************************************)
(* How far the research-ops-agent's budget can be overrun, for any number  *)
(* of processes, kinds, limits and periods: one unit for each process but  *)
(* one, because guard reads the usage and increments it in two steps. And  *)
(* how many external calls that is at the most, whatever a unit costs in   *)
(* attempts, endpoints and pages, and how many notices of it are sent: one *)
(* for each process and kind at most, since who may still send one found   *)
(* the mark of the period unset.                                           *)
(***************************************************************************)
EXTENDS BudgetGuard, FiniteSetTheorems, TLAPS

\* A limit of zero lets nobody through; it is what OvershootIsBounded lacks to be inductive.
ZeroBlocks == \A d \in Periods, k \in Kinds : Limit[k] = 0 => Uncounted(d, k) = {}

\* The external calls that units counted for kind k of period d still allow, each process
\* numbering those of the unit it is at.
ToCome(d, k) ==
  {c \in Processes \X (1..CallsPerUnit[k]) :
     pc[c[1]] = "call" /\ key[c[1]] = d /\ kind[c[1]] = k /\ made[c[1]] < c[2]}

\* Those made and those to come are paid for by the units counted: a call made is one fewer
\* to come, and a unit that ends early lets the rest go.
CallsAreCovered ==
  \A d \in Periods, k \in Kinds :
    calls[d][k] + Cardinality(ToCome(d, k)) <= CallsPerUnit[k] * used[d][k]

IInv == TypeOK /\ OvershootIsBounded /\ ZeroBlocks /\ CallsAreCovered

-----------------------------------------------------------------------------
\* Leaving a finite set of processes makes it smaller by one, joining larger by at most one.
LEMMA Counting ==
  ASSUME NEW S \in SUBSET Processes, NEW p \in Processes
  PROVE  /\ IsFiniteSet(S) /\ Cardinality(S) \in Nat
         /\ Cardinality(S) <= Cardinality(Processes) /\ Cardinality(Processes) \in Nat
         /\ p \in S => Cardinality(S \ {p}) = Cardinality(S) - 1
         /\ p \notin S => Cardinality(S \union {p}) = Cardinality(S) + 1
<1>1. IsFiniteSet(S) /\ Cardinality(S) <= Cardinality(Processes)
  BY FS_Subset, ProcessesAssumption
<1>2. Cardinality(S) \in Nat /\ Cardinality(Processes) \in Nat
  BY <1>1, FS_CardinalityType, ProcessesAssumption
<1>3. p \in S => Cardinality(S \ {p}) = Cardinality(S) - 1
  BY <1>1, FS_RemoveElement
<1>4. p \notin S => Cardinality(S \union {p}) = Cardinality(S) + 1
  BY <1>1, FS_AddElement
<1> QED
  BY <1>1, <1>2, <1>3, <1>4

\* The calls to come are finitely many; one that is made is one fewer, and a unit counted
\* brings no more than CallsPerUnit of them.
LEMMA CountingCalls ==
  ASSUME NEW k \in Kinds, NEW S \in SUBSET (Processes \X (1..CallsPerUnit[k]))
  PROVE  /\ IsFiniteSet(S) /\ Cardinality(S) \in Nat
         /\ \A x \in S : Cardinality(S \ {x}) = Cardinality(S) - 1
         /\ \A T \in SUBSET S : Cardinality(T) \in Nat /\ Cardinality(T) <= Cardinality(S)
         /\ \A p \in Processes : \A T \in SUBSET (S \union ({p} \X (1..CallsPerUnit[k]))) :
              Cardinality(T) \in Nat /\ Cardinality(T) <= Cardinality(S) + CallsPerUnit[k]
<1> DEFINE N == 1..CallsPerUnit[k]
<1>1. CallsPerUnit[k] \in Nat
  BY LimitAssumption
<1>2. IsFiniteSet(N) /\ Cardinality(N) = CallsPerUnit[k]
  <2>1. IsFiniteSet(1..CallsPerUnit[k]) /\ Cardinality(1..CallsPerUnit[k]) =
          IF 1 > CallsPerUnit[k] THEN 0 ELSE CallsPerUnit[k] - 1 + 1
    BY <1>1, FS_Interval
  <2> QED
    BY <1>1, <2>1
<1> HIDE DEF N
<1>3. IsFiniteSet(Processes \X N)
  BY <1>2, FS_Product, ProcessesAssumption
<1>4. IsFiniteSet(S) /\ Cardinality(S) \in Nat
  BY <1>3, FS_Subset, FS_CardinalityType DEF N
<1>5. \A x \in S : Cardinality(S \ {x}) = Cardinality(S) - 1
  BY <1>4, FS_RemoveElement
<1>6. \A T \in SUBSET S : Cardinality(T) \in Nat /\ Cardinality(T) <= Cardinality(S)
  BY <1>4, FS_Subset, FS_CardinalityType
<1>7. ASSUME NEW p \in Processes, NEW T \in SUBSET (S \union ({p} \X N))
      PROVE  Cardinality(T) \in Nat /\ Cardinality(T) <= Cardinality(S) + CallsPerUnit[k]
  <2> DEFINE P == {p} \X N
  <2>1. IsFiniteSet(P) /\ Cardinality(P) = CallsPerUnit[k]
    <3>1. IsFiniteSet({p}) /\ Cardinality({p}) = 1
      BY FS_Singleton
    <3>2. IsFiniteSet({p} \X N) /\ Cardinality({p} \X N) = Cardinality({p}) * Cardinality(N)
      BY <1>2, <3>1, FS_Product
    <3> QED
      BY <1>1, <1>2, <3>1, <3>2
  <2> HIDE DEF P
  <2>2. /\ IsFiniteSet(S \union P)
        /\ Cardinality(S \union P) = Cardinality(S) + Cardinality(P) - Cardinality(S \intersect P)
    BY <1>4, <2>1, FS_Union
  <2>3. Cardinality(S \intersect P) \in Nat
    BY <1>4, FS_Intersection, FS_CardinalityType
  <2>4. Cardinality(T) \in Nat /\ Cardinality(T) <= Cardinality(S \union P)
    <3>1. T \subseteq S \union P
      BY DEF P
    <3> QED
      BY <2>2, <3>1, FS_Subset, FS_CardinalityType
  <2> QED
    BY <1>1, <1>4, <2>1, <2>2, <2>3, <2>4
<1> QED
  BY <1>4, <1>5, <1>6, <1>7 DEF N

\* What units cost: one more costs a unit's calls more, and more of them never cost less.
LEMMA UnitsCost ==
  ASSUME NEW c \in Nat, NEW m \in Nat, NEW n \in Nat
  PROVE  /\ c * m \in Nat /\ c * 0 = 0 /\ c * (m + 1) = c * m + c
         /\ m <= n => c * m <= c * n
<1>1. c * m \in Nat /\ c * 0 = 0 /\ c * (m + 1) = c * m + c
  OBVIOUS
<1>2. ASSUME m <= n PROVE c * m <= c * n
  <2>1. PICK e \in Nat : n = m + e
    BY <1>2
  <2>2. c * (m + e) = c * m + c * e
    OBVIOUS
  <2>3. c * e \in Nat /\ c * m \in Nat
    OBVIOUS
  <2> QED
    BY <2>1, <2>2, <2>3
<1> QED
  BY <1>1, <1>2

LEMMA InitIInv == Init => IInv
<1> SUFFICES ASSUME Init PROVE IInv
  OBVIOUS
<1>1. TypeOK
  BY LimitAssumption DEF Init, TypeOK, Zero, Periods
<1>2. \A d \in Periods, k \in Kinds : Uncounted(d, k) = {} /\ ToCome(d, k) = {}
  BY DEF Init, Uncounted, ToCome
<1>3. Cardinality({}) = 0 /\ Cardinality(Processes) \in Nat
  BY FS_EmptySet, FS_CardinalityType, ProcessesAssumption
<1>4. \A d \in Periods, k \in Kinds : used[d][k] = 0 /\ calls[d][k] = 0
  BY DEF Init, Zero
<1>5. ASSUME NEW d \in Periods, NEW k \in Kinds
      PROVE  Cardinality(Uncounted(d, k)) = 0 /\ Cardinality(ToCome(d, k)) = 0
  BY <1>2, <1>3
<1>6. OvershootIsBounded
  <2> SUFFICES ASSUME NEW d \in Periods, NEW k \in Kinds, Limit[k] # 0
               PROVE  0 + 0 <= Limit[k] + Cardinality(Processes) - 1
    BY <1>4, <1>5 DEF OvershootIsBounded
  <2>1. Limit[k] \in Nat
    BY LimitAssumption
  <2> QED
    BY <1>3, <2>1
<1>7. CallsAreCovered
  BY <1>4, <1>5, LimitAssumption DEF CallsAreCovered
<1> QED
  BY <1>1, <1>2, <1>6, <1>7 DEF IInv, ZeroBlocks

\* Types are kept by every step.
LEMMA TypeOKStep == TypeOK /\ [Next]_vars => TypeOK'
<1> SUFFICES ASSUME TypeOK, [Next]_vars PROVE TypeOK'
  OBVIOUS
<1> USE DEF TypeOK, Goto, arguments
<1>0. CASE UNCHANGED vars
  BY <1>0 DEF vars
<1>1. CASE NextPeriod
  <2>1. now' \in Periods
    BY <1>1, LimitAssumption DEF NextPeriod, Periods
  <2> QED
    BY <1>1, <2>1 DEF NextPeriod
<1>2. ASSUME NEW p \in Processes, NEW k \in Kinds, Guard(p, k) PROVE TypeOK'
  BY <1>2 DEF Guard
<1>3. ASSUME NEW p \in Processes, Increment(p) \/ ExternalCall(p) \/ Notify(p) PROVE TypeOK'
  <2>1. ASSUME NEW f \in [Periods -> [Kinds -> Nat]]
        PROVE  Count(f, p) \in [Periods -> [Kinds -> Nat]]
    BY DEF Count
  <2>2. CASE Increment(p)
    BY <2>1, <2>2 DEF Increment
  <2>3. CASE ExternalCall(p)
    <3>1. made' \in [Processes -> Nat]
      BY <2>3 DEF ExternalCall
    <3> QED
      BY <2>1, <2>3, <3>1 DEF ExternalCall
  <2>4. CASE Notify(p)
    BY <2>1, <2>4 DEF Notify
  <2> QED
    BY <1>3, <2>2, <2>3, <2>4
<1>4. ASSUME NEW p \in Processes, ReadMark(p) PROVE TypeOK'
  BY <1>4 DEF ReadMark
<1>5. ASSUME NEW p \in Processes, Mark(p) PROVE TypeOK'
  BY <1>5 DEF Mark
<1>6. ASSUME NEW p \in Processes, LogBlocked(p) PROVE TypeOK'
  BY <1>6 DEF LogBlocked
<1>7. ASSUME NEW p \in Processes, EndCall(p) \/ Kill(p) PROVE TypeOK'
  <2>1. Leave(p) /\ UNCHANGED <<now, used, exhausted, blocked, notices, key, kind, calls>>
    BY <1>7 DEF EndCall, Kill
  <2>2. made' \in [Processes -> Nat]
    BY <2>1 DEF Leave
  <2> QED
    BY <2>1, <2>2 DEF Leave
<1> QED
  BY <1>0, <1>1, <1>2, <1>3, <1>4, <1>5, <1>6, <1>7 DEF Next

\* The steps that count nothing and make no call: a process on its way to the counter or
\* among its calls stays there or leaves.
LEMMA Quiet ==
  ASSUME IInv, TypeOK', UNCHANGED <<used, calls>>,
         \A d \in Periods, k \in Kinds :
           Uncounted(d, k)' \subseteq Uncounted(d, k) /\ ToCome(d, k)' \subseteq ToCome(d, k)
  PROVE  IInv'
<1> USE DEF IInv
<1>1. \A d \in Periods, k \in Kinds :
        /\ Cardinality(Uncounted(d, k)') <= Cardinality(Uncounted(d, k))
        /\ Cardinality(Uncounted(d, k)') \in Nat /\ Cardinality(Uncounted(d, k)) \in Nat
  <2> TAKE d \in Periods, k \in Kinds
  <2>1. IsFiniteSet(Uncounted(d, k))
    BY FS_Subset, ProcessesAssumption DEF Uncounted
  <2>2. IsFiniteSet(Uncounted(d, k)') /\ Cardinality(Uncounted(d, k)') <= Cardinality(Uncounted(d, k))
    BY <2>1, FS_Subset
  <2> QED
    BY <2>1, <2>2, FS_CardinalityType
<1>2. Cardinality(Processes) \in Nat
  BY FS_CardinalityType, ProcessesAssumption
<1>3. OvershootIsBounded'
  BY <1>1, <1>2, LimitAssumption DEF OvershootIsBounded, TypeOK
<1>4. ZeroBlocks'
  BY DEF ZeroBlocks
<1>5. CallsAreCovered'
  <2> SUFFICES ASSUME NEW d \in Periods, NEW k \in Kinds
               PROVE  calls[d][k] + Cardinality(ToCome(d, k)') <= CallsPerUnit[k] * used[d][k]
    BY DEF CallsAreCovered
  <2>1. ToCome(d, k) \in SUBSET (Processes \X (1..CallsPerUnit[k]))
    BY DEF ToCome
  <2>2. /\ Cardinality(ToCome(d, k)) \in Nat /\ Cardinality(ToCome(d, k)') \in Nat
        /\ Cardinality(ToCome(d, k)') <= Cardinality(ToCome(d, k))
    BY <2>1, CountingCalls
  <2>3. /\ calls[d][k] \in Nat /\ CallsPerUnit[k] * used[d][k] \in Nat
        /\ calls[d][k] + Cardinality(ToCome(d, k)) <= CallsPerUnit[k] * used[d][k]
    BY LimitAssumption, UnitsCost DEF CallsAreCovered, TypeOK
  <2> QED
    BY <2>2, <2>3
<1> QED
  BY <1>3, <1>4, <1>5

\* Whoever passes the check found the usage below the limit, so there is room for one
\* call of each process.
LEMMA GuardStep ==
  ASSUME IInv, TypeOK', NEW p \in Processes, NEW k \in Kinds, Guard(p, k)
  PROVE  IInv'
<1> USE DEF IInv
<1>1. CASE AtLimit(k)
  <2>1. \A d \in Periods, j \in Kinds :
          Uncounted(d, j)' \subseteq Uncounted(d, j) /\ ToCome(d, j)' \subseteq ToCome(d, j)
    BY <1>1 DEF Guard, Goto, Uncounted, ToCome, TypeOK
  <2> QED
    BY <2>1, Quiet DEF Guard
<1>2. CASE ~AtLimit(k)
  <2> PICK n \in Periods : n = now
    BY DEF TypeOK
  <2>1. /\ used' = used /\ calls' = calls
        /\ \A d \in Periods, j \in Kinds :
             /\ ToCome(d, j)' = ToCome(d, j)
             /\ <<d, j>> # <<n, k>> => Uncounted(d, j)' = Uncounted(d, j)
    BY <1>2 DEF Guard, Goto, Uncounted, ToCome, TypeOK
  <2>2. used[n][k] < Limit[k]
    BY <1>2, LimitAssumption DEF AtLimit, TypeOK
  <2>3. /\ Cardinality(Uncounted(n, k)') \in Nat /\ Cardinality(Processes) \in Nat
        /\ Cardinality(Uncounted(n, k)') <= Cardinality(Processes)
    <3>1. Uncounted(n, k)' \in SUBSET Processes
      BY DEF Uncounted
    <3> QED
      BY <3>1, Counting
  <2>4. OvershootIsBounded'
    <3> SUFFICES ASSUME NEW d \in Periods, NEW j \in Kinds
                 PROVE  IF Limit[j] = 0
                        THEN used'[d][j] = 0
                        ELSE used'[d][j] + Cardinality(Uncounted(d, j)')
                               <= Limit[j] + Cardinality(Processes) - 1
      BY DEF OvershootIsBounded
    <3>1. CASE d = n /\ j = k
      <4>1. used[n][k] \in Nat /\ Limit[k] \in Nat
        BY LimitAssumption DEF TypeOK
      <4> QED
        BY <2>1, <2>2, <2>3, <3>1, <4>1
    <3>2. CASE ~(d = n /\ j = k)
      BY <2>1, <3>2 DEF OvershootIsBounded
    <3> QED
      BY <3>1, <3>2
  <2>5. ZeroBlocks'
    <3> SUFFICES ASSUME NEW d \in Periods, NEW j \in Kinds, Limit[j] = 0
                 PROVE  Uncounted(d, j)' = {}
      BY DEF ZeroBlocks
    <3>1. <<d, j>> # <<n, k>>
      BY <2>2 DEF TypeOK
    <3> QED
      BY <2>1, <3>1 DEF ZeroBlocks
  <2>6. CallsAreCovered'
    BY <2>1 DEF CallsAreCovered
  <2> QED
    BY <2>4, <2>5, <2>6
<1> QED
  BY <1>1, <1>2

\* Counting a unit takes its process off the way to the counter and pays for its calls.
LEMMA IncrementStep ==
  ASSUME IInv, TypeOK', NEW p \in Processes, Increment(p)
  PROVE  IInv'
<1> USE DEF IInv
<1> PICK d \in Periods, k \in Kinds : d = key[p] /\ k = kind[p]
  BY DEF TypeOK
<1>0. pc[p] = "increment" /\ UNCHANGED <<key, kind, made, calls>>
  BY DEF Increment, arguments
<1>1. /\ used'[d][k] = used[d][k] + 1
      /\ \A e \in Periods, j \in Kinds : <<e, j>> # <<d, k>> => used'[e][j] = used[e][j]
  BY <1>0 DEF Increment, Count, TypeOK
<1>2. /\ p \in Uncounted(d, k) /\ Uncounted(d, k)' = Uncounted(d, k) \ {p}
      /\ \A e \in Periods, j \in Kinds : <<e, j>> # <<d, k>> =>
           Uncounted(e, j)' = Uncounted(e, j)
  BY <1>0 DEF Increment, Goto, Uncounted, TypeOK
<1>3. /\ ToCome(d, k)' \subseteq ToCome(d, k) \union ({p} \X (1..CallsPerUnit[k]))
      /\ \A e \in Periods, j \in Kinds : <<e, j>> # <<d, k>> => ToCome(e, j)' = ToCome(e, j)
  BY <1>0 DEF Increment, Goto, ToCome, TypeOK
<1>4. /\ Cardinality(Uncounted(d, k)) \in Nat
      /\ Cardinality(Uncounted(d, k)') = Cardinality(Uncounted(d, k)) - 1
  <2>1. Uncounted(d, k) \in SUBSET Processes
    BY DEF Uncounted
  <2> QED
    BY <1>2, <2>1, Counting
<1>5. used[d][k] \in Nat /\ calls[d][k] \in Nat /\ Limit[k] \in Nat
      /\ Cardinality(Processes) \in Nat
  BY LimitAssumption, ProcessesAssumption, FS_CardinalityType DEF TypeOK
<1>6. Limit[k] # 0
  BY <1>2 DEF ZeroBlocks
<1>7. OvershootIsBounded'
  <2> SUFFICES ASSUME NEW e \in Periods, NEW j \in Kinds
               PROVE  IF Limit[j] = 0
                      THEN used'[e][j] = 0
                      ELSE used'[e][j] + Cardinality(Uncounted(e, j)')
                             <= Limit[j] + Cardinality(Processes) - 1
    BY DEF OvershootIsBounded
  <2>1. CASE e = d /\ j = k
    <3>1. used[d][k] + Cardinality(Uncounted(d, k)) <= Limit[k] + Cardinality(Processes) - 1
      BY <1>6 DEF OvershootIsBounded
    <3> QED
      BY <1>1, <1>4, <1>5, <1>6, <2>1, <3>1
  <2>2. CASE ~(e = d /\ j = k)
    BY <1>1, <1>2, <2>2 DEF OvershootIsBounded
  <2> QED
    BY <2>1, <2>2
<1>8. ZeroBlocks'
  BY <1>2, <1>6 DEF ZeroBlocks
<1>9. CallsAreCovered'
  <2> SUFFICES ASSUME NEW e \in Periods, NEW j \in Kinds
               PROVE  calls[e][j] + Cardinality(ToCome(e, j)') <= CallsPerUnit[j] * used'[e][j]
    BY <1>0 DEF CallsAreCovered
  <2>1. CASE e = d /\ j = k
    <3>1. calls[d][k] + Cardinality(ToCome(d, k)) <= CallsPerUnit[k] * used[d][k]
      BY DEF CallsAreCovered
    <3>2. ToCome(d, k) \in SUBSET (Processes \X (1..CallsPerUnit[k]))
      BY DEF ToCome
    <3>3. /\ Cardinality(ToCome(d, k)) \in Nat /\ Cardinality(ToCome(d, k)') \in Nat
          /\ Cardinality(ToCome(d, k)') <= Cardinality(ToCome(d, k)) + CallsPerUnit[k]
      BY <1>3, <3>2, CountingCalls
    <3>4. /\ CallsPerUnit[k] * used[d][k] \in Nat /\ CallsPerUnit[k] \in Nat
          /\ CallsPerUnit[k] * (used[d][k] + 1) = CallsPerUnit[k] * used[d][k] + CallsPerUnit[k]
      BY <1>5, LimitAssumption, UnitsCost
    <3> DEFINE c == CallsPerUnit[k] * used[d][k]
    <3>5. CallsPerUnit[k] * used'[d][k] = c + CallsPerUnit[k]
      BY <1>1, <3>4
    <3>6. calls[d][k] + Cardinality(ToCome(d, k)') <= c + CallsPerUnit[k]
      <4> HIDE DEF c
      <4>1. c \in Nat /\ calls[d][k] + Cardinality(ToCome(d, k)) <= c
        BY <3>1, <3>4 DEF c
      <4> QED
        BY <1>5, <3>3, <3>4, <4>1
    <3> QED
      BY <2>1, <3>5, <3>6
  <2>2. CASE ~(e = d /\ j = k)
    BY <1>1, <1>3, <2>2 DEF CallsAreCovered
  <2> QED
    BY <2>1, <2>2
<1> QED
  BY <1>7, <1>8, <1>9

\* A call made is one of those that its unit allows.
LEMMA ExternalCallStep ==
  ASSUME IInv, TypeOK', NEW p \in Processes, ExternalCall(p)
  PROVE  IInv'
<1> USE DEF IInv
<1> PICK d \in Periods, k \in Kinds : d = key[p] /\ k = kind[p]
  BY DEF TypeOK
<1>0. pc[p] = "call" /\ UNCHANGED <<used, pc, key, kind>>
  BY DEF ExternalCall
<1>1. /\ calls'[d][k] = calls[d][k] + 1
      /\ \A e \in Periods, j \in Kinds : <<e, j>> # <<d, k>> => calls'[e][j] = calls[e][j]
  BY DEF ExternalCall, Count, TypeOK
<1>2. /\ made[p] \in Nat /\ made[p] + 1 \in 1..CallsPerUnit[k] /\ made'[p] = made[p] + 1
      /\ \A q \in Processes : q # p => made'[q] = made[q]
  BY LimitAssumption DEF ExternalCall, TypeOK
<1> DEFINE x == <<p, made[p] + 1>>
<1>3. x \in ToCome(d, k) /\ ToCome(d, k)' \subseteq ToCome(d, k) \ {x}
  <2>1. x \in ToCome(d, k)
    BY <1>0, <1>2 DEF ToCome
  <2> SUFFICES ASSUME NEW q \in Processes, NEW i \in 1..CallsPerUnit[k],
                      <<q, i>> \in ToCome(d, k)'
               PROVE  <<q, i>> \in ToCome(d, k) \ {x}
    BY <2>1 DEF ToCome
  <2>2. pc[q] = "call" /\ key[q] = d /\ kind[q] = k /\ made'[q] < i
    BY <1>0 DEF ToCome
  <2>3. CASE q = p
    <3>1. made[p] < i /\ i # made[p] + 1
      BY <1>2, <2>2, <2>3, LimitAssumption
    <3> QED
      BY <2>2, <2>3, <3>1 DEF ToCome
  <2>4. CASE q # p
    BY <1>2, <2>2, <2>4 DEF ToCome
  <2> QED
    BY <2>3, <2>4
<1> HIDE DEF x
<1>4. \A e \in Periods, j \in Kinds :
        /\ Uncounted(e, j)' = Uncounted(e, j)
        /\ <<e, j>> # <<d, k>> => ToCome(e, j)' = ToCome(e, j)
  BY <1>0, <1>2 DEF Uncounted, ToCome
<1>5. OvershootIsBounded' /\ ZeroBlocks'
  BY <1>0, <1>4 DEF OvershootIsBounded, ZeroBlocks
<1>6. CallsAreCovered'
  <2> SUFFICES ASSUME NEW e \in Periods, NEW j \in Kinds
               PROVE  calls'[e][j] + Cardinality(ToCome(e, j)') <= CallsPerUnit[j] * used[e][j]
    BY <1>0 DEF CallsAreCovered
  <2>1. CASE e = d /\ j = k
    <3>1. ToCome(d, k) \in SUBSET (Processes \X (1..CallsPerUnit[k]))
      BY DEF ToCome
    <3>2. /\ Cardinality(ToCome(d, k)) \in Nat
          /\ Cardinality(ToCome(d, k) \ {x}) = Cardinality(ToCome(d, k)) - 1
      BY <1>3, <3>1, CountingCalls
    <3>3. ToCome(d, k) \ {x} \in SUBSET (Processes \X (1..CallsPerUnit[k]))
      BY <3>1
    <3>4. /\ Cardinality(ToCome(d, k)') \in Nat
          /\ Cardinality(ToCome(d, k)') <= Cardinality(ToCome(d, k) \ {x})
      BY <1>3, <3>3, CountingCalls
    <3>5. /\ calls[d][k] \in Nat /\ CallsPerUnit[k] * used[d][k] \in Nat
          /\ calls[d][k] + Cardinality(ToCome(d, k)) <= CallsPerUnit[k] * used[d][k]
      BY LimitAssumption, UnitsCost DEF CallsAreCovered, TypeOK
    <3> QED
      BY <1>1, <2>1, <3>2, <3>4, <3>5
  <2>2. CASE ~(e = d /\ j = k)
    BY <1>1, <1>4, <2>2 DEF CallsAreCovered
  <2> QED
    BY <2>1, <2>2
<1> QED
  BY <1>5, <1>6

LEMMA NextIInv == IInv /\ [Next]_vars => IInv'
<1> SUFFICES ASSUME IInv, [Next]_vars PROVE IInv'
  OBVIOUS
<1>0. TypeOK'
  BY TypeOKStep DEF IInv
<1>1. CASE UNCHANGED vars \/ NextPeriod
  <2>1. /\ UNCHANGED <<used, calls>>
        /\ \A d \in Periods, k \in Kinds :
             Uncounted(d, k)' \subseteq Uncounted(d, k) /\ ToCome(d, k)' \subseteq ToCome(d, k)
    BY <1>1 DEF vars, arguments, NextPeriod, Uncounted, ToCome
  <2> QED
    BY <1>0, <2>1, Quiet
<1>2. ASSUME NEW p \in Processes, NEW k \in Kinds, Guard(p, k) PROVE IInv'
  BY <1>0, <1>2, GuardStep
<1>3. ASSUME NEW p \in Processes, Increment(p) PROVE IInv'
  BY <1>0, <1>3, IncrementStep
<1>4. ASSUME NEW p \in Processes, ExternalCall(p) PROVE IInv'
  BY <1>0, <1>4, ExternalCallStep
<1>5. ASSUME NEW p \in Processes,
             ReadMark(p) \/ Mark(p) \/ LogBlocked(p) \/ Notify(p) \/ EndCall(p) \/ Kill(p)
      PROVE  IInv'
  <2>1. UNCHANGED <<used, calls, key, kind>>
    BY <1>5 DEF ReadMark, Mark, LogBlocked, Notify, EndCall, Kill, arguments
  <2>2. \A q \in Processes : pc'[q] \in {"increment", "call"} =>
          pc'[q] = pc[q] /\ made'[q] = made[q]
    BY <1>5 DEF ReadMark, Mark, LogBlocked, Notify, EndCall, Kill, Leave, Goto, arguments, IInv,
                TypeOK
  <2>3. \A d \in Periods, k \in Kinds :
          Uncounted(d, k)' \subseteq Uncounted(d, k) /\ ToCome(d, k)' \subseteq ToCome(d, k)
    BY <2>1, <2>2 DEF Uncounted, ToCome
  <2> QED
    BY <1>0, <2>1, <2>3, Quiet
<1> QED
  BY <1>1, <1>2, <1>3, <1>4, <1>5 DEF Next

-----------------------------------------------------------------------------
\* Type correctness of the budget's tables.
THEOREM TypeCorrect == Spec => []TypeOK
<1>1. Init => TypeOK
  BY InitIInv DEF IInv
<1> QED
  BY <1>1, TypeOKStep, PTL DEF Spec

THEOREM Invariance == Spec => []IInv
BY InitIInv, NextIInv, PTL DEF Spec

\* BudgetGuard.guard never lets a limit be passed by more than one call for each process
\* but one, and a limit of zero by none.
THEOREM BoundedOvershoot == Spec => []OvershootIsBounded
<1>1. IInv => OvershootIsBounded
  BY DEF IInv
<1> QED
  BY <1>1, Invariance, PTL

\* The external calls of a period are no more than CallsPerUnit for each unit counted, nor
\* than that for each unit that the limit and the overshoot allow, also when processes are
\* killed among their calls.
THEOREM BoundedSpend == Spec => []SpendIsBounded
<1>1. IInv => SpendIsBounded
  <2> SUFFICES ASSUME IInv, NEW d \in Periods, NEW k \in Kinds
               PROVE  /\ calls[d][k] <= CallsPerUnit[k] * used[d][k]
                      /\ calls[d][k] <= CallsPerUnit[k] * MostUnits(k)
    BY DEF SpendIsBounded
  <2>1. /\ calls[d][k] \in Nat /\ used[d][k] \in Nat /\ CallsPerUnit[k] \in Nat
        /\ Limit[k] \in Nat /\ CallsPerUnit[k] * used[d][k] \in Nat
    BY LimitAssumption, UnitsCost DEF IInv, TypeOK
  <2>2. calls[d][k] <= CallsPerUnit[k] * used[d][k]
    <3>1. ToCome(d, k) \in SUBSET (Processes \X (1..CallsPerUnit[k]))
      BY DEF ToCome
    <3>2. Cardinality(ToCome(d, k)) \in Nat
      BY <3>1, CountingCalls
    <3>3. calls[d][k] + Cardinality(ToCome(d, k)) <= CallsPerUnit[k] * used[d][k]
      BY DEF IInv, CallsAreCovered
    <3> QED
      BY <2>1, <3>2, <3>3
  <2>3. used[d][k] <= MostUnits(k) /\ MostUnits(k) \in Nat
    <3>1. CASE Limit[k] = 0
      BY <3>1 DEF IInv, OvershootIsBounded, MostUnits
    <3>2. CASE Limit[k] # 0
      <4>1. Uncounted(d, k) \in SUBSET Processes
        BY DEF Uncounted
      <4>2. IsFiniteSet(Uncounted(d, k)) /\ IsFiniteSet(Processes)
        BY <4>1, FS_Subset, ProcessesAssumption
      <4>3. Cardinality(Uncounted(d, k)) \in Nat /\ Cardinality(Processes) \in Nat
        BY <4>2, FS_CardinalityType
      <4>4. used[d][k] + Cardinality(Uncounted(d, k)) <= Limit[k] + Cardinality(Processes) - 1
        BY <3>2 DEF IInv, OvershootIsBounded
      <4> QED
        BY <2>1, <3>2, <4>3, <4>4 DEF MostUnits
    <3> QED
      BY <3>1, <3>2
  <2>4. CallsPerUnit[k] * used[d][k] <= CallsPerUnit[k] * MostUnits(k)
        /\ CallsPerUnit[k] * MostUnits(k) \in Nat
    BY <2>1, <2>3, UnitsCost
  <2> QED
    BY <2>1, <2>2, <2>4
<1> QED
  BY <1>1, Invariance, PTL

-----------------------------------------------------------------------------
(***************************************************************************)
(* No false alarms.  Usage never falls and a mark is never taken back, so  *)
(* what a blocked call saw when it began is still so when it logs and      *)
(* notifies, also if the period has ended in between.                      *)
(***************************************************************************)
BlockedPath == {"read_mark", "mark", "log", "log_first", "notify"}

BlockedCallsSawTheLimit ==
  \A p \in Processes :
    /\ pc[p] \in BlockedPath => used[key[p]][kind[p]] >= Limit[kind[p]]
    /\ pc[p] \in {"log", "log_first", "notify"} => exhausted[key[p]]

AlarmInv == TypeOK /\ BlockedCallsSawTheLimit /\ BlockedMeansExhausted

LEMMA InitAlarmInv == Init => AlarmInv
<1> SUFFICES ASSUME Init PROVE AlarmInv
  OBVIOUS
<1>1. TypeOK
  BY InitIInv DEF IInv
<1>2. BlockedCallsSawTheLimit
  BY DEF Init, BlockedCallsSawTheLimit, BlockedPath
<1>3. BlockedMeansExhausted
  BY DEF Init, BlockedMeansExhausted, Zero
<1> QED
  BY <1>1, <1>2, <1>3 DEF AlarmInv

LEMMA NextAlarmInv == AlarmInv /\ [Next]_vars => AlarmInv'
<1> SUFFICES ASSUME AlarmInv, [Next]_vars PROVE AlarmInv'
  OBVIOUS
<1>0. TypeOK'
  BY TypeOKStep DEF AlarmInv
<1> USE <1>0 DEF AlarmInv, TypeOK, BlockedCallsSawTheLimit, BlockedMeansExhausted, BlockedPath,
                 Goto, Count, arguments
<1>1. CASE UNCHANGED vars \/ NextPeriod
  BY <1>1 DEF vars, NextPeriod
<1>2. ASSUME NEW p \in Processes, NEW k \in Kinds, Guard(p, k) PROVE AlarmInv'
  BY <1>2, LimitAssumption DEF Guard, AtLimit
<1>3. ASSUME NEW p \in Processes, Increment(p) PROVE AlarmInv'
  <2>1. \A d \in Periods, k \in Kinds : used'[d][k] >= used[d][k] /\ Limit[k] \in Nat
                                        /\ used[d][k] \in Nat /\ used'[d][k] \in Nat
    BY <1>3, LimitAssumption DEF Increment
  <2>2. \A d \in Periods, k \in Kinds : used[d][k] >= Limit[k] => used'[d][k] >= Limit[k]
    BY <2>1
  <2>3. /\ UNCHANGED <<exhausted, blocked, notices, key, kind>>
        /\ \A q \in Processes : pc'[q] \in BlockedPath => pc'[q] = pc[q]
    BY <1>3 DEF Increment
  <2>4. BlockedCallsSawTheLimit'
    BY <2>2, <2>3
  <2>5. BlockedMeansExhausted'
    <3>1. ASSUME NEW row \in blocked
          PROVE  exhausted'[row[1]] /\ used'[row[1]][row[2]] >= Limit[row[2]]
      BY <2>2, <2>3
    <3>2. ASSUME NEW d \in Periods, exhausted[d]
          PROVE  \E k \in Kinds : used'[d][k] >= Limit[k]
      BY <2>2, <3>2
    <3>3. ASSUME NEW d \in Periods, NEW k \in Kinds, notices[d][k] > 0
          PROVE  exhausted'[d] /\ used'[d][k] >= Limit[k]
      BY <2>2, <2>3, <3>3
    <3> QED
      BY <2>3, <3>1, <3>2, <3>3
  <2> QED
    BY <2>4, <2>5
<1>4. ASSUME NEW p \in Processes, ExternalCall(p) \/ EndCall(p) PROVE AlarmInv'
  BY <1>4 DEF ExternalCall, EndCall, Leave
<1>5. ASSUME NEW p \in Processes, ReadMark(p) PROVE AlarmInv'
  BY <1>5 DEF ReadMark
<1>6. ASSUME NEW p \in Processes, Mark(p) PROVE AlarmInv'
  BY <1>6 DEF Mark
<1>7. ASSUME NEW p \in Processes, LogBlocked(p) PROVE AlarmInv'
  <2>1. BlockedCallsSawTheLimit'
    BY <1>7 DEF LogBlocked
  <2>2. PICK d \in Periods, k \in Kinds : d = key[p] /\ k = kind[p]
    OBVIOUS
  <2>3. blocked' = blocked \union {<<d, k>>} /\ UNCHANGED <<used, exhausted, notices>>
    BY <1>7, <2>2 DEF LogBlocked
  <2>4. exhausted[d] /\ used[d][k] >= Limit[k]
    BY <1>7, <2>2 DEF LogBlocked
  <2>5. \A row \in blocked' : exhausted'[row[1]] /\ used'[row[1]][row[2]] >= Limit[row[2]]
    BY <2>3, <2>4
  <2>6. BlockedMeansExhausted'
    BY <2>3, <2>5
  <2> QED
    BY <2>1, <2>6
<1>8. ASSUME NEW p \in Processes, Notify(p) PROVE AlarmInv'
  <2>1. BlockedCallsSawTheLimit'
    BY <1>8 DEF Notify
  <2>2. \A d \in Periods, k \in Kinds :
          notices'[d][k] > 0 => notices[d][k] > 0 \/ (d = key[p] /\ k = kind[p])
    BY <1>8 DEF Notify
  <2>3. BlockedMeansExhausted'
    BY <1>8, <2>2 DEF Notify
  <2> QED
    BY <2>1, <2>3
<1>9. ASSUME NEW p \in Processes, Kill(p) PROVE AlarmInv'
  BY <1>9 DEF Kill, Leave
<1> QED
  BY <1>1, <1>2, <1>3, <1>4, <1>5, <1>6, <1>7, <1>8, <1>9 DEF Next

\* A budget_blocked row, an exhaustion mark or a notification is never a false alarm.
THEOREM NoFalseAlarms == Spec => []BlockedMeansExhausted
<1>1. AlarmInv => BlockedMeansExhausted
  BY DEF AlarmInv
<1> QED
  BY <1>1, InitAlarmInv, NextAlarmInv, PTL DEF Spec

-----------------------------------------------------------------------------
(***************************************************************************)
(* Few notices.  Only a call that found its period unmarked comes to send  *)
(* a notice, and the first to pass marks the period for good, so by then   *)
(* all who ever will are under way: a notice sent is one fewer to come.    *)
(***************************************************************************)
Racers(d, k) ==
  {p \in Processes : pc[p] \in {"mark", "log_first", "notify"} /\ key[p] = d /\ kind[p] = k}

\* A notice sent is one fewer to come.
NoticesToCome ==
  \A d \in Periods, k \in Kinds :
    notices[d][k] + Cardinality(Racers(d, k)) <= Cardinality(Processes)

\* A single process, once it has sent a notice, sends no second one for any kind.
AloneSendsOnce ==
  Cardinality(Processes) = 1 =>
    \A d \in Periods, j, k \in Kinds :
      notices[d][j] > 0 => Racers(d, k) = {} /\ (j # k => notices[d][k] = 0)

NoticeInv == AlarmInv /\ NoticesToCome /\ AloneSendsOnce

LEMMA InitNoticeInv == Init => NoticeInv
<1> SUFFICES ASSUME Init PROVE NoticeInv
  OBVIOUS
<1>1. \A d \in Periods, k \in Kinds : Racers(d, k) = {} /\ notices[d][k] = 0
  BY DEF Init, Racers, Zero
<1>2. Cardinality({}) = 0 /\ Cardinality(Processes) \in Nat
  BY FS_EmptySet, FS_CardinalityType, ProcessesAssumption
<1>3. \A d \in Periods, k \in Kinds : Cardinality(Racers(d, k)) = 0
  BY <1>1, <1>2
<1>4. NoticesToCome
  BY <1>1, <1>2, <1>3 DEF NoticesToCome
<1> QED
  BY <1>1, <1>4, InitAlarmInv DEF NoticeInv, AloneSendsOnce

\* The steps that send no notice and let nobody join the race.
LEMMA NoticesQuiet ==
  ASSUME NoticeInv, AlarmInv', UNCHANGED notices,
         \A d \in Periods, k \in Kinds : Racers(d, k)' \subseteq Racers(d, k)
  PROVE  NoticeInv'
<1>1. ASSUME NEW d \in Periods, NEW k \in Kinds
      PROVE  notices[d][k] + Cardinality(Racers(d, k)') <= Cardinality(Processes)
  <2>1. IsFiniteSet(Racers(d, k))
    BY FS_Subset, ProcessesAssumption DEF Racers
  <2>2. /\ IsFiniteSet(Racers(d, k)')
        /\ Cardinality(Racers(d, k)') <= Cardinality(Racers(d, k))
    BY <2>1, FS_Subset
  <2>3. /\ Cardinality(Racers(d, k)') \in Nat /\ Cardinality(Racers(d, k)) \in Nat
        /\ Cardinality(Processes) \in Nat /\ notices[d][k] \in Nat
    BY <2>1, <2>2, FS_CardinalityType, ProcessesAssumption DEF NoticeInv, AlarmInv, TypeOK
  <2> QED
    BY <2>2, <2>3 DEF NoticeInv, NoticesToCome
<1>2. NoticesToCome'
  BY <1>1 DEF NoticesToCome
<1>3. AloneSendsOnce'
  BY DEF NoticeInv, AloneSendsOnce
<1> QED
  BY <1>2, <1>3 DEF NoticeInv

\* Whoever finds the period unmarked joins before any notice of the period was sent.
LEMMA NoticesReadMark ==
  ASSUME NoticeInv, AlarmInv', NEW p \in Processes, ReadMark(p)
  PROVE  NoticeInv'
<1>0. TypeOK /\ BlockedMeansExhausted
  BY DEF NoticeInv, AlarmInv
<1>1. UNCHANGED <<notices, key, kind>> /\ key[p] \in Periods
  BY <1>0 DEF ReadMark, arguments, TypeOK
<1>2. CASE exhausted[key[p]]
  <2>1. \A d \in Periods, k \in Kinds : Racers(d, k)' \subseteq Racers(d, k)
    BY <1>0, <1>1, <1>2 DEF ReadMark, Goto, Racers, TypeOK
  <2> QED
    BY <1>1, <2>1, NoticesQuiet
<1>3. CASE ~exhausted[key[p]]
  <2>1. \A k \in Kinds : notices[key[p]][k] = 0
    BY <1>0, <1>1, <1>3 DEF BlockedMeansExhausted, TypeOK
  <2>2. \A d \in Periods, k \in Kinds : d # key[p] => Racers(d, k)' = Racers(d, k)
    BY <1>0, <1>1 DEF ReadMark, Goto, Racers, TypeOK
  <2>3. \A k \in Kinds : Cardinality(Racers(key[p], k)') <= Cardinality(Processes)
                         /\ Cardinality(Racers(key[p], k)') \in Nat
    BY FS_Subset, FS_CardinalityType, ProcessesAssumption DEF Racers
  <2>4. NoticesToCome'
    BY <1>1, <2>1, <2>2, <2>3 DEF NoticeInv, NoticesToCome
  <2>5. AloneSendsOnce'
    BY <1>1, <2>1, <2>2 DEF NoticeInv, AloneSendsOnce
  <2> QED
    BY <2>4, <2>5 DEF NoticeInv
<1> QED
  BY <1>2, <1>3

\* Who sends its notice leaves the race.
LEMMA NoticesNotify ==
  ASSUME NoticeInv, AlarmInv', NEW p \in Processes, Notify(p)
  PROVE  NoticeInv'
<1>0. TypeOK
  BY DEF NoticeInv, AlarmInv
<1> PICK n \in Periods, m \in Kinds : n = key[p] /\ m = kind[p]
  BY <1>0 DEF TypeOK
<1>1. /\ p \in Racers(n, m)
      /\ Racers(n, m)' = Racers(n, m) \ {p}
      /\ \A d \in Periods, k \in Kinds : <<d, k>> # <<n, m>> => Racers(d, k)' = Racers(d, k)
  BY <1>0 DEF Notify, Goto, Racers, TypeOK, arguments
<1>2. \A d \in Periods, k \in Kinds :
        /\ notices[d][k] \in Nat
        /\ notices'[d][k] = IF d = n /\ k = m THEN notices[d][k] + 1 ELSE notices[d][k]
  BY <1>0 DEF Notify, Count, TypeOK
<1>3. Racers(n, m) \in SUBSET Processes
  BY DEF Racers
<1>4. NoticesToCome'
  <2> SUFFICES ASSUME NEW d \in Periods, NEW k \in Kinds
               PROVE  notices'[d][k] + Cardinality(Racers(d, k)') <= Cardinality(Processes)
    BY DEF NoticesToCome
  <2>1. notices[d][k] + Cardinality(Racers(d, k)) <= Cardinality(Processes)
    BY DEF NoticeInv, NoticesToCome
  <2>2. CASE d = n /\ k = m
    <3>1. /\ Cardinality(Racers(n, m) \ {p}) = Cardinality(Racers(n, m)) - 1
          /\ Cardinality(Racers(n, m)) \in Nat /\ Cardinality(Processes) \in Nat
      BY <1>1, <1>3, Counting
    <3>2. Cardinality(Racers(d, k)') = Cardinality(Racers(n, m)) - 1
      BY <1>1, <2>2, <3>1
    <3> QED
      BY <1>2, <2>1, <2>2, <3>1, <3>2
  <2>3. CASE ~(d = n /\ k = m)
    BY <1>1, <1>2, <2>1, <2>3
  <2> QED
    BY <2>2, <2>3
<1>5. AloneSendsOnce'
  <2> SUFFICES ASSUME Cardinality(Processes) = 1,
                      NEW d \in Periods, NEW j \in Kinds, NEW k \in Kinds, notices'[d][j] > 0
               PROVE  Racers(d, k)' = {} /\ (j # k => notices'[d][k] = 0)
    BY DEF AloneSendsOnce
  <2>1. PICK q : Processes = {q}
    BY FS_Singleton, ProcessesAssumption
  <2>2. CASE d # n
    BY <1>1, <1>2, <2>2 DEF NoticeInv, AloneSendsOnce
  <2>3. CASE d = n
    <3>1. \A i \in Kinds : notices[n][i] = 0
      <4> SUFFICES ASSUME NEW i \in Kinds, notices[n][i] # 0 PROVE FALSE
        OBVIOUS
      <4>1. notices[n][i] > 0
        BY <1>2
      <4> QED
        BY <1>1, <4>1 DEF NoticeInv, AloneSendsOnce
    <3>2. Racers(n, k)' = {}
      BY <1>1, <2>1 DEF Racers
    <3> QED
      BY <1>2, <2>3, <3>1, <3>2
  <2> QED
    BY <2>2, <2>3
<1> QED
  BY <1>4, <1>5 DEF NoticeInv

LEMMA NextNoticeInv == NoticeInv /\ [Next]_vars => NoticeInv'
<1> SUFFICES ASSUME NoticeInv, [Next]_vars PROVE NoticeInv'
  OBVIOUS
<1>0. TypeOK /\ AlarmInv'
  BY NextAlarmInv DEF NoticeInv, AlarmInv
<1>1. CASE UNCHANGED vars \/ NextPeriod
  <2>1. UNCHANGED <<notices, pc, key, kind>>
    BY <1>1 DEF vars, NextPeriod, arguments
  <2> QED
    BY <1>0, <2>1, NoticesQuiet DEF Racers
<1>2. ASSUME NEW p \in Processes, NEW k \in Kinds, Guard(p, k) PROVE NoticeInv'
  <2>1. \A d \in Periods, j \in Kinds : Racers(d, j)' \subseteq Racers(d, j)
    BY <1>0, <1>2 DEF Guard, Goto, Racers, TypeOK
  <2> QED
    BY <1>0, <1>2, <2>1, NoticesQuiet DEF Guard
<1>3. ASSUME NEW p \in Processes,
             \/ Increment(p) \/ ExternalCall(p) \/ EndCall(p)
             \/ Mark(p) \/ LogBlocked(p) \/ Kill(p)
      PROVE  NoticeInv'
  <2>1. UNCHANGED <<notices, key, kind>>
    BY <1>3 DEF Increment, ExternalCall, EndCall, Mark, LogBlocked, Kill, arguments
  <2>2. /\ \A q \in Processes : q # p => pc'[q] = pc[q]
        /\ pc'[p] \in {"mark", "log_first", "notify"} => pc[p] \in {"mark", "log_first", "notify"}
    BY <1>0, <1>3
       DEF Increment, ExternalCall, EndCall, Mark, LogBlocked, Kill, Leave, Goto, TypeOK
  <2>3. \A d \in Periods, k \in Kinds : Racers(d, k)' \subseteq Racers(d, k)
    BY <2>1, <2>2 DEF Racers
  <2> QED
    BY <1>0, <2>1, <2>3, NoticesQuiet
<1>4. ASSUME NEW p \in Processes, ReadMark(p) PROVE NoticeInv'
  BY <1>0, <1>4, NoticesReadMark
<1>5. ASSUME NEW p \in Processes, Notify(p) PROVE NoticeInv'
  BY <1>0, <1>5, NoticesNotify
<1> QED
  BY <1>1, <1>2, <1>3, <1>4, <1>5 DEF Next

\* mark_budget_exhausted keeps the notices of a period and kind down to one for each
\* process, and those of a single process down to one for the period.
THEOREM FewNotices == Spec => []NoticesAreFew
<1>1. NoticeInv => NoticesAreFew
  <2> SUFFICES ASSUME NoticeInv, NEW d \in Periods
               PROVE  /\ \A k \in Kinds : notices[d][k] <= Cardinality(Processes)
                      /\ Cardinality(Processes) = 1 => Cardinality(Signals(d)) <= 1
    BY DEF NoticesAreFew
  <2>1. ASSUME NEW k \in Kinds PROVE notices[d][k] <= Cardinality(Processes)
    <3>1. Racers(d, k) \in SUBSET Processes /\ notices[d][k] \in Nat
      BY DEF Racers, NoticeInv, AlarmInv, TypeOK
    <3>2. IsFiniteSet(Racers(d, k)) /\ IsFiniteSet(Processes)
      BY <3>1, FS_Subset, ProcessesAssumption
    <3>3. Cardinality(Racers(d, k)) \in Nat /\ Cardinality(Processes) \in Nat
      BY <3>2, FS_CardinalityType
    <3> QED
      BY <3>1, <3>3 DEF NoticeInv, NoticesToCome
  <2>2. ASSUME Cardinality(Processes) = 1 PROVE Cardinality(Signals(d)) <= 1
    <3>1. CASE Signals(d) = {}
      BY <3>1, FS_EmptySet
    <3>2. ASSUME NEW j \in Signals(d) PROVE Cardinality(Signals(d)) <= 1
      <4>1. Signals(d) = {j}
        BY <2>2, <3>2 DEF Signals, NoticeInv, AloneSendsOnce
      <4> QED
        BY <4>1, FS_Singleton
    <3> QED
      BY <3>1, <3>2
  <2> QED
    BY <2>1, <2>2
<1> QED
  BY <1>1, InitNoticeInv, NextNoticeInv, PTL DEF Spec
=============================================================================
