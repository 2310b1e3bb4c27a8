----------------------------- MODULE VendorProofs -----------------------------
(***************************************************************************)
(* Two clients of a vendor.  ModelCalls: a spent quota costs no answer,    *)
(* for every quota, share of others and number of requests, and every      *)
(* window up to the sum of the waits: as long as a request has met nothing *)
(* but the quota, it is either still in the window of its first refusal,   *)
(* and then has used up that much of it, or it has just come into a fresh  *)
(* one.                                                                    *)
(*                                                                         *)
(* VendorFetch: a stored series is whole, weighs each row once and agrees  *)
(* with the others of its file, for every descriptor, collection, page     *)
(* length and interleaving with the vendor: between two pages all rows up  *)
(* to the offset or the cursor have been read, wherever rows are added; a  *)
(* payload is all that its path served at one moment since the run began;  *)
(* and what the endpoints yield never shares a date.                       *)
(*                                                                         *)
(* Of both, what their liveness needs beside fairness: each step takes     *)
(* from what is left of the call, or of the run, and what is left cannot   *)
(* go down for ever.                                                       *)
(***************************************************************************)
EXTENDS ModelCalls, VendorFetch, SequenceTheorems, FiniteSetTheorems, WellFoundedInduction, TLAPS

(***************************************************************************)
(* ModelCalls.                                                             *)
(***************************************************************************)
\* The least a request has slept when it failed a times.
Waited(a) == <<0, 4, 12, 28, 60, 120>>[a + 1]

CountersInRange ==
  /\ pc = "idle" => attempt = 0
  /\ pc = "wait" => attempt \in 0..4 /\ todo # 0
  /\ pc = "attempt" => attempt \in 0..5 /\ todo # 0

\* What QuotaCostsNoAnswer lacks to be inductive.
WindowIsRunningOut ==
  seen \subseteq {"quota"} =>
    /\ pc = "wait" => left + Waited(attempt) <= Window
    /\ pc = "attempt" => used = 0 \/ left + Waited(attempt) <= Window

IInv == TypeOK /\ CountersInRange /\ WindowIsRunningOut /\ QuotaCostsNoAnswer

-----------------------------------------------------------------------------
LEMMA Delays ==
  \A a \in 0..4 : /\ Delay(a) \in Nat /\ Waited(a) \in Nat
                  /\ Waited(a + 1) = Waited(a) + Delay(a)
<1>1. Delay(0) = 4 /\ Delay(1) = 8 /\ Delay(2) = 16 /\ Delay(3) = 32 /\ Delay(4) = 60
  BY DEF Delay
<1>2. /\ Waited(0) = 0 /\ Waited(1) = 4 /\ Waited(2) = 12 /\ Waited(3) = 28
      /\ Waited(4) = 60 /\ Waited(5) = 120
  BY DEF Waited
<1> SUFFICES ASSUME NEW a \in 0..4
             PROVE  /\ Delay(a) \in Nat /\ Waited(a) \in Nat
                    /\ Waited(a + 1) = Waited(a) + Delay(a)
  OBVIOUS
<1>3. a = 0 \/ a = 1 \/ a = 2 \/ a = 3 \/ a = 4
  OBVIOUS
<1>4. CASE a = 0
  BY <1>1, <1>2, <1>4
<1>5. CASE a = 1
  BY <1>1, <1>2, <1>5
<1>6. CASE a = 2
  BY <1>1, <1>2, <1>6
<1>7. CASE a = 3
  BY <1>1, <1>2, <1>7
<1>8. CASE a = 4
  BY <1>1, <1>2, <1>8
<1> QED
  BY <1>3, <1>4, <1>5, <1>6, <1>7, <1>8

\* Sleeping either uses up the window or comes into a fresh one.
LEMMA SleepEffect ==
  ASSUME TypeOK, NEW d \in Nat, Sleep(d)
  PROVE  /\ left' \in 1..Window /\ used' \in 0..Quota
         /\ used' = 0 \/ left' = left - d
<1>1. Window \in Nat \ {0} /\ Quota \in Nat /\ left \in 1..Window /\ used \in 0..Quota
  BY VendorAssumption DEF TypeOK, TotalWait
<1>2. CASE d < left
  <2>1. left' = left - d /\ used' = used
    BY <1>2 DEF Sleep
  <2> QED
    BY <1>1, <1>2, <2>1
<1>3. CASE ~(d < left)
  <2> DEFINE r == (d - left) % Window
  <2>1. left' = Window - r /\ used' = 0
    BY <1>3 DEF Sleep
  <2>2. r \in 0..(Window - 1)
    BY <1>1
  <2> HIDE DEF r
  <2> QED
    BY <1>1, <2>1, <2>2
<1> QED
  BY <1>2, <1>3

-----------------------------------------------------------------------------
LEMMA InitIInv == Init => IInv
<1> SUFFICES ASSUME Init PROVE IInv
  OBVIOUS
<1>1. payloads \in Seq(Answer)
  BY EmptySeq DEF Init
<1>2. TypeOK
  BY <1>1, VendorAssumption DEF Init, TypeOK, MaxAttempts
<1> QED
  BY <1>2 DEF Init, IInv, CountersInRange, WindowIsRunningOut, QuotaCostsNoAnswer

\* A request that is done with makes room for one that has waited for nothing.
LEMMA NextRequest ==
  ASSUME IInv, pc = "attempt", NEW answer \in Answer, Append1(answer),
         backend' = backend, left' = left, used' \in 0..Quota,
         lost' \subseteq SUBSET Error, {"quota"} \notin lost'
  PROVE  IInv'
<1> USE DEF IInv, TypeOK, Append1, Goto
<1>1. payloads' \in Seq(Answer)
  BY AppendProperties
<1>2. todo' \in 0..MaxN
  BY VendorAssumption DEF CountersInRange
<1>3. TypeOK'
  BY <1>1, <1>2 DEF MaxAttempts
<1>4. Waited(0) = 0 /\ left \in Int /\ Window \in Int /\ left <= Window
  BY VendorAssumption DEF Waited, TotalWait
<1>5. left' + Waited(attempt') <= Window
  BY <1>4
<1> QED
  BY <1>3, <1>5 DEF CountersInRange, WindowIsRunningOut, QuotaCostsNoAnswer

LEMMA AnswersStep ==
  ASSUME IInv, NEW others \in 0..Others, VendorAnswers(others)
  PROVE  IInv'
<1>1. PICK answer \in Answer : Append1(answer)
  BY DEF VendorAnswers
<1>2. used' \in 0..Quota
  BY VendorAssumption DEF VendorAnswers, IInv, TypeOK
<1>3. lost' \subseteq SUBSET Error /\ {"quota"} \notin lost'
  BY DEF VendorAnswers, IInv, TypeOK, QuotaCostsNoAnswer
<1> QED
  BY <1>1, <1>2, <1>3, NextRequest DEF VendorAnswers

\* The heart of the argument: by the last attempt the quota cannot be what is refused.
LEMMA QuotaStep ==
  ASSUME IInv, NEW others \in 0..Others, QuotaSpent(others), seen \subseteq {"quota"}
  PROVE  ~LastAttempt /\ left + Waited(attempt) <= Window
<1>1. pc = "attempt" /\ used + others >= Quota
  BY DEF QuotaSpent, VendorFails
<1>2. used # 0
  BY <1>1, VendorAssumption DEF IInv, TypeOK
<1>3. left + Waited(attempt) <= Window
  BY <1>1, <1>2 DEF IInv, WindowIsRunningOut
<1>4. left \in Nat /\ left > 0 /\ Window \in Nat /\ Window <= 120
  BY VendorAssumption DEF IInv, TypeOK, TotalWait
<1>5. Waited(5) = 120
  BY DEF Waited
<1>6. attempt # 5
  BY <1>3, <1>4, <1>5
<1> QED
  BY <1>3, <1>6 DEF LastAttempt, MaxAttempts

LEMMA FailsStep ==
  ASSUME IInv, NEW error \in Error, VendorFails(error),
         error = "quota" /\ seen \subseteq {"quota"} =>
           ~LastAttempt /\ left + Waited(attempt) <= Window
  PROVE  IInv'
<1>1. pc = "attempt" /\ attempt \in 0..5 /\ todo # 0
  BY DEF VendorFails, IInv, CountersInRange
<1>2. CASE Retryable(error) /\ ~LastAttempt
  <2>1. /\ pc' = "wait" /\ seen' = seen \union {error}
        /\ UNCHANGED <<todo, payloads, attempt, lost, backend, left, used>>
    BY <1>2 DEF VendorFails, Goto, vendor
  <2>2. attempt \in 0..4
    BY <1>1, <1>2 DEF LastAttempt, MaxAttempts
  <2>3. TypeOK'
    BY <2>1 DEF IInv, TypeOK
  <2>4. seen' \subseteq {"quota"} => error = "quota" /\ seen \subseteq {"quota"}
    BY <2>1
  <2>5. WindowIsRunningOut'
    BY <2>1, <2>4 DEF WindowIsRunningOut, Waited
  <2> QED
    BY <1>1, <2>1, <2>2, <2>3, <2>5 DEF IInv, CountersInRange, QuotaCostsNoAnswer
<1>3. CASE ~(Retryable(error) /\ ~LastAttempt)
  <2>1. lost' = lost \union {seen \union {error}} /\ UNCHANGED <<backend, left, used>>
    BY <1>3 DEF VendorFails, vendor
  <2>2. seen \union {error} # {"quota"}
    <3> SUFFICES ASSUME seen \union {error} = {"quota"} PROVE FALSE
      OBVIOUS
    <3>1. error = "quota" /\ seen \subseteq {"quota"}
      OBVIOUS
    <3> QED
      BY <1>3, <3>1 DEF Retryable
  <2>3. lost' \subseteq SUBSET Error /\ {"quota"} \notin lost'
    BY <2>1, <2>2 DEF IInv, TypeOK, QuotaCostsNoAnswer
  <2>4. CASE backend = "gemini"
    <3>1. Append1("unparseable")
      BY <1>3, <2>4 DEF VendorFails
    <3>2. used' \in 0..Quota /\ "unparseable" \in Answer
      BY <2>1 DEF IInv, TypeOK, Answer
    <3> QED
      BY <1>1, <2>1, <2>3, <3>1, <3>2, NextRequest
  <2>5. CASE backend # "gemini"
    <3>1. pc' = "raised" /\ payloads' = <<>> /\ UNCHANGED <<todo, attempt, seen>>
      BY <1>3, <2>5 DEF VendorFails, Goto
    <3>2. payloads' \in Seq(Answer)
      BY <3>1, EmptySeq
    <3>3. TypeOK'
      BY <2>1, <2>3, <3>1, <3>2 DEF IInv, TypeOK
    <3> QED
      BY <2>3, <3>1, <3>3
         DEF IInv, CountersInRange, WindowIsRunningOut, QuotaCostsNoAnswer
  <2> QED
    BY <2>4, <2>5
<1> QED
  BY <1>2, <1>3

LEMMA WaitStep ==
  ASSUME IInv, NEW jitter \in 0..15, Wait(jitter)
  PROVE  IInv'
<1>1. /\ pc = "wait" /\ pc' = "attempt" /\ attempt' = attempt + 1
      /\ Sleep(Delay(attempt) + jitter)
      /\ UNCHANGED <<backend, todo, payloads, seen, lost>>
  BY DEF Wait, Goto, request
<1>2. attempt \in 0..4 /\ todo # 0
  BY <1>1 DEF IInv, CountersInRange
<1>3. /\ Delay(attempt) \in Nat /\ Waited(attempt) \in Nat
      /\ Waited(attempt + 1) = Waited(attempt) + Delay(attempt)
  BY <1>2, Delays
<1>4. /\ left' \in 1..Window /\ used' \in 0..Quota
      /\ used' = 0 \/ left' = left - (Delay(attempt) + jitter)
  <2>1. Delay(attempt) + jitter \in Nat
    BY <1>3
  <2> QED
    BY <1>1, <2>1, SleepEffect DEF IInv
<1>5. TypeOK'
  BY <1>1, <1>2, <1>4 DEF IInv, TypeOK, MaxAttempts
<1>6. WindowIsRunningOut'
  <2> SUFFICES ASSUME seen' \subseteq {"quota"}, used' # 0
               PROVE  left' + Waited(attempt') <= Window
    BY <1>1 DEF WindowIsRunningOut
  <2>1. left + Waited(attempt) <= Window
    BY <1>1 DEF IInv, WindowIsRunningOut
  <2>2. left \in Int /\ Window \in Int
    BY VendorAssumption DEF IInv, TypeOK, TotalWait
  <2>3. Waited(attempt') = Waited(attempt) + Delay(attempt)
    BY <1>1, <1>3
  <2> QED
    BY <1>3, <1>4, <2>1, <2>2, <2>3
<1> QED
  BY <1>1, <1>2, <1>5, <1>6 DEF IInv, CountersInRange, QuotaCostsNoAnswer

LEMMA CompleteStep ==
  ASSUME IInv, NEW n \in 0..MaxN, Complete(n) \/ CompleteStub(n)
  PROVE  IInv'
<1>1. CASE Complete(n)
  <2>1. /\ pc = "idle" /\ pc' \in {"returned", "attempt"} /\ todo' = n
        /\ pc' = "attempt" => n # 0
        /\ UNCHANGED <<backend, payloads, attempt, seen, lost, left, used>>
    BY <1>1 DEF Complete, Goto, retries, vendor
  <2>2. TypeOK'
    BY <2>1 DEF IInv, TypeOK
  <2>3. attempt' = 0 /\ Waited(0) = 0
    BY <2>1 DEF IInv, CountersInRange, Waited
  <2>4. left' + Waited(attempt') <= Window
    BY <2>1, <2>3, VendorAssumption DEF IInv, TypeOK, TotalWait
  <2> QED
    BY <2>1, <2>2, <2>3, <2>4
       DEF IInv, CountersInRange, WindowIsRunningOut, QuotaCostsNoAnswer
<1>2. CASE CompleteStub(n)
  <2>1. /\ pc' = "returned"
        /\ UNCHANGED <<backend, todo, attempt, seen, lost, left, used>>
    BY <1>2 DEF CompleteStub, Goto, retries, vendor
  <2>2. PICK m \in 0..n : payloads' = [i \in 1..m |-> "payload"]
    BY <1>2 DEF CompleteStub
  <2>3. payloads' \in [1..m -> Answer] /\ m \in Nat
    BY <2>2 DEF Answer
  <2>4. payloads' \in Seq(Answer)
    BY <2>3, SeqDef
  <2> QED
    BY <2>1, <2>4
       DEF IInv, TypeOK, CountersInRange, WindowIsRunningOut, QuotaCostsNoAnswer
<1> QED
  BY <1>1, <1>2

LEMMA NextIInv == IInv /\ [Next]_vars => IInv'
<1> SUFFICES ASSUME IInv, [Next]_vars PROVE IInv'
  OBVIOUS
<1>1. ASSUME NEW n \in 0..MaxN, Complete(n) \/ CompleteStub(n) PROVE IInv'
  BY <1>1, CompleteStep
<1>2. ASSUME NEW others \in 0..Others, VendorAnswers(others) PROVE IInv'
  BY <1>2, AnswersStep
<1>3. ASSUME NEW others \in 0..Others, QuotaSpent(others) PROVE IInv'
  <2>1. VendorFails("quota") /\ "quota" \in Error
    BY <1>3 DEF QuotaSpent, Error
  <2>2. seen \subseteq {"quota"} => ~LastAttempt /\ left + Waited(attempt) <= Window
    BY <1>3, QuotaStep
  <2> QED
    BY <2>1, <2>2, FailsStep
<1>4. ASSUME NEW error \in Troubles, VendorFails(error) PROVE IInv'
  <2>1. error \in Error /\ error # "quota"
    BY VendorAssumption DEF Error
  <2> QED
    BY <1>4, <2>1, FailsStep
<1>5. ASSUME NEW jitter \in 0..15, Wait(jitter) PROVE IInv'
  BY <1>5, WaitStep
<1>6. CASE UNCHANGED vars
  BY <1>6 DEF vars, request, retries, vendor, IInv, TypeOK, CountersInRange,
              WindowIsRunningOut, QuotaCostsNoAnswer
<1> QED
  BY <1>1, <1>2, <1>3, <1>4, <1>5, <1>6 DEF Next, Step

-----------------------------------------------------------------------------
\* IInv holds in every reachable state.
LEMMA Invariance == Spec => []IInv
<1>1. Init => IInv
  BY InitIInv
<1>2. IInv /\ [Next]_vars => IInv'
  BY NextIInv
<1> QED
  BY <1>1, <1>2, PTL DEF Spec

\* The call's state keeps its types.
THEOREM TypeCorrect == Spec => []TypeOK
<1>1. IInv => TypeOK
  BY DEF IInv
<1> QED
  BY <1>1, Invariance, PTL

\* For every window of up to 120 seconds, quota and number of requests, no request is
\* given up because the quota was spent (_call_with_backoff).
THEOREM QuotaOutwaited == Spec => []QuotaCostsNoAnswer
<1>1. IInv => QuotaCostsNoAnswer
  BY DEF IInv
<1> QED
  BY <1>1, Invariance, PTL

-----------------------------------------------------------------------------
\* What a call has before it at most: an attempt and a wait for each attempt a request has left.
StepsLeft ==
  IF pc \in {"attempt", "wait"}
    THEN 2 * MaxAttempts * todo - 2 * attempt - (IF pc = "wait" THEN 1 ELSE 0)
    ELSE 0

\* While a call lasts it has steps left.
LEMMA StepsAreLeft ==
  ASSUME IInv
  PROVE  /\ StepsLeft \in 0..(12 * MaxN)
         /\ pc = "attempt" => StepsLeft = 12 * todo - 2 * attempt /\ StepsLeft > 1
         /\ pc = "wait" => StepsLeft = 12 * todo - 2 * attempt - 1 /\ StepsLeft > 2
<1>1. todo \in 0..MaxN /\ attempt \in Nat /\ MaxN \in Nat
  BY VendorAssumption DEF IInv, TypeOK
<1>2. CASE pc = "attempt"
  <2>1. StepsLeft = 12 * todo - 2 * attempt
    BY <1>1, <1>2 DEF StepsLeft, MaxAttempts
  <2>2. todo > 0 /\ attempt <= 5
    BY <1>1, <1>2 DEF IInv, CountersInRange
  <2> QED
    BY <1>1, <1>2, <2>1, <2>2
<1>3. CASE pc = "wait"
  <2>1. StepsLeft = 12 * todo - 2 * attempt - 1
    BY <1>1, <1>3 DEF StepsLeft, MaxAttempts
  <2>2. todo > 0 /\ attempt <= 4
    BY <1>1, <1>3 DEF IInv, CountersInRange
  <2> QED
    BY <1>1, <1>3, <2>1, <2>2
<1>4. CASE pc \notin {"attempt", "wait"}
  BY <1>1, <1>4 DEF StepsLeft
<1> QED
  BY <1>2, <1>3, <1>4

\* A request done with, answered or given up, takes the attempts it did not use along.
LEMMA AppendTakesSteps ==
  ASSUME IInv, pc = "attempt", NEW answer, Append1(answer)
  PROVE  StepsLeft' < StepsLeft
<1>1. StepsLeft = 12 * todo - 2 * attempt /\ StepsLeft > 1
  BY StepsAreLeft
<1>2. todo \in Nat /\ attempt \in 0..5 /\ todo # 0
  BY VendorAssumption DEF IInv, TypeOK, CountersInRange
<1>3. todo' = todo - 1 /\ attempt' = 0 /\ pc' \in {"returned", "attempt"}
  BY DEF Append1, Goto
<1>4. CASE pc' = "returned"
  <2>1. StepsLeft' = 0
    BY <1>4 DEF StepsLeft
  <2> QED
    BY <1>1, <2>1
<1>5. CASE pc' = "attempt"
  <2>1. StepsLeft' = 12 * (todo - 1)
    BY <1>2, <1>3, <1>5 DEF StepsLeft, MaxAttempts
  <2> QED
    BY <1>1, <1>2, <2>1
<1> QED
  BY <1>3, <1>4, <1>5

LEMMA FailureTakesSteps ==
  ASSUME IInv, NEW error, VendorFails(error)
  PROVE  StepsLeft' < StepsLeft
<1>0. pc = "attempt"
  BY DEF VendorFails
<1>1. StepsLeft = 12 * todo - 2 * attempt /\ StepsLeft > 1
  BY <1>0, StepsAreLeft
<1>2. todo \in Nat /\ attempt \in Nat
  BY VendorAssumption DEF IInv, TypeOK
<1>3. CASE Retryable(error) /\ ~LastAttempt
  <2>1. pc' = "wait" /\ UNCHANGED <<todo, attempt>>
    BY <1>3 DEF VendorFails, Goto
  <2>2. StepsLeft' = 12 * todo - 2 * attempt - 1
    BY <1>2, <2>1 DEF StepsLeft, MaxAttempts
  <2> QED
    BY <1>1, <1>2, <2>2
<1>4. CASE ~(Retryable(error) /\ ~LastAttempt)
  <2>1. CASE backend = "gemini"
    BY <1>0, <1>4, <2>1, AppendTakesSteps DEF VendorFails
  <2>2. CASE backend # "gemini"
    <3>1. pc' = "raised"
      BY <1>4, <2>2 DEF VendorFails, Goto
    <3>2. StepsLeft' = 0
      BY <3>1 DEF StepsLeft
    <3> QED
      BY <1>1, <3>2
  <2> QED
    BY <2>1, <2>2
<1> QED
  BY <1>3, <1>4

LEMMA WaitTakesSteps ==
  ASSUME IInv, NEW jitter, Wait(jitter)
  PROVE  StepsLeft' < StepsLeft
<1>1. pc = "wait" /\ pc' = "attempt" /\ attempt' = attempt + 1 /\ todo' = todo
  BY DEF Wait, Goto, request
<1>2. StepsLeft = 12 * todo - 2 * attempt - 1
  BY <1>1, StepsAreLeft
<1>3. todo \in Nat /\ attempt \in Nat
  BY VendorAssumption DEF IInv, TypeOK
<1>4. StepsLeft' = 12 * todo - 2 * (attempt + 1)
  BY <1>1, <1>3 DEF StepsLeft, MaxAttempts
<1> QED
  BY <1>2, <1>3, <1>4

\* _call_with_backoff and the loops over the requests: whatever the vendor answers, a
\* call has at most twelve steps a request, each takes one, and it has none left only when it
\* is over.  This is what Answered needs beside the fairness of the steps.
THEOREM CallsUseUpTheirSteps ==
  Spec => [][/\ StepsLeft' \in 0..(12 * MaxN)
             /\ Step => StepsLeft' < StepsLeft
             /\ StepsLeft' = 0 => pc' \in {"idle", "returned", "raised"}]_vars
<1> DEFINE Progress == /\ StepsLeft' \in 0..(12 * MaxN)
                       /\ Step => StepsLeft' < StepsLeft
                       /\ StepsLeft' = 0 => pc' \in {"idle", "returned", "raised"}
<1>1. IInv => /\ StepsLeft \in 0..(12 * MaxN)
              /\ StepsLeft = 0 => pc \in {"idle", "returned", "raised"}
  BY StepsAreLeft DEF IInv, TypeOK
<1>2. (IInv => /\ StepsLeft \in 0..(12 * MaxN)
               /\ StepsLeft = 0 => pc \in {"idle", "returned", "raised"})'
  BY <1>1, PTL
<1>3. IInv /\ IInv' /\ [Next]_vars => [Progress]_vars
  <2> SUFFICES ASSUME IInv, IInv' PROVE Progress
    OBVIOUS
  <2>1. Step => StepsLeft' < StepsLeft
    <3>1. ASSUME NEW others \in 0..Others, VendorAnswers(others) PROVE StepsLeft' < StepsLeft
      BY <3>1, AppendTakesSteps DEF VendorAnswers
    <3>2. ASSUME NEW others \in 0..Others, QuotaSpent(others) PROVE StepsLeft' < StepsLeft
      BY <3>2, FailureTakesSteps DEF QuotaSpent
    <3>3. ASSUME NEW error \in Troubles, VendorFails(error) PROVE StepsLeft' < StepsLeft
      BY <3>3, FailureTakesSteps
    <3>4. ASSUME NEW jitter \in 0..15, Wait(jitter) PROVE StepsLeft' < StepsLeft
      BY <3>4, WaitTakesSteps
    <3> QED
      BY <3>1, <3>2, <3>3, <3>4 DEF Step
  <2> QED
    BY <1>2, <2>1
<1> QED
  BY <1>3, Invariance, PTL DEF Spec

-----------------------------------------------------------------------------
(***************************************************************************)
(* VendorFetch: positions, pages and what is served.                       *)
(***************************************************************************)
\* Times an endpoint has: its shard, and what was published since if it is the newest.
TimesOf(e) == Shards[e] \union (IF e = Newest THEN (Begun + 1)..clock ELSE {})

\* What a path serves: every row of its instruments and times, once.
ShelvesHold ==
  \A path \in Paths :
    /\ shelf[path] \in Seq(Row) /\ IsInjective(shelf[path])
    /\ Range(shelf[path]) = RowsOf(Carried(path), TimesOf(path[1]))

\* The loop is in doubt about what it has seen: rows move to later pages.
Shifts == cfg.mode = "offset" /\ cfg.grows = "front"

\* The rows up to a position have been read: those of the shard are among the elements, and
\* unless rows shift an element is one of them and was taken once.
ReadUpTo(some, rows, n, e) ==
  /\ \A row \in Row : some[row] > 0 => Kept(row) /\ row \in Range(rows)
  /\ \A i \in 1..n : rows[i].time \in Shards[e] /\ Kept(rows[i]) => some[rows[i]] > 0
  /\ ~Shifts => \A row \in Row :
       some[row] <= 1 /\ (some[row] > 0 => \E i \in 1..n : rows[i] = row)

-----------------------------------------------------------------------------
LEMMA ConstantFacts ==
  /\ Len(Keys) \in Nat \ {0} /\ DOMAIN Keys = 1..Len(Keys) /\ 1 \in DOMAIN Keys
  /\ \A i \in DOMAIN Keys : Keys[i] \in Instruments /\ Keys[i] # Other /\ Keys[i] # All
  /\ Newest \in Nat \ {0} /\ Endpoints = 1..Newest
  /\ \A e \in Endpoints : Shards[e] \in SUBSET (1..Begun)
  /\ MaxTime \in Nat /\ Begun \in 0..MaxTime /\ PageLimit \in Nat \ {0}
<1>1. Len(Keys) \in Nat \ {0} /\ DOMAIN Keys = 1..Len(Keys) /\ 1 \in DOMAIN Keys
  BY PublisherAssumption
<1>2. \A i \in DOMAIN Keys : Keys[i] \in Instruments /\ Keys[i] # Other /\ Keys[i] # All
  BY PublisherAssumption DEF Instruments
<1>3. Newest \in Nat \ {0} /\ Endpoints = 1..Newest
  BY ShardAssumption DEF Newest, Endpoints
<1>4. \A e \in Endpoints : Shards[e] \in SUBSET (1..Begun)
  BY ShardAssumption DEF Endpoints
<1> QED
  BY <1>1, <1>2, <1>3, <1>4, PublisherAssumption

\* The position of a row that is served once is known by the row.
LEMMA PositionIsKnown ==
  ASSUME NEW rows, IsInjective(rows), NEW i \in DOMAIN rows
  PROVE  (CHOOSE j \in DOMAIN rows : rows[j] = rows[i]) = i
BY DEF IsInjective

\* What a page adds.
LEMMA PageAdds ==
  ASSUME NEW some \in [Row -> Nat], NEW page \in Seq(Row), IsInjective(page)
  PROVE  /\ Extended(some, page) \in [Row -> Nat]
         /\ \A row \in Row :
              Extended(some, page)[row] =
                some[row] + IF Kept(row) /\ row \in Range(page) THEN 1 ELSE 0
<1>1. ASSUME NEW row \in Row
      PROVE  Cardinality({i \in DOMAIN page : page[i] = row}) = IF row \in Range(page) THEN 1 ELSE 0
  <2>1. CASE row \in Range(page)
    <3>1. PICK i \in DOMAIN page : page[i] = row
      BY <2>1 DEF Range
    <3>2. {j \in DOMAIN page : page[j] = row} = {i}
      BY <3>1 DEF IsInjective
    <3> QED
      BY <2>1, <3>2, FS_Singleton
  <2>2. CASE row \notin Range(page)
    <3>1. {j \in DOMAIN page : page[j] = row} = {}
      BY <2>2 DEF Range
    <3> QED
      BY <2>2, <3>1, FS_EmptySet
  <2> QED
    BY <2>1, <2>2
<1>2. \A row \in Row : Extended(some, page)[row] =
        some[row] + IF Kept(row) /\ row \in Range(page) THEN 1 ELSE 0
  BY <1>1 DEF Extended
<1>3. Extended(some, page) \in [Row -> Nat]
  <2>1. \A row \in Row : Extended(some, page)[row] \in Nat
    BY <1>2
  <2> QED
    BY <2>1 DEF Extended
<1> QED
  BY <1>2, <1>3

\* A page is a piece of what is served.
LEMMA PageIsAPiece ==
  ASSUME NEW rows \in Seq(Row), IsInjective(rows), NEW n \in 0..Len(rows), NEW m \in n..Len(rows)
  PROVE  /\ SubSeq(rows, n + 1, m) \in Seq(Row) /\ Len(SubSeq(rows, n + 1, m)) = m - n
         /\ \A j \in 1..(m - n) : SubSeq(rows, n + 1, m)[j] = rows[n + j]
         /\ IsInjective(SubSeq(rows, n + 1, m))
         /\ Range(SubSeq(rows, n + 1, m)) = {rows[i] : i \in (n + 1)..m}
<1> DEFINE page == SubSeq(rows, n + 1, m)
<1>1. page \in Seq(Row) /\ Len(page) = m - n /\ \A j \in 1..(m - n) : page[j] = rows[n + j]
  OBVIOUS
<1>2. DOMAIN page = 1..(m - n)
  BY <1>1
<1> HIDE DEF page
<1>3. IsInjective(page)
  <2> SUFFICES ASSUME NEW i \in 1..(m - n), NEW j \in 1..(m - n), page[i] = page[j] PROVE i = j
    BY <1>2 DEF IsInjective
  <2>1. n + i \in DOMAIN rows /\ n + j \in DOMAIN rows /\ rows[n + i] = rows[n + j]
    BY <1>1
  <2>2. n + i = n + j
    BY <2>1 DEF IsInjective
  <2> QED
    BY <2>2
<1>4. Range(page) = {rows[i] : i \in (n + 1)..m}
  <2>1. Range(page) = {page[j] : j \in 1..(m - n)}
    BY <1>2 DEF Range
  <2>2. ASSUME NEW j \in 1..(m - n) PROVE \E i \in (n + 1)..m : page[j] = rows[i]
    <3>1. n + j \in (n + 1)..m
      OBVIOUS
    <3> QED
      BY <3>1, <1>1
  <2>3. ASSUME NEW i \in (n + 1)..m PROVE \E j \in 1..(m - n) : page[j] = rows[i]
    <3>1. i - n \in 1..(m - n) /\ n + (i - n) = i
      OBVIOUS
    <3>2. page[i - n] = rows[n + (i - n)]
      BY <3>1, <1>1
    <3> QED
      BY <3>1, <3>2
  <2>4. {page[j] : j \in 1..(m - n)} \subseteq {rows[i] : i \in (n + 1)..m}
    BY <2>2
  <2>5. {rows[i] : i \in (n + 1)..m} \subseteq {page[j] : j \in 1..(m - n)}
    BY <2>3
  <2> QED
    BY <2>1, <2>4, <2>5
<1> QED
  BY <1>1, <1>3, <1>4 DEF page

\* Reading a page on takes the position on.
LEMMA PageIsRead ==
  ASSUME NEW rows \in Seq(Row), IsInjective(rows), NEW n \in 0..Len(rows), NEW m \in n..Len(rows),
         NEW some \in [Row -> Nat], NEW e, ReadUpTo(some, rows, n, e)
  PROVE  ReadUpTo(Extended(some, SubSeq(rows, n + 1, m)), rows, m, e)
<1> DEFINE page == SubSeq(rows, n + 1, m)
           more == Extended(some, page)
<1>1. /\ page \in Seq(Row) /\ IsInjective(page)
      /\ Range(page) = {rows[i] : i \in (n + 1)..m}
  BY PageIsAPiece
<1> HIDE DEF page
<1>2. \A row \in Row : more[row] = some[row] + IF Kept(row) /\ row \in Range(page) THEN 1 ELSE 0
  BY <1>1, PageAdds
<1> HIDE DEF more
<1>3. /\ \A row \in Row : some[row] \in Nat
      /\ \A i \in 1..Len(rows) : rows[i] \in Row /\ rows[i] \in Range(rows)
      /\ \A i, j \in 1..Len(rows) : rows[i] = rows[j] => i = j
  BY DEF Range, IsInjective
<1>4. ASSUME NEW row \in Row, more[row] > 0 PROVE Kept(row) /\ row \in Range(rows)
  <2>1. CASE some[row] > 0
    BY <2>1 DEF ReadUpTo
  <2>2. CASE ~(some[row] > 0)
    <3>1. Kept(row) /\ row \in Range(page)
      BY <1>2, <1>3, <1>4, <2>2
    <3> QED
      BY <1>1, <1>3, <3>1
  <2> QED
    BY <2>1, <2>2
<1>5. ASSUME NEW i \in 1..m, rows[i].time \in Shards[e], Kept(rows[i]) PROVE more[rows[i]] > 0
  <2>0. i \in 1..Len(rows) /\ rows[i] \in Row /\ some[rows[i]] \in Nat
    BY <1>3
  <2>1. CASE i \in 1..n
    <3>1. some[rows[i]] > 0
      BY <1>5, <2>1 DEF ReadUpTo
    <3> QED
      BY <2>0, <3>1, <1>2
  <2>2. CASE i \in (n + 1)..m
    <3>1. rows[i] \in Range(page)
      BY <1>1, <2>2
    <3> QED
      BY <2>0, <3>1, <1>2, <1>5
  <2> QED
    BY <2>1, <2>2
<1>6. ASSUME ~Shifts, NEW row \in Row
      PROVE  more[row] <= 1 /\ (more[row] > 0 => \E i \in 1..m : rows[i] = row)
  <2>0. some[row] \in Nat /\ some[row] <= 1 /\ (some[row] > 0 => \E i \in 1..n : rows[i] = row)
    BY <1>3, <1>6 DEF ReadUpTo
  <2>1. CASE row \in Range(page)
    <3>1. PICK i \in (n + 1)..m : rows[i] = row
      BY <1>1, <2>1
    <3>2. ~(some[row] > 0)
      <4> SUFFICES ASSUME some[row] > 0 PROVE FALSE
        OBVIOUS
      <4>1. PICK j \in 1..n : rows[j] = row
        BY <2>0
      <4>2. i \in 1..Len(rows) /\ j \in 1..Len(rows)
        OBVIOUS
      <4>3. i = j
        BY <1>3, <3>1, <4>1, <4>2
      <4> QED
        BY <4>3
    <3>3. more[row] <= 1
      BY <1>2, <2>0, <3>2
    <3> QED
      BY <3>1, <3>3
  <2>2. CASE row \notin Range(page)
    <3>1. more[row] = some[row]
      BY <1>2, <2>0, <2>2
    <3>2. \A i \in 1..n : i \in 1..m
      OBVIOUS
    <3> QED
      BY <2>0, <3>1, <3>2
  <2> QED
    BY <2>1, <2>2
<1>7. ReadUpTo(more, rows, m, e)
  BY <1>4, <1>5, <1>6 DEF ReadUpTo
<1> QED
  BY <1>7 DEF more, page

\* Rows added at the end leave the positions as they were.
LEMMA AddedAtTheEnd ==
  ASSUME NEW rows \in Seq(Row), NEW added \in Seq(Row), NEW n \in 0..Len(rows),
         NEW some, NEW e, ReadUpTo(some, rows, n, e)
  PROVE  ReadUpTo(some, rows \o added, n, e)
<1>1. \A i \in 1..Len(rows) : (rows \o added)[i] = rows[i]
  OBVIOUS
<1>2. Range(rows) \subseteq Range(rows \o added)
  <2> SUFFICES ASSUME NEW i \in 1..Len(rows) PROVE rows[i] \in Range(rows \o added)
    BY DEF Range
  <2>1. i \in DOMAIN (rows \o added)
    OBVIOUS
  <2> QED
    BY <1>1, <2>1 DEF Range
<1>3. \A i \in 1..n : i \in 1..Len(rows)
  OBVIOUS
<1> QED
  BY <1>1, <1>2, <1>3 DEF ReadUpTo

\* Rows of later times added at the front move the others: what was read is still read up to
\* the same position, and with its position moved along it is all that was.
LEMMA AddedAtTheFront ==
  ASSUME NEW rows \in Seq(Row), NEW added \in Seq(Row), NEW n \in 0..Len(rows),
         NEW some, NEW e, ReadUpTo(some, rows, n, e),
         \A j \in 1..Len(added) : added[j].time \notin Shards[e]
  PROVE  /\ Shifts => ReadUpTo(some, added \o rows, n, e)
         /\ ReadUpTo(some, added \o rows, n + Len(added), e)
<1> DEFINE w == Len(added)
           all == added \o rows
<1>1. /\ w \in Nat /\ Len(all) = w + Len(rows)
      /\ \A i \in 1..w : all[i] = added[i]
      /\ \A i \in 1..Len(rows) : all[w + i] = rows[i]
      /\ DOMAIN all = 1..(w + Len(rows))
  OBVIOUS
<1>2. \A row \in Range(rows) : row \in Range(all)
  <2> SUFFICES ASSUME NEW i \in 1..Len(rows) PROVE rows[i] \in Range(all)
    BY DEF Range
  <2>1. w + i \in DOMAIN all
    BY <1>1
  <2> QED
    BY <1>1, <2>1 DEF Range
<1> HIDE DEF w, all
<1>3. ASSUME NEW i \in 1..(n + w), all[i].time \in Shards[e], Kept(all[i])
      PROVE  some[all[i]] > 0
  <2>1. CASE i \in 1..w
    BY <1>1, <1>3, <2>1 DEF w
  <2>2. CASE i \notin 1..w
    <3>1. i - w \in 1..n /\ i - w \in 1..Len(rows) /\ w + (i - w) = i
      BY <1>1, <2>2
    <3>2. all[i] = rows[i - w]
      BY <1>1, <3>1
    <3> QED
      BY <1>3, <3>1, <3>2 DEF ReadUpTo
  <2> QED
    BY <2>1, <2>2
<1>4. ASSUME NEW i \in 1..n PROVE w + i \in 1..(n + w) /\ all[w + i] = rows[i]
  <2>1. i \in 1..Len(rows)
    OBVIOUS
  <2>2. all[w + i] = rows[i]
    BY <1>1, <2>1
  <2>3. w + i \in 1..(n + w)
    BY <1>1
  <2> QED
    BY <2>2, <2>3
<1>5. \A i \in 1..n : i \in 1..(n + w)
  BY <1>1
<1>6. ReadUpTo(some, all, n + w, e)
  <2>1. ASSUME ~Shifts, NEW row \in Row, some[row] > 0 PROVE \E i \in 1..(n + w) : all[i] = row
    <3>1. PICK i \in 1..n : rows[i] = row
      BY <2>1 DEF ReadUpTo
    <3> QED
      BY <3>1, <1>4
  <2> QED
    BY <1>2, <1>3, <2>1 DEF ReadUpTo
<1>7. Shifts => ReadUpTo(some, all, n, e)
  BY <1>2, <1>3, <1>5 DEF ReadUpTo
<1> QED
  BY <1>6, <1>7 DEF w, all

\* Before the first page nothing has been read, of whatever is served.
LEMMA NothingIsRead ==
  ASSUME NEW some, NEW e, NEW rows, NEW others,
         \/ some = Nothing
         \/ some \in [Row -> Nat] /\ ~Shifts /\ ReadUpTo(some, rows, 0, e)
  PROVE  ReadUpTo(some, others, 0, e)
<1>1. \A row \in Row : some[row] = 0
  BY DEF Nothing, ReadUpTo
<1> QED
  BY <1>1 DEF ReadUpTo

-----------------------------------------------------------------------------
(***************************************************************************)
(* What a run keeps from step to step.                                     *)
(***************************************************************************)
\* Between two pages the rows up to the offset, or to the cursor, have been read; between two
\* endpoints nothing has.
PagesAreRead ==
  /\ step = "request" /\ cfg.mode = "offset" =>
       offset <= Len(Response) /\ ReadUpTo(elements, Response, offset, endpoint)
  /\ step = "request" /\ cfg.mode = "cursor" =>
       /\ cursor # <<>> => cursor[1] \in Range(Response)
       /\ ReadUpTo(elements, Response, Resume, endpoint)
  /\ step = "store" => offset = 0 /\ cursor = <<>> /\ elements = Nothing

\* The payload of a path is all that it served at one moment since the run began.
CacheHolds ==
  \A path \in DOMAIN cache :
    /\ cache[path] \in Seq(Row) /\ IsInjective(cache[path])
    /\ \E times \in SUBSET (1..MaxTime) :
         /\ Shards[path[1]] \subseteq times /\ times \subseteq TimesOf(path[1])
         /\ Range(cache[path]) = RowsOf(Carried(path), times)

\* What an endpoint sent has every row of its shard, each once unless rows shifted; what an
\* unpaginated one sent is its payload.
ElementsAreWhole ==
  step = "map" =>
    /\ \A row \in Row :
         elements[row] > 0 => row.key \in Carried(Path) /\ row.time \in TimesOf(endpoint)
    /\ \A row \in RowsOf(Carried(Path), Shards[endpoint]) : Kept(row) => elements[row] > 0
    /\ ~Shifts => \A row \in Row : elements[row] <= 1
    /\ cfg.mode = "none" =>
         /\ Path \in DOMAIN cache
         /\ \A row \in Row : elements[row] > 0 <=> Kept(row) /\ row \in Range(cache[Path])

\* The endpoints this series has been mapped from.
Done == {e \in Endpoints : e < endpoint \/ step = "store"}

\* An observation is of rows of its series and date; the dates are told apart.
AreOfTheirDates(found, key, times) ==
  /\ \A o \in found :
       /\ DOMAIN o.of # {}
       /\ \A row \in DOMAIN o.of : row.key = key /\ o.date = DateOf(row) /\ row.time \in times
  /\ \A o, q \in found : o.date = q.date => o = q

Include(found, key, times) ==
  \A t \in times : \E o \in found : [key |-> key, time |-> t] \in DOMAIN o.of

WeighOnce(found) ==
  ~(Shifts /\ cfg.mean) => \A o \in found : \A row \in DOMAIN o.of : o.of[row] = 1

\* The times a date is made of, in a series and in a payload of all instruments.
DateAt(t) == IF cfg.mean THEN Day(t) ELSE t
Made(found) == {[date |-> o.date, of |-> {row.time : row \in DOMAIN o.of}] : o \in found}
MadeOf(times) ==
  {[date |-> DateAt(t), of |-> {u \in times : DateAt(u) = DateAt(t)}] : t \in times}
PayloadTimes(e) == {row.time : row \in Range(cache[<<e, All>>])}
MadeOfPayloads(ends) == UNION {MadeOf(PayloadTimes(e)) : e \in ends}
PayloadsKept(ends) == \A e \in ends : <<e, All>> \in DOMAIN cache
OneSnapshot == cfg.shared /\ cfg.mode = "none"

SeriesSoFar ==
  step \in {"request", "map", "store"} =>
    /\ AreOfTheirDates(observations, Keys[at], UNION {TimesOf(e) : e \in Done})
    /\ Include(observations, Keys[at], UNION {Shards[e] : e \in Done})
    /\ WeighOnce(observations)
    /\ OneSnapshot => PayloadsKept(Done) /\ Made(observations) = MadeOfPayloads(Done)

\* What a stored series must be, to stand.
FrameHolds(k, frame) ==
  /\ Include(frame, k, 1..Begun)
  /\ \A o \in frame : \A row \in DOMAIN o.of : row.key = k /\ o.date = DateOf(row)
  /\ WeighOnce(frame)
  /\ OneSnapshot => PayloadsKept(Endpoints) /\ Made(frame) = MadeOfPayloads(Endpoints)

FramesSoFar == \A k \in DOMAIN frames : FrameHolds(k, frames[k])

FetchInv ==
  /\ FetchTypeOK /\ ShelvesHold /\ PagesAreRead /\ CacheHolds /\ ElementsAreWhole
  /\ SeriesSoFar /\ FramesSoFar

-----------------------------------------------------------------------------
LEMMA RowFacts ==
  /\ \A keys, times : \A row \in RowsOf(keys, times) :
       row.key \in keys /\ row.time \in times /\ row = [key |-> row.key, time |-> row.time]
  /\ \A keys, times : \A k \in keys, t \in times : [key |-> k, time |-> t] \in RowsOf(keys, times)
BY DEF RowsOf

LEMMA PathFacts ==
  ASSUME FetchTypeOK
  PROVE  /\ Path \in Paths /\ Path[1] = endpoint /\ Keys[at] \in Carried(Path)
         /\ ~cfg.shared => Carried(Path) = {Keys[at]}
         /\ cfg.shared => Path = <<endpoint, All>>
         /\ cfg \in Descriptor /\ Response = shelf[Path] /\ Response \in Seq(Row)
         /\ Keys[at] # Other /\ Keys[at] \in Instruments /\ endpoint \in 1..Newest
<1>1. /\ Keys[at] \in Instruments /\ Keys[at] # All /\ Keys[at] # Other
      /\ endpoint \in Endpoints /\ endpoint \in 1..Newest
  BY ConstantFacts DEF FetchTypeOK
<1>2. cfg \in Descriptor
  BY DescriptorAssumption DEF FetchTypeOK
<1>3. Path \in Paths /\ Path[1] = endpoint /\ Path[2] = IF cfg.shared THEN All ELSE Keys[at]
  BY <1>1 DEF Path, Paths
<1>4. Response = shelf[Path] /\ Response \in Seq(Row)
  BY <1>3 DEF Response, FetchTypeOK
<1> QED
  BY <1>1, <1>2, <1>3, <1>4 DEF Carried, Path

\* Times of an endpoint are times, later than its shard's unless they are in it.
LEMMA TimesFacts ==
  ASSUME FetchTypeOK, NEW e \in Endpoints
  PROVE  /\ Shards[e] \subseteq TimesOf(e) /\ Shards[e] \subseteq 1..Begun
         /\ TimesOf(e) \subseteq 1..MaxTime
         /\ \A t \in TimesOf(e) : t \notin Shards[e] => t > Begun
         /\ clock + 1 \notin TimesOf(e) /\ clock + 1 \notin Shards[e]
BY ConstantFacts DEF FetchTypeOK, TimesOf

\* A row of the instruments there are, at a time there is.
LEMMA CarriedRows ==
  ASSUME NEW path \in Paths, NEW times \in SUBSET (1..MaxTime)
  PROVE  RowsOf(Carried(path), times) \subseteq Row
<1>1. Carried(path) \subseteq Instruments \union {Other}
  BY DEF Paths, Carried
<1> QED
  BY <1>1 DEF Row, RowsOf

\* What is published at a time, for one path.
LEMMA RowsAtFacts ==
  ASSUME NEW path \in Paths, NEW t \in 1..MaxTime
  PROVE  /\ RowsAt(path, t) \in Seq(Row) /\ IsInjective(RowsAt(path, t))
         /\ Range(RowsAt(path, t)) = RowsOf(Carried(path), {t})
         /\ \A j \in 1..Len(RowsAt(path, t)) : RowsAt(path, t)[j].time = t
<1> DEFINE new == RowsAt(path, t)
<1>0. RowsOf(Carried(path), {t}) \subseteq Row
  BY CarriedRows
<1>1. CASE path[2] = All
  <2>1. Columns \in Seq(Instruments \union {Other}) /\ IsInjective(Columns)
          /\ Range(Columns) = Instruments \union {Other}
    BY PublisherAssumption
  <2>2. new = [i \in DOMAIN Columns |-> [key |-> Columns[i], time |-> t]]
    BY <1>1 DEF RowsAt
  <2>3. Carried(path) = Range(Columns)
    BY <1>1, <2>1 DEF Carried
  <2>4. Range(new) = RowsOf(Carried(path), {t})
    BY <2>2, <2>3 DEF Range, RowsOf
  <2>5. IsInjective(new)
    BY <2>1, <2>2 DEF IsInjective
  <2>6. new \in Seq(Row)
    <3>1. Len(Columns) \in Nat /\ DOMAIN Columns = 1..Len(Columns)
      BY <2>1
    <3>2. \A i \in 1..Len(Columns) : new[i] \in Row
      BY <1>0, <2>2, <2>4, <3>1 DEF Range
    <3>3. new \in [1..Len(Columns) -> Row]
      BY <2>2, <3>1, <3>2
    <3> QED
      BY <3>1, <3>3
  <2>7. \A j \in 1..Len(new) : new[j].time = t
    BY <2>2, <2>6
  <2> QED
    BY <2>4, <2>5, <2>6, <2>7
<1>2. CASE path[2] # All
  <2>1. new = <<[key |-> path[2], time |-> t]>> /\ Carried(path) = {path[2]}
    BY <1>2 DEF RowsAt, Carried
  <2>2. [key |-> path[2], time |-> t] \in Row
    BY <1>0, <2>1 DEF RowsOf
  <2>3. /\ new \in Seq(Row) /\ Len(new) = 1 /\ DOMAIN new = {1}
        /\ new[1] = [key |-> path[2], time |-> t]
    BY <2>1, <2>2
  <2> QED
    BY <2>1, <2>3 DEF Range, RowsOf, IsInjective
<1> QED
  BY <1>1, <1>2

\* Two lists without a row in common make one list of all their rows.
LEMMA Joined ==
  ASSUME NEW s \in Seq(Row), NEW t \in Seq(Row), IsInjective(s), IsInjective(t),
         Range(s) \intersect Range(t) = {}
  PROVE  /\ s \o t \in Seq(Row) /\ IsInjective(s \o t)
         /\ Range(s \o t) = Range(s) \union Range(t)
<1> DEFINE all == s \o t
           m == Len(s)
           n == Len(t)
<1>1. /\ m \in Nat /\ n \in Nat /\ all \in Seq(Row) /\ DOMAIN all = 1..(m + n)
      /\ \A i \in 1..m : all[i] = s[i]
      /\ \A i \in 1..n : all[m + i] = t[i]
      /\ DOMAIN s = 1..m /\ DOMAIN t = 1..n
  OBVIOUS
<1> HIDE DEF all, m, n
<1>2. \A i \in 1..(m + n) : i \in 1..m \/ (i - m \in 1..n /\ all[i] = t[i - m])
  <2> SUFFICES ASSUME NEW i \in 1..(m + n), i \notin 1..m
               PROVE  i - m \in 1..n /\ all[i] = t[i - m]
    OBVIOUS
  <2>1. i - m \in 1..n /\ m + (i - m) = i
    BY <1>1
  <2> QED
    BY <1>1, <2>1
<1>3. /\ \A i \in 1..m : s[i] \in Range(s)
      /\ \A i \in 1..n : t[i] \in Range(t)
  BY <1>1 DEF Range
<1>4. IsInjective(all)
  <2> SUFFICES ASSUME NEW i \in 1..(m + n), NEW j \in 1..(m + n), all[i] = all[j]
               PROVE  i = j
    BY <1>1 DEF IsInjective
  <2>1. CASE i \in 1..m /\ j \in 1..m
    BY <1>1, <2>1 DEF IsInjective
  <2>2. CASE i \in 1..m /\ j \notin 1..m
    BY <1>1, <1>2, <1>3, <2>2
  <2>3. CASE i \notin 1..m /\ j \in 1..m
    BY <1>1, <1>2, <1>3, <2>3
  <2>4. CASE i \notin 1..m /\ j \notin 1..m
    <3>1. i - m \in 1..n /\ j - m \in 1..n /\ t[i - m] = t[j - m]
      BY <1>2, <2>4
    <3>2. i - m = j - m
      BY <1>1, <3>1 DEF IsInjective
    <3> QED
      BY <1>1, <3>2
  <2> QED
    BY <2>1, <2>2, <2>3, <2>4
<1>5. Range(all) = Range(s) \union Range(t)
  <2>1. ASSUME NEW x \in Range(all) PROVE x \in Range(s) \union Range(t)
    <3>1. PICK i \in 1..(m + n) : all[i] = x
      BY <1>1, <2>1 DEF Range
    <3> QED
      BY <1>1, <1>2, <1>3, <3>1
  <2>2. ASSUME NEW i \in 1..m PROVE s[i] \in Range(all)
    <3>1. i \in DOMAIN all /\ all[i] = s[i]
      BY <1>1
    <3> QED
      BY <3>1 DEF Range
  <2>3. ASSUME NEW i \in 1..n PROVE t[i] \in Range(all)
    <3>1. m + i \in DOMAIN all /\ all[m + i] = t[i]
      BY <1>1
    <3> QED
      BY <3>1 DEF Range
  <2>4. Range(s) \subseteq Range(all) /\ Range(t) \subseteq Range(all)
    BY <1>1, <2>2, <2>3 DEF Range
  <2> QED
    BY <2>1, <2>4
<1> QED
  BY <1>1, <1>4, <1>5 DEF all

-----------------------------------------------------------------------------
(***************************************************************************)
(* What later steps leave as it was.                                       *)
(***************************************************************************)
\* The descriptor, the times there are and the payloads stay.
Remain ==
  /\ UNCHANGED cfg
  /\ \A e \in Endpoints : \A t \in TimesOf(e) : t \in TimesOf(e)'
  /\ \A path \in DOMAIN cache : path \in DOMAIN cache' /\ cache'[path] = cache[path]

LEMMA PayloadsRemain ==
  ASSUME Remain, NEW e \in Endpoints, <<e, All>> \in DOMAIN cache
  PROVE  /\ (<<e, All>> \in DOMAIN cache)'
         /\ MadeOf(PayloadTimes(e))' = MadeOf(PayloadTimes(e))
<1>1. PayloadTimes(e)' = PayloadTimes(e) /\ <<e, All>> \in DOMAIN cache'
  BY DEF PayloadTimes, Remain
<1>2. ASSUME NEW times PROVE MadeOf(times)' = MadeOf(times)
  <2>1. cfg' = cfg
    BY DEF Remain
  <2> QED
    BY <2>1 DEF MadeOf, DateAt
<1> QED
  BY <1>1, <1>2

LEMMA SeriesRemains ==
  ASSUME SeriesSoFar, Remain, UNCHANGED <<at, endpoint, observations>>,
         step' = step \/ (step = "request" /\ step' \in {"map", "failed"})
  PROVE  SeriesSoFar'
<1> SUFFICES ASSUME step' \in {"request", "map", "store"} PROVE SeriesSoFar'
  BY DEF SeriesSoFar
<1>1. Done' = Done /\ step \in {"request", "map", "store"} /\ Done \subseteq Endpoints
  BY DEF Done
<1>2. /\ AreOfTheirDates(observations, Keys[at], UNION {TimesOf(e) : e \in Done})
      /\ Include(observations, Keys[at], UNION {Shards[e] : e \in Done})
      /\ WeighOnce(observations)
      /\ OneSnapshot => PayloadsKept(Done) /\ Made(observations) = MadeOfPayloads(Done)
  BY <1>1 DEF SeriesSoFar
<1>3. AreOfTheirDates(observations, Keys[at], UNION {TimesOf(e) : e \in Done})'
  <2>1. \A t \in UNION {TimesOf(e) : e \in Done} : t \in (UNION {TimesOf(e) : e \in Done})'
    BY <1>1 DEF Remain
  <2> HIDE DEF Remain
  <2> DEFINE before == UNION {TimesOf(e) : e \in Done}
             now == (UNION {TimesOf(e) : e \in Done})'
  <2>2. \A t \in before : t \in now
    BY <2>1
  <2>3. AreOfTheirDates(observations, Keys[at], before)
    BY <1>2
  <2> HIDE DEF before
  <2>4. /\ \A o \in observations :
              /\ DOMAIN o.of # {}
              /\ \A row \in DOMAIN o.of :
                   row.key = Keys[at] /\ o.date = DateOf(row) /\ row.time \in now
        /\ \A o, q \in observations : o.date = q.date => o = q
    BY <2>2, <2>3 DEF AreOfTheirDates
  <2>5. cfg' = cfg
    BY DEF Remain
  <2> QED
    BY <2>4, <2>5 DEF AreOfTheirDates, DateOf
<1>4. Include(observations, Keys[at], UNION {Shards[e] : e \in Done})'
  BY <1>1, <1>2 DEF Include
<1>5. WeighOnce(observations)'
  BY <1>2 DEF WeighOnce, Shifts, Remain
<1>6. OneSnapshot' => PayloadsKept(Done)' /\ Made(observations)' = MadeOfPayloads(Done)'
  <2> SUFFICES ASSUME OneSnapshot'
               PROVE  PayloadsKept(Done)' /\ Made(observations)' = MadeOfPayloads(Done)'
    OBVIOUS
  <2>1. PayloadsKept(Done) /\ Made(observations) = MadeOfPayloads(Done)
    BY <1>2 DEF OneSnapshot, Remain
  <2>2. \A e \in Done : /\ (<<e, All>> \in DOMAIN cache)'
                        /\ MadeOf(PayloadTimes(e))' = MadeOf(PayloadTimes(e))
    BY <1>1, <2>1, PayloadsRemain DEF PayloadsKept
  <2>3. MadeOfPayloads(Done)' = MadeOfPayloads(Done)
    BY <1>1, <2>2 DEF MadeOfPayloads
  <2>4. PayloadsKept(Done)'
    BY <1>1, <2>2 DEF PayloadsKept
  <2>5. Made(observations)' = Made(observations)
    BY DEF Made
  <2> QED
    BY <2>1, <2>3, <2>4, <2>5
<1> QED
  BY <1>3, <1>4, <1>5, <1>6 DEF SeriesSoFar

LEMMA FrameRemains ==
  ASSUME Remain, NEW k, FrameHolds(k, frames[k]), frames'[k] = frames[k]
  PROVE  FrameHolds(k, frames[k])'
<1>0. cfg' = cfg
  BY DEF Remain
<1>1. Include(frames[k], k, 1..Begun)'
  BY DEF Include, FrameHolds
<1>2. (\A o \in frames[k] : \A row \in DOMAIN o.of : row.key = k /\ o.date = DateOf(row))'
  BY <1>0 DEF FrameHolds, DateOf
<1>3. WeighOnce(frames[k])'
  BY <1>0 DEF FrameHolds, WeighOnce, Shifts
<1>4. OneSnapshot' => PayloadsKept(Endpoints)' /\ Made(frames[k])' = MadeOfPayloads(Endpoints)'
  <2> SUFFICES ASSUME OneSnapshot'
               PROVE  PayloadsKept(Endpoints)' /\ Made(frames[k])' = MadeOfPayloads(Endpoints)'
    OBVIOUS
  <2>1. PayloadsKept(Endpoints) /\ Made(frames[k]) = MadeOfPayloads(Endpoints)
    BY <1>0 DEF OneSnapshot, FrameHolds
  <2>2. \A e \in Endpoints : /\ (<<e, All>> \in DOMAIN cache)'
                             /\ MadeOf(PayloadTimes(e))' = MadeOf(PayloadTimes(e))
    BY <2>1, PayloadsRemain DEF PayloadsKept
  <2>3. MadeOfPayloads(Endpoints)' = MadeOfPayloads(Endpoints)
    BY <2>2 DEF MadeOfPayloads
  <2>4. PayloadsKept(Endpoints)'
    BY <2>2 DEF PayloadsKept
  <2> QED
    BY <2>1, <2>3, <2>4 DEF Made
<1> QED
  BY <1>1, <1>2, <1>3, <1>4 DEF FrameHolds

LEMMA FramesRemain ==
  ASSUME FramesSoFar, Remain, UNCHANGED frames
  PROVE  FramesSoFar'
<1>1. \A k \in DOMAIN frames' : FrameHolds(k, frames[k])'
  BY FrameRemains DEF FramesSoFar
<1> QED
  BY <1>1 DEF FramesSoFar

-----------------------------------------------------------------------------
(***************************************************************************)
(* The steps.                                                              *)
(***************************************************************************)
LEMMA NothingIsNone == Nothing \in [Row -> Nat] /\ \A row \in Row : Nothing[row] = 0
BY DEF Nothing

LEMMA InitHolds == FetchInit => FetchInv
<1> SUFFICES ASSUME FetchInit PROVE FetchInv
  OBVIOUS
<1> USE DEF FetchInit
<1>1. cfg \in Descriptor /\ cfg.grows \in {"end", "front"}
  BY DescriptorAssumption DEF Descriptor
<1>2. ASSUME NEW path \in Paths
      PROVE  /\ shelf[path] \in Seq(Row) /\ IsInjective(shelf[path])
             /\ Range(shelf[path]) = RowsOf(Carried(path), TimesOf(path[1]))
  <2>1. path[1] \in Endpoints
    BY <1>2 DEF Paths
  <2>2. TimesOf(path[1]) = Shards[path[1]]
    BY ConstantFacts DEF TimesOf
  <2>3. shelf[path] = Collections[cfg.grows][path]
    BY <1>2
  <2> QED
    BY <1>1, <1>2, <2>2, <2>3, CollectionAssumption
<1>3. FetchTypeOK
  <2>1. shelf \in [Paths -> Seq(Row)]
    BY <1>2
  <2>2. /\ cache = <<>> /\ DOMAIN cache = {} /\ frames = <<>> /\ DOMAIN frames = {}
        /\ cursor \in Seq(Row)
    OBVIOUS
  <2>3. /\ at \in DOMAIN Keys /\ endpoint \in Endpoints /\ clock \in Begun..MaxTime
        /\ elements \in [Row -> Nat] /\ offset \in Nat
    BY ConstantFacts, NothingIsNone
  <2> QED
    BY <2>1, <2>2, <2>3 DEF FetchTypeOK
<1>4. ShelvesHold
  BY <1>2 DEF ShelvesHold
<1>5. PagesAreRead
  <2>1. ReadUpTo(elements, Response, 0, endpoint)
    BY NothingIsRead
  <2>2. Resume = 0
    BY DEF Resume
  <2>3. 0 <= Len(Response)
    BY <1>3, PathFacts
  <2> QED
    BY <2>1, <2>2, <2>3 DEF PagesAreRead
<1>6. CacheHolds /\ ElementsAreWhole /\ FramesSoFar
  BY DEF CacheHolds, ElementsAreWhole, FramesSoFar
<1>7. SeriesSoFar
  <2>1. Done = {}
    BY ConstantFacts DEF Done
  <2>2. AreOfTheirDates(observations, Keys[at], UNION {TimesOf(e) : e \in Done})
    BY DEF AreOfTheirDates
  <2>3. Include(observations, Keys[at], UNION {Shards[e] : e \in Done})
    BY <2>1 DEF Include
  <2>4. WeighOnce(observations) /\ PayloadsKept(Done)
    BY <2>1 DEF WeighOnce, PayloadsKept
  <2>5. Made(observations) = MadeOfPayloads(Done)
    BY <2>1 DEF Made, MadeOfPayloads
  <2> QED
    BY <2>2, <2>3, <2>4, <2>5 DEF SeriesSoFar
<1> QED
  BY <1>3, <1>4, <1>5, <1>6, <1>7 DEF FetchInv

\* The list a path serves after a row, or one of each instrument, has been added to it.
LEMMA GrownFacts ==
  ASSUME FetchInv, clock < MaxTime, NEW path \in Paths
  PROVE  /\ Grown(path, clock + 1) \in Seq(Row) /\ IsInjective(Grown(path, clock + 1))
         /\ Range(Grown(path, clock + 1)) =
              RowsOf(Carried(path), TimesOf(path[1]) \union
                                    (IF path[1] = Newest THEN {clock + 1} ELSE {}))
<1> DEFINE t == clock + 1
           later == RowsAt(path, t)
<1>0. /\ shelf[path] \in Seq(Row) /\ IsInjective(shelf[path])
      /\ Range(shelf[path]) = RowsOf(Carried(path), TimesOf(path[1]))
      /\ path[1] \in Endpoints
  BY DEF FetchInv, ShelvesHold, Paths
<1>1. t \in 1..MaxTime
  BY ConstantFacts DEF FetchInv, FetchTypeOK
<1>2. CASE path[1] # Newest
  BY <1>0, <1>2 DEF Grown
<1>3. CASE path[1] = Newest
  <2>1. /\ later \in Seq(Row) /\ IsInjective(later)
        /\ Range(later) = RowsOf(Carried(path), {t})
    BY <1>1, RowsAtFacts
  <2>2. t \notin TimesOf(path[1])
    BY <1>0, TimesFacts DEF FetchInv
  <2>3. Range(shelf[path]) \intersect Range(later) = {}
    <3> SUFFICES ASSUME NEW row, row \in Range(shelf[path]), row \in Range(later) PROVE FALSE
      OBVIOUS
    <3> QED
      BY <1>0, <2>1, <2>2, RowFacts
  <2>4. RowsOf(Carried(path), TimesOf(path[1])) \union RowsOf(Carried(path), {t})
          = RowsOf(Carried(path), TimesOf(path[1]) \union {t})
    BY DEF RowsOf
  <2> HIDE DEF later
  <2>5. CASE cfg.grows = "end"
    <3>1. Grown(path, t) = shelf[path] \o later
      BY <1>3, <2>5 DEF Grown, later
    <3> QED
      BY <1>0, <1>3, <2>1, <2>3, <2>4, <3>1, Joined
  <2>6. CASE cfg.grows # "end"
    <3>1. Grown(path, t) = later \o shelf[path]
      BY <1>3, <2>6 DEF Grown, later
    <3>2. Range(later) \intersect Range(shelf[path]) = {}
      BY <2>3
    <3>3. /\ Grown(path, t) \in Seq(Row) /\ IsInjective(Grown(path, t))
          /\ Range(Grown(path, t)) = Range(later) \union Range(shelf[path])
      BY <1>0, <2>1, <3>1, <3>2, Joined
    <3> QED
      BY <1>0, <1>3, <2>1, <2>4, <3>3
  <2> QED
    BY <2>5, <2>6
<1> QED
  BY <1>2, <1>3

\* What had been read of it is still read.
LEMMA GrownIsRead ==
  ASSUME FetchInv, clock < MaxTime, step = "request", NEW n \in 0..Len(Response),
         ReadUpTo(elements, Response, n, endpoint)
  PROVE  LET rows == Grown(Path, clock + 1) IN
         /\ Len(Response) <= Len(rows)
         /\ cfg.mode = "offset" => ReadUpTo(elements, rows, n, endpoint)
         /\ ~Shifts /\ n > 0 =>
              \E i \in DOMAIN rows : rows[i] = Response[n] /\ ReadUpTo(elements, rows, i, endpoint)
<1> DEFINE rows == Grown(Path, clock + 1)
           later == RowsAt(Path, clock + 1)
<1>0. /\ Path \in Paths /\ Path[1] = endpoint /\ Response = shelf[Path] /\ Response \in Seq(Row)
      /\ cfg \in Descriptor /\ endpoint \in Endpoints
  BY PathFacts DEF FetchInv, FetchTypeOK
<1>1. clock + 1 \in 1..MaxTime /\ clock + 1 \notin Shards[endpoint]
  BY <1>0, TimesFacts, ConstantFacts DEF FetchInv, FetchTypeOK
<1>2. later \in Seq(Row) /\ \A j \in 1..Len(later) : later[j].time = clock + 1
  BY <1>0, <1>1, RowsAtFacts
<1>3. \/ rows = Response
      \/ cfg.grows = "end" /\ rows = Response \o later
      \/ cfg.grows = "front" /\ rows = later \o Response
  BY <1>0 DEF Grown, Descriptor
<1> HIDE DEF rows, later
<1>4. CASE rows = Response
  <2>1. n > 0 => n \in DOMAIN Response
    BY <1>0
  <2> QED
    BY <1>0, <1>4, <2>1 DEF rows
<1>5. CASE cfg.grows = "end" /\ rows = Response \o later
  <2>1. ReadUpTo(elements, rows, n, endpoint)
    BY <1>0, <1>2, <1>5, AddedAtTheEnd
  <2>2. Len(Response) <= Len(rows) /\ (n > 0 => n \in DOMAIN rows /\ rows[n] = Response[n])
    BY <1>0, <1>2, <1>5
  <2> QED
    BY <2>1, <2>2 DEF rows
<1>6. CASE cfg.grows = "front" /\ rows = later \o Response
  <2>1. /\ Shifts => ReadUpTo(elements, rows, n, endpoint)
        /\ ReadUpTo(elements, rows, n + Len(later), endpoint)
    BY <1>0, <1>1, <1>2, <1>6, AddedAtTheFront
  <2>2. /\ Len(Response) <= Len(rows)
        /\ n > 0 => n + Len(later) \in DOMAIN rows /\ rows[n + Len(later)] = Response[n]
    <3>1. n + Len(later) = Len(later) + n
      BY <1>2
    <3> QED
      BY <1>0, <1>2, <1>6, <3>1
  <2>3. cfg.mode = "offset" => Shifts
    BY <1>6 DEF Shifts
  <2> QED
    BY <2>1, <2>2, <2>3 DEF rows
<1> QED
  BY <1>3, <1>4, <1>5, <1>6

LEMMA PublishStep == FetchInv /\ Publish => FetchInv'
<1> SUFFICES ASSUME FetchInv, Publish PROVE FetchInv'
  OBVIOUS
<1>0. /\ clock < MaxTime /\ clock' = clock + 1
      /\ shelf' = [path \in Paths |-> Grown(path, clock + 1)]
      /\ UNCHANGED <<cfg, at, endpoint, step, offset, cursor, elements, cache, observations,
                     frames>>
  BY DEF Publish
<1>1. FetchTypeOK'
  <2>1. shelf' \in [Paths -> Seq(Row)]
    BY <1>0, GrownFacts
  <2>2. clock' \in Begun..MaxTime
    BY <1>0, ConstantFacts DEF FetchInv, FetchTypeOK
  <2> QED
    BY <1>0, <2>1, <2>2 DEF FetchInv, FetchTypeOK
<1>2. ASSUME NEW e \in Endpoints
      PROVE  TimesOf(e)' = TimesOf(e) \union (IF e = Newest THEN {clock + 1} ELSE {})
  BY <1>0, ConstantFacts DEF TimesOf, FetchInv, FetchTypeOK
<1>3. Remain
  BY <1>0, <1>2 DEF Remain
<1>4. ShelvesHold'
  <2> SUFFICES ASSUME NEW path \in Paths
               PROVE  (/\ shelf[path] \in Seq(Row) /\ IsInjective(shelf[path])
                       /\ Range(shelf[path]) = RowsOf(Carried(path), TimesOf(path[1])))'
    BY DEF ShelvesHold
  <2>1. shelf'[path] = Grown(path, clock + 1) /\ path[1] \in Endpoints
    BY <1>0 DEF Paths
  <2> QED
    BY <1>0, <1>2, <2>1, GrownFacts
<1>5. Path' = Path /\ Path \in Paths /\ Response \in Seq(Row) /\ Response' = Grown(Path, clock + 1)
  <2>1. Path' = Path /\ Path \in Paths /\ Response \in Seq(Row)
    BY <1>0, PathFacts DEF Path, FetchInv
  <2> QED
    BY <1>0, <2>1 DEF Response
<1>6. ASSUME NEW n, ReadUpTo(elements, Response', n, endpoint)
      PROVE  ReadUpTo(elements, Response, n, endpoint)'
  BY <1>0, <1>6 DEF ReadUpTo, Kept, Shifts
<1>7. PagesAreRead'
  <2>1. ASSUME step = "request", cfg.mode = "offset"
        PROVE  (offset <= Len(Response) /\ ReadUpTo(elements, Response, offset, endpoint))'
    <3>1. offset \in 0..Len(Response) /\ ReadUpTo(elements, Response, offset, endpoint)
      BY <1>5, <2>1 DEF FetchInv, FetchTypeOK, PagesAreRead
    <3>2. Len(Response) <= Len(Response') /\ ReadUpTo(elements, Response', offset, endpoint)
      BY <1>0, <1>5, <2>1, <3>1, GrownIsRead
    <3>3. offset' <= Len(Response')
      BY <1>0, <1>1, <1>5, <3>1, <3>2, GrownFacts
    <3> QED
      BY <1>0, <1>6, <3>2, <3>3
  <2>2. ASSUME step = "request", cfg.mode = "cursor"
        PROVE  (/\ cursor # <<>> => cursor[1] \in Range(Response)
                /\ ReadUpTo(elements, Response, Resume, endpoint))'
    <3>0. ReadUpTo(elements, Response, Resume, endpoint) /\ ~Shifts
          /\ elements \in [Row -> Nat]
      BY <2>2 DEF FetchInv, FetchTypeOK, PagesAreRead, Shifts
    <3>1. CASE cursor = <<>>
      <4>1. Resume = 0 /\ Resume' = 0
        BY <1>0, <3>1 DEF Resume
      <4>2. ReadUpTo(elements, Response', 0, endpoint)
        BY <3>0, <4>1, NothingIsRead
      <4> QED
        BY <1>0, <1>6, <3>1, <4>1, <4>2
    <3>2. CASE cursor # <<>>
      <4>1. PICK n \in DOMAIN Response : Response[n] = cursor[1]
        BY <2>2, <3>2 DEF FetchInv, PagesAreRead, Range
      <4>2. IsInjective(Response)
        BY <1>5 DEF FetchInv, ShelvesHold, Response
      <4>3. Resume = n /\ n \in 0..Len(Response) /\ n > 0
        BY <1>5, <3>2, <4>1, <4>2, PositionIsKnown DEF Resume
      <4>4. PICK i \in DOMAIN Response' :
              Response'[i] = cursor[1] /\ ReadUpTo(elements, Response', i, endpoint)
        BY <1>0, <1>5, <2>2, <3>0, <4>1, <4>3, GrownIsRead
      <4>5. IsInjective(Response')
        BY <1>0, <1>5, GrownFacts
      <4>6. Resume' = i
        BY <1>0, <3>2, <4>4, <4>5, PositionIsKnown DEF Resume
      <4>7. cursor'[1] \in Range(Response')
        BY <1>0, <4>4 DEF Range
      <4>8. Range(Response)' = Range(Response')
        BY DEF Range
      <4>9. ReadUpTo(elements, Response, i, endpoint)'
        BY <1>6, <4>4
      <4> QED
        BY <1>0, <4>6, <4>7, <4>8, <4>9
    <3> QED
      BY <3>1, <3>2
  <2> QED
    BY <1>0, <2>1, <2>2 DEF PagesAreRead, FetchInv
<1>8. CacheHolds'
  <2> SUFFICES ASSUME NEW path \in DOMAIN cache
               PROVE  (/\ cache[path] \in Seq(Row) /\ IsInjective(cache[path])
                       /\ \E times \in SUBSET (1..MaxTime) :
                            /\ Shards[path[1]] \subseteq times /\ times \subseteq TimesOf(path[1])
                            /\ Range(cache[path]) = RowsOf(Carried(path), times))'
    BY <1>0 DEF CacheHolds
  <2>1. path[1] \in Endpoints
    BY DEF FetchInv, FetchTypeOK, Paths
  <2>2. /\ cache[path] \in Seq(Row) /\ IsInjective(cache[path])
        /\ \E times \in SUBSET (1..MaxTime) :
              /\ Shards[path[1]] \subseteq times /\ times \subseteq TimesOf(path[1])
              /\ Range(cache[path]) = RowsOf(Carried(path), times)
    BY DEF FetchInv, CacheHolds
  <2>3. PICK times \in SUBSET (1..MaxTime) :
          /\ Shards[path[1]] \subseteq times /\ times \subseteq TimesOf(path[1])
          /\ Range(cache[path]) = RowsOf(Carried(path), times)
    BY <2>2
  <2>4. times \subseteq TimesOf(path[1])'
    BY <1>2, <2>1, <2>3
  <2>5. /\ cache'[path] \in Seq(Row) /\ IsInjective(cache'[path])
        /\ Range(cache'[path]) = RowsOf(Carried(path), times)
    BY <1>0, <2>2, <2>3
  <2> QED
    BY <2>3, <2>4, <2>5
<1>9. ElementsAreWhole'
  <2> SUFFICES ASSUME step = "map" PROVE ElementsAreWhole'
    BY <1>0 DEF ElementsAreWhole
  <2>1. /\ \A row \in Row : elements[row] > 0 =>
             row.key \in Carried(Path) /\ row.time \in TimesOf(endpoint)
        /\ \A row \in RowsOf(Carried(Path), Shards[endpoint]) : Kept(row) => elements[row] > 0
        /\ ~Shifts => \A row \in Row : elements[row] <= 1
        /\ cfg.mode = "none" =>
             /\ Path \in DOMAIN cache
             /\ \A row \in Row : elements[row] > 0 <=> Kept(row) /\ row \in Range(cache[Path])
    BY DEF FetchInv, ElementsAreWhole
  <2>2. endpoint \in Endpoints
    BY DEF FetchInv, FetchTypeOK
  <2>3. TimesOf(endpoint)' =
          TimesOf(endpoint) \union (IF endpoint = Newest THEN {clock + 1} ELSE {})
    BY <1>0, <2>2, ConstantFacts DEF TimesOf, FetchInv, FetchTypeOK
  <2>4. (\A row \in Row : elements[row] > 0 =>
             row.key \in Carried(Path) /\ row.time \in TimesOf(endpoint))'
    BY <1>0, <1>5, <2>1, <2>3
  <2>5. (\A row \in RowsOf(Carried(Path), Shards[endpoint]) : Kept(row) => elements[row] > 0)'
    BY <1>0, <1>5, <2>1 DEF Kept
  <2>6. (~Shifts => \A row \in Row : elements[row] <= 1)'
    BY <1>0, <2>1 DEF Shifts
  <2>7. (cfg.mode = "none" =>
             /\ Path \in DOMAIN cache
             /\ \A row \in Row : elements[row] > 0 <=> Kept(row) /\ row \in Range(cache[Path]))'
    BY <1>0, <1>5, <2>1 DEF Kept
  <2> QED
    BY <2>4, <2>5, <2>6, <2>7 DEF ElementsAreWhole
<1>10. SeriesSoFar' /\ FramesSoFar'
  BY <1>0, <1>3, SeriesRemains, FramesRemain DEF FetchInv
<1> QED
  BY <1>1, <1>4, <1>7, <1>8, <1>9, <1>10 DEF FetchInv

\* A request leaves what was published, mapped and stored.
LEMMA RestRemains ==
  ASSUME FetchInv, step = "request", step' \in {"request", "map", "failed"},
         UNCHANGED <<published, at, endpoint, observations, frames>>,
         \A path \in DOMAIN cache : path \in DOMAIN cache' /\ cache'[path] = cache[path]
  PROVE  /\ ShelvesHold' /\ SeriesSoFar' /\ FramesSoFar'
         /\ cfg' = cfg /\ Path' = Path /\ Response' = Response
         /\ \A e \in Endpoints : TimesOf(e)' = TimesOf(e)
         /\ cache' = cache => CacheHolds'
<1>0. cfg' = cfg /\ shelf' = shelf /\ clock' = clock
  BY DEF published
<1>1. \A e \in Endpoints : TimesOf(e)' = TimesOf(e)
  BY <1>0 DEF TimesOf
<1>2. Remain
  BY <1>0, <1>1 DEF Remain
<1>3. ShelvesHold'
  <2>1. \A path \in Paths : path[1] \in Endpoints
    BY DEF Paths
  <2> QED
    BY <1>0, <1>1, <2>1 DEF FetchInv, ShelvesHold
<1>4. cache' = cache => CacheHolds'
  <2>1. \A path \in DOMAIN cache : path[1] \in Endpoints
    BY DEF FetchInv, FetchTypeOK, Paths
  <2> QED
    BY <1>1, <2>1 DEF FetchInv, CacheHolds
<1>5. SeriesSoFar' /\ FramesSoFar'
  BY <1>2, SeriesRemains, FramesRemain DEF FetchInv
<1> QED
  BY <1>0, <1>1, <1>3, <1>4, <1>5 DEF Path, Response

LEMMA FailStep == FetchInv /\ Fail => FetchInv'
<1> SUFFICES ASSUME FetchInv, Fail PROVE FetchInv'
  OBVIOUS
<1>1. ShelvesHold' /\ SeriesSoFar' /\ FramesSoFar' /\ CacheHolds'
  BY RestRemains DEF Fail
<1>2. FetchTypeOK'
  BY DEF FetchInv, FetchTypeOK, Fail, published
<1>3. PagesAreRead' /\ ElementsAreWhole'
  BY DEF PagesAreRead, ElementsAreWhole, Fail
<1> QED
  BY <1>1, <1>2, <1>3 DEF FetchInv

(***************************************************************************)
(* One response.                                                           *)
(***************************************************************************)
\* A payload has all that its path served at a moment since the run began.
Payload(page, path) ==
  /\ page \in Seq(Row) /\ IsInjective(page)
  /\ \E times \in SUBSET (1..MaxTime) :
       /\ Shards[path[1]] \subseteq times /\ times \subseteq TimesOf(path[1])
       /\ Range(page) = RowsOf(Carried(path), times)

LEMMA PayloadIsWhole ==
  ASSUME FetchInv, Payload(cache'[Path], Path), Path \in DOMAIN cache',
         elements' = Extended(Nothing, cache'[Path]), step' = "map", cfg.mode = "none",
         Path' = Path, endpoint' = endpoint, cfg' = cfg, TimesOf(endpoint)' = TimesOf(endpoint)
  PROVE  elements' \in [Row -> Nat] /\ ElementsAreWhole'
<1> DEFINE page == cache'[Path]
<1>0. Path[1] = endpoint /\ Path \in Paths /\ endpoint \in Endpoints
  BY PathFacts DEF FetchInv, FetchTypeOK
<1>1. PICK times \in SUBSET (1..MaxTime) :
        /\ Shards[endpoint] \subseteq times /\ times \subseteq TimesOf(endpoint)
        /\ Range(page) = RowsOf(Carried(Path), times)
  BY <1>0 DEF Payload
<1>2. page \in Seq(Row) /\ IsInjective(page)
  BY DEF Payload
<1>3. /\ elements' \in [Row -> Nat]
      /\ \A row \in Row : elements'[row] = IF Kept(row) /\ row \in Range(page) THEN 1 ELSE 0
  <2>1. /\ Extended(Nothing, page) \in [Row -> Nat]
        /\ \A row \in Row : Extended(Nothing, page)[row] =
                              Nothing[row] + IF Kept(row) /\ row \in Range(page) THEN 1 ELSE 0
    BY <1>2, PageAdds, NothingIsNone
  <2> QED
    BY <2>1, NothingIsNone
<1>4. \A row \in Row : elements'[row] > 0 <=> Kept(row) /\ row \in Range(page)
  BY <1>3
<1>5. ASSUME NEW row \in Row, elements'[row] > 0
      PROVE  row.key \in Carried(Path) /\ row.time \in TimesOf(endpoint)
  BY <1>1, <1>4, <1>5, RowFacts
<1>6. ASSUME NEW row \in RowsOf(Carried(Path), Shards[endpoint]), Kept(row)
      PROVE  elements'[row] > 0
  <2>1. row \in RowsOf(Carried(Path), times)
    BY <1>1, RowFacts
  <2>2. row \in Row
    BY <1>0, <2>1, CarriedRows
  <2> QED
    BY <1>1, <1>4, <1>6, <2>1, <2>2
<1>7. \A row \in Row : Kept(row)' <=> Kept(row)
  BY DEF Kept
<1>8. \A row \in RowsOf(Carried(Path), Shards[endpoint]) : Kept(row)' <=> Kept(row)
  BY DEF Kept
<1>9. (\A row \in Row :
         elements[row] > 0 => row.key \in Carried(Path) /\ row.time \in TimesOf(endpoint))'
  BY <1>5
<1>10. (\A row \in RowsOf(Carried(Path), Shards[endpoint]) : Kept(row) => elements[row] > 0)'
  BY <1>6, <1>8
<1>11. (~Shifts => \A row \in Row : elements[row] <= 1)'
  BY <1>3
<1>12. (/\ Path \in DOMAIN cache
        /\ \A row \in Row : elements[row] > 0 <=> Kept(row) /\ row \in Range(cache[Path]))'
  BY <1>4, <1>7
<1> QED
  BY <1>3, <1>9, <1>10, <1>11, <1>12 DEF ElementsAreWhole

LEMMA ServedIsPayload == FetchInv => Payload(Response, Path)
<1> SUFFICES ASSUME FetchInv PROVE Payload(Response, Path)
  OBVIOUS
<1>1. Path \in Paths /\ Path[1] = endpoint /\ Response = shelf[Path] /\ endpoint \in Endpoints
  BY PathFacts DEF FetchInv, FetchTypeOK
<1>2. TimesOf(endpoint) \in SUBSET (1..MaxTime) /\ Shards[endpoint] \subseteq TimesOf(endpoint)
  BY <1>1, TimesFacts DEF FetchInv
<1> QED
  BY <1>1, <1>2 DEF FetchInv, ShelvesHold, Payload

LEMMA RequestStep == FetchInv /\ Request => FetchInv'
<1> SUFFICES ASSUME FetchInv, Request PROVE FetchInv'
  OBVIOUS
<1>0. /\ step = "request" /\ cfg.mode = "none" /\ Path \notin DOMAIN cache
      /\ cache' = Put(cache, Path, Response)
      /\ elements' = Extended(Nothing, Response) /\ step' = "map"
      /\ UNCHANGED <<published, at, endpoint, offset, cursor, observations, frames>>
  BY DEF Request, Received
<1>1. /\ DOMAIN cache' = DOMAIN cache \union {Path} /\ cache'[Path] = Response
      /\ \A path \in DOMAIN cache : path \in DOMAIN cache' /\ cache'[path] = cache[path]
  BY <1>0 DEF Put
<1>2. /\ ShelvesHold' /\ SeriesSoFar' /\ FramesSoFar'
      /\ cfg' = cfg /\ Path' = Path /\ Response' = Response
      /\ \A e \in Endpoints : TimesOf(e)' = TimesOf(e)
  BY <1>0, <1>1, RestRemains
<1>3. /\ endpoint \in Endpoints /\ Path \in Paths
      /\ TimesOf(endpoint)' = TimesOf(endpoint)
  BY <1>0, <1>2, PathFacts DEF FetchInv, FetchTypeOK, TimesOf, published
<1>4. elements' \in [Row -> Nat] /\ ElementsAreWhole'
  BY <1>0, <1>1, <1>2, <1>3, ServedIsPayload, PayloadIsWhole
<1>5. FetchTypeOK'
  BY <1>0, <1>1, <1>3, <1>4 DEF FetchInv, FetchTypeOK, published
<1>6. CacheHolds'
  <2>1. ASSUME NEW path \in DOMAIN cache'
        PROVE  path[1] \in Endpoints /\ Payload(cache'[path], path)
    <3>1. CASE path = Path
      BY <1>1, <1>3, <3>1, ServedIsPayload, PathFacts DEF FetchInv
    <3>2. CASE path # Path
      BY <1>1, <2>1, <3>2 DEF FetchInv, FetchTypeOK, CacheHolds, Payload, Paths
    <3> QED
      BY <3>1, <3>2
  <2> QED
    BY <1>2, <2>1 DEF CacheHolds, Payload
<1>7. PagesAreRead'
  BY <1>0 DEF PagesAreRead
<1> QED
  BY <1>2, <1>4, <1>5, <1>6, <1>7 DEF FetchInv

LEMMA ReadCacheStep == FetchInv /\ ReadCache => FetchInv'
<1> SUFFICES ASSUME FetchInv, ReadCache PROVE FetchInv'
  OBVIOUS
<1>0. /\ step = "request" /\ cfg.mode = "none" /\ Path \in DOMAIN cache /\ cache' = cache
      /\ elements' = Extended(Nothing, cache[Path]) /\ step' = "map"
      /\ UNCHANGED <<published, at, endpoint, offset, cursor, observations, frames>>
  BY DEF ReadCache, Received
<1>1. /\ ShelvesHold' /\ SeriesSoFar' /\ FramesSoFar' /\ CacheHolds'
      /\ cfg' = cfg /\ Path' = Path
  BY <1>0, RestRemains
<1>2. TimesOf(endpoint)' = TimesOf(endpoint)
  BY <1>0 DEF TimesOf, published
<1>3. Payload(cache[Path], Path)
  BY <1>0 DEF FetchInv, CacheHolds, Payload
<1>4. elements' \in [Row -> Nat] /\ ElementsAreWhole'
  BY <1>0, <1>1, <1>2, <1>3, PayloadIsWhole
<1>5. FetchTypeOK' /\ PagesAreRead'
  BY <1>0, <1>4 DEF FetchInv, FetchTypeOK, PagesAreRead, published
<1> QED
  BY <1>1, <1>4, <1>5 DEF FetchInv

(***************************************************************************)
(* Pages.                                                                  *)
(***************************************************************************)
LEMMA PageFacts ==
  ASSUME FetchInv, NEW n \in 0..Len(Response)
  PROVE  /\ PageAfter(n) \in Seq(Row) /\ IsInjective(PageAfter(n))
         /\ PageAfter(n) = <<>> <=> n = Len(Response)
         /\ \E m \in n..Len(Response) :
              /\ PageAfter(n) = SubSeq(Response, n + 1, m) /\ Len(PageAfter(n)) = m - n
              /\ m > n => Last(PageAfter(n)) = Response[m]
<1>0. Response \in Seq(Row) /\ IsInjective(Response) /\ PageLimit \in Nat \ {0}
  BY ServedIsPayload, ConstantFacts DEF Payload
<1> DEFINE m == Min({n + PageLimit, Len(Response)})
           page == SubSeq(Response, n + 1, m)
<1>1. m = IF n + PageLimit <= Len(Response) THEN n + PageLimit ELSE Len(Response)
  <2>1. n + PageLimit \in Nat /\ Len(Response) \in Nat
    BY <1>0
  <2> HIDE <1>0
  <2> DEFINE a == n + PageLimit
             b == Len(Response)
  <2>2. a \in Nat /\ b \in Nat
    BY <2>1
  <2> HIDE DEF a, b
  <2>3. Min({a, b}) = IF a <= b THEN a ELSE b
    BY <2>2 DEF Min
  <2> QED
    BY <2>3 DEF a, b
<1>2. m \in n..Len(Response) /\ (m = n <=> n = Len(Response))
  BY <1>0, <1>1
<1>3. PageAfter(n) = page
  BY DEF PageAfter
<1> HIDE DEF m
<1>4. /\ page \in Seq(Row) /\ Len(page) = m - n /\ IsInjective(page)
      /\ \A j \in 1..(m - n) : page[j] = Response[n + j]
  BY <1>0, <1>2, PageIsAPiece
<1>5. m > n => Last(page) = Response[m]
  <2> SUFFICES ASSUME m > n PROVE Last(page) = Response[m]
    OBVIOUS
  <2>1. m - n \in 1..(m - n) /\ n + (m - n) = m
    BY <1>0, <1>2
  <2>2. page[m - n] = Response[m]
    BY <1>4, <2>1
  <2> QED
    BY <1>4, <2>2 DEF Last
<1>6. page = <<>> <=> n = Len(Response)
  <2> HIDE DEF page
  <2>1. page = <<>> <=> Len(page) = 0
    BY <1>4
  <2> QED
    BY <1>0, <1>2, <1>4, <2>1
<1> QED
  BY <1>2, <1>3, <1>4, <1>5, <1>6

\* When the last row has been read the elements are whole.
LEMMA AllIsRead ==
  ASSUME FetchInv, ReadUpTo(elements', Response, Len(Response), endpoint), cfg.mode # "none",
         Path' = Path, endpoint' = endpoint, cfg' = cfg, TimesOf(endpoint)' = TimesOf(endpoint)
  PROVE  ElementsAreWhole'
<1>0. Path \in Paths /\ Response \in Seq(Row) /\ endpoint \in Endpoints
  BY PathFacts DEF FetchInv, FetchTypeOK
<1>1. Range(Response) = RowsOf(Carried(Path), TimesOf(endpoint))
  BY PathFacts DEF FetchInv, ShelvesHold
<1>2. ASSUME NEW row \in Row, elements'[row] > 0
      PROVE  row.key \in Carried(Path) /\ row.time \in TimesOf(endpoint)
  BY <1>1, <1>2, RowFacts DEF ReadUpTo
<1>3. ASSUME NEW row \in RowsOf(Carried(Path), Shards[endpoint]), Kept(row)
      PROVE  elements'[row] > 0
  <2>1. row \in Range(Response) /\ row.time \in Shards[endpoint]
    BY <1>0, <1>1, <1>3, RowFacts, TimesFacts DEF FetchInv
  <2>2. PICK i \in 1..Len(Response) : Response[i] = row
    BY <1>0, <2>1 DEF Range
  <2> QED
    BY <1>3, <2>1, <2>2 DEF ReadUpTo
<1>4. \A row \in RowsOf(Carried(Path), Shards[endpoint]) : Kept(row)' <=> Kept(row)
  BY DEF Kept
<1>5. (\A row \in Row :
         elements[row] > 0 => row.key \in Carried(Path) /\ row.time \in TimesOf(endpoint))'
  BY <1>2
<1>6. (\A row \in RowsOf(Carried(Path), Shards[endpoint]) : Kept(row) => elements[row] > 0)'
  BY <1>3, <1>4
<1>7. (~Shifts => \A row \in Row : elements[row] <= 1)'
  BY DEF ReadUpTo, Shifts
<1> QED
  BY <1>5, <1>6, <1>7 DEF ElementsAreWhole

LEMMA RequestPageStep == FetchInv /\ RequestPage => FetchInv'
<1> SUFFICES ASSUME FetchInv, RequestPage PROVE FetchInv'
  OBVIOUS
<1> DEFINE page == PageAfter(offset)
<1>0. /\ step = "request" /\ step' = step /\ cfg.mode = "offset"
      /\ elements' = Extended(elements, page) /\ offset' = offset + Len(page)
      /\ UNCHANGED <<published, at, endpoint, cursor, cache, observations, frames>>
  BY DEF RequestPage
<1>1. /\ ShelvesHold' /\ SeriesSoFar' /\ FramesSoFar' /\ CacheHolds'
      /\ cfg' = cfg /\ Path' = Path /\ Response' = Response
  BY <1>0, RestRemains
<1>2. offset \in 0..Len(Response) /\ ReadUpTo(elements, Response, offset, endpoint)
  BY <1>0, PathFacts DEF FetchInv, FetchTypeOK, PagesAreRead
<1>3. page \in Seq(Row) /\ IsInjective(page) /\ elements \in [Row -> Nat]
  BY <1>2, PageFacts DEF FetchInv, FetchTypeOK
<1>4. PICK m \in offset..Len(Response) :
        page = SubSeq(Response, offset + 1, m) /\ Len(page) = m - offset
  BY <1>2, PageFacts
<1>5. Response \in Seq(Row) /\ IsInjective(Response)
  BY ServedIsPayload DEF Payload
<1>6. offset' = m
  BY <1>0, <1>2, <1>4, <1>5
<1>7. ReadUpTo(elements', Response, m, endpoint) /\ elements' \in [Row -> Nat]
  <2> HIDE DEF page
  <2>1. ReadUpTo(Extended(elements, SubSeq(Response, offset + 1, m)), Response, m, endpoint)
    BY <1>2, <1>3, <1>4, <1>5, PageIsRead
  <2> QED
    BY <1>0, <1>3, <1>4, <2>1, PageAdds
<1>8. (offset <= Len(Response) /\ ReadUpTo(elements, Response, offset, endpoint))'
  <2>1. offset' <= Len(Response')
    BY <1>1, <1>2, <1>4, <1>5, <1>6
  <2>2. ReadUpTo(elements, Response, offset, endpoint)'
    BY <1>0, <1>1, <1>6, <1>7 DEF ReadUpTo, Kept, Shifts
  <2> QED
    BY <2>1, <2>2
<1>9. PagesAreRead' /\ ElementsAreWhole'
  BY <1>0, <1>1, <1>8 DEF PagesAreRead, ElementsAreWhole
<1>10. FetchTypeOK'
  <2>1. offset' \in Nat
    BY <1>2, <1>4, <1>5, <1>6
  <2> QED
    BY <1>0, <1>7, <2>1 DEF FetchInv, FetchTypeOK, published
<1> QED
  BY <1>1, <1>9, <1>10 DEF FetchInv

LEMMA RequestEmptyPageStep == FetchInv /\ RequestEmptyPage => FetchInv'
<1> SUFFICES ASSUME FetchInv, RequestEmptyPage PROVE FetchInv'
  OBVIOUS
<1>0. /\ step = "request" /\ step' = "map" /\ cfg.mode = "offset" /\ PageAfter(offset) = <<>>
      /\ elements' = elements
      /\ UNCHANGED <<published, at, endpoint, offset, cursor, cache, observations, frames>>
  BY DEF RequestEmptyPage, Received
<1>1. /\ ShelvesHold' /\ SeriesSoFar' /\ FramesSoFar' /\ CacheHolds'
      /\ cfg' = cfg /\ Path' = Path
  BY <1>0, RestRemains
<1>2. offset \in 0..Len(Response) /\ ReadUpTo(elements, Response, offset, endpoint)
  BY <1>0, PathFacts DEF FetchInv, FetchTypeOK, PagesAreRead
<1>3. offset = Len(Response)
  BY <1>0, <1>2, PageFacts
<1>4. ElementsAreWhole'
  <2>1. TimesOf(endpoint)' = TimesOf(endpoint)
    BY <1>0 DEF TimesOf, published
  <2>2. ReadUpTo(elements', Response, Len(Response), endpoint)
    BY <1>0, <1>2, <1>3
  <2> QED
    BY <1>0, <1>1, <2>1, <2>2, AllIsRead
<1>5. FetchTypeOK' /\ PagesAreRead'
  BY <1>0 DEF FetchInv, FetchTypeOK, PagesAreRead, published
<1> QED
  BY <1>1, <1>4, <1>5 DEF FetchInv

\* Where a cursor resumes: after the row it names.
LEMMA ResumeFacts ==
  ASSUME FetchInv, step = "request", cfg.mode = "cursor"
  PROVE  Resume \in 0..Len(Response) /\ ReadUpTo(elements, Response, Resume, endpoint)
<1>0. Response \in Seq(Row) /\ IsInjective(Response)
  BY ServedIsPayload DEF Payload
<1>1. CASE cursor = <<>>
  BY <1>0, <1>1 DEF Resume, FetchInv, PagesAreRead
<1>2. CASE cursor # <<>>
  <2>1. PICK n \in DOMAIN Response : Response[n] = cursor[1]
    BY <1>2 DEF FetchInv, PagesAreRead, Range
  <2>2. Resume = n
    BY <1>0, <1>2, <2>1, PositionIsKnown DEF Resume
  <2> QED
    BY <1>0, <2>1, <2>2 DEF FetchInv, PagesAreRead
<1> QED
  BY <1>1, <1>2

LEMMA FollowCursorStep == FetchInv /\ FollowCursor => FetchInv'
<1> SUFFICES ASSUME FetchInv, FollowCursor PROVE FetchInv'
  OBVIOUS
<1> DEFINE n == Resume
           page == PageAfter(n)
<1>0. /\ step = "request" /\ step' = step /\ cfg.mode = "cursor"
      /\ n + Len(page) < Len(Response)
      /\ elements' = Extended(elements, page) /\ cursor' = <<Last(page)>>
      /\ UNCHANGED <<published, at, endpoint, offset, cache, observations, frames>>
  BY DEF FollowCursor
<1>1. /\ ShelvesHold' /\ SeriesSoFar' /\ FramesSoFar' /\ CacheHolds'
      /\ cfg' = cfg /\ Path' = Path /\ Response' = Response
  BY <1>0, RestRemains
<1>2. n \in 0..Len(Response) /\ ReadUpTo(elements, Response, n, endpoint)
  BY <1>0, ResumeFacts
<1>3. Response \in Seq(Row) /\ IsInjective(Response) /\ elements \in [Row -> Nat]
  BY ServedIsPayload DEF Payload, FetchInv, FetchTypeOK
<1> HIDE DEF n
<1>4. page \in Seq(Row) /\ IsInjective(page) /\ (page = <<>> <=> n = Len(Response))
  BY <1>2, PageFacts
<1>5. PICK m \in n..Len(Response) :
        /\ page = SubSeq(Response, n + 1, m) /\ Len(page) = m - n
        /\ m > n => Last(page) = Response[m]
  BY <1>2, PageFacts
<1> HIDE DEF page
<1>6. m > n /\ m \in DOMAIN Response /\ cursor' = <<Response[m]>>
  <2>1. n # Len(Response)
    BY <1>0, <1>2, <1>3, <1>4
  <2>2. page # <<>> /\ Len(page) > 0
    BY <1>4, <2>1
  <2> QED
    BY <1>0, <1>2, <1>3, <1>5, <2>2
<1>7. ReadUpTo(elements', Response, m, endpoint) /\ elements' \in [Row -> Nat]
  <2>1. ReadUpTo(Extended(elements, SubSeq(Response, n + 1, m)), Response, m, endpoint)
    BY <1>2, <1>3, <1>5, PageIsRead
  <2> QED
    BY <1>0, <1>3, <1>4, <1>5, <2>1, PageAdds
<1>8. Resume' = m
  <2>1. cursor'[1] = Response[m] /\ cursor' # <<>>
    BY <1>6
  <2> QED
    BY <1>1, <1>3, <1>6, <2>1, PositionIsKnown DEF Resume
<1>9. PagesAreRead'
  <2>1. (cursor # <<>> => cursor[1] \in Range(Response))'
    BY <1>1, <1>6 DEF Range
  <2>2. ReadUpTo(elements, Response, Resume, endpoint)'
    BY <1>0, <1>1, <1>7, <1>8 DEF ReadUpTo, Kept, Shifts
  <2> QED
    BY <1>0, <1>1, <2>1, <2>2 DEF PagesAreRead
<1>10. ElementsAreWhole'
  BY <1>0 DEF ElementsAreWhole
<1>11. FetchTypeOK'
  <2>1. Response[m] \in Row
    BY <1>3, <1>6
  <2>2. cursor' \in Seq(Row)
    BY <1>6, <2>1
  <2> QED
    BY <1>0, <1>7, <2>2 DEF FetchInv, FetchTypeOK, published
<1> QED
  BY <1>1, <1>9, <1>10, <1>11 DEF FetchInv

LEMMA LastCursorPageStep == FetchInv /\ LastCursorPage => FetchInv'
<1> SUFFICES ASSUME FetchInv, LastCursorPage PROVE FetchInv'
  OBVIOUS
<1> DEFINE n == Resume
           page == PageAfter(n)
<1>0. /\ step = "request" /\ step' = "map" /\ cfg.mode = "cursor"
      /\ n + Len(page) = Len(Response)
      /\ elements' = Extended(elements, page)
      /\ UNCHANGED <<published, at, endpoint, offset, cursor, cache, observations, frames>>
  BY DEF LastCursorPage, Received
<1>1. /\ ShelvesHold' /\ SeriesSoFar' /\ FramesSoFar' /\ CacheHolds'
      /\ cfg' = cfg /\ Path' = Path
  BY <1>0, RestRemains
<1>2. n \in 0..Len(Response) /\ ReadUpTo(elements, Response, n, endpoint)
  BY <1>0, ResumeFacts
<1>3. Response \in Seq(Row) /\ IsInjective(Response) /\ elements \in [Row -> Nat]
  BY ServedIsPayload DEF Payload, FetchInv, FetchTypeOK
<1> HIDE DEF n
<1>4. page \in Seq(Row) /\ IsInjective(page)
  BY <1>2, PageFacts
<1>5. PICK m \in n..Len(Response) :
        page = SubSeq(Response, n + 1, m) /\ Len(page) = m - n
  BY <1>2, PageFacts
<1> HIDE DEF page
<1>6. m = Len(Response)
  BY <1>0, <1>2, <1>3, <1>5
<1>7. ReadUpTo(elements', Response, m, endpoint) /\ elements' \in [Row -> Nat]
  <2>1. ReadUpTo(Extended(elements, SubSeq(Response, n + 1, m)), Response, m, endpoint)
    BY <1>2, <1>3, <1>5, PageIsRead
  <2> QED
    BY <1>0, <1>3, <1>4, <1>5, <2>1, PageAdds
<1>8. ElementsAreWhole'
  <2>1. TimesOf(endpoint)' = TimesOf(endpoint)
    BY <1>0 DEF TimesOf, published
  <2> QED
    BY <1>0, <1>1, <1>6, <1>7, <2>1, AllIsRead
<1>9. FetchTypeOK' /\ PagesAreRead'
  BY <1>0, <1>7 DEF FetchInv, FetchTypeOK, PagesAreRead, published
<1> QED
  BY <1>1, <1>8, <1>9 DEF FetchInv

(***************************************************************************)
(* Mapping an endpoint, and storing a series.                              *)
(***************************************************************************)
\* Times of two endpoints are not of one date.
LEMMA DatesApart ==
  ASSUME FetchTypeOK, NEW e \in Endpoints, NEW f \in Endpoints, e # f,
         NEW t \in TimesOf(e), NEW u \in TimesOf(f)
  PROVE  DateAt(t) # DateAt(u)
<1>1. ASSUME NEW a \in Endpoints, NEW b \in Endpoints, a # b, NEW s \in TimesOf(a)
      PROVE  s \notin Shards[b]
  <2>1. Shards[a] \intersect Shards[b] = {} /\ Shards[b] \subseteq 1..Begun
    BY <1>1, ShardAssumption, TimesFacts
  <2>2. s \in Shards[a] \/ (s \notin 1..Begun)
    BY <1>1, TimesFacts, ConstantFacts
  <2> QED
    BY <2>1, <2>2
<1>2. t \in 1..MaxTime /\ u \in 1..MaxTime /\ t \notin Shards[f] /\ u \notin Shards[e]
  BY <1>1, TimesFacts
<1>3. e # Newest \/ f # Newest
  OBVIOUS
<1>4. /\ e # Newest => t \in Shards[e]
      /\ f # Newest => u \in Shards[f]
  BY DEF TimesOf
<1>5. CASE cfg.mean
  <2>1. \A a \in Endpoints \ {Newest} :
          \A s \in Shards[a], v \in (1..MaxTime) \ Shards[a] : Day(s) # Day(v)
    BY <1>5, ShardAssumption DEF FetchTypeOK
  <2>2. CASE e # Newest
    <3>1. Day(t) # Day(u)
      BY <1>2, <1>4, <2>1, <2>2
    <3> QED
      BY <1>5, <3>1 DEF DateAt
  <2>3. CASE f # Newest
    <3>1. Day(u) # Day(t)
      BY <1>2, <1>4, <2>1, <2>3
    <3> QED
      BY <1>5, <3>1 DEF DateAt
  <2> QED
    BY <1>3, <2>2, <2>3
<1>6. CASE ~cfg.mean
  <2>1. t # u
    BY <1>2, <1>3, <1>4
  <2> QED
    BY <1>6, <2>1 DEF DateAt
<1> QED
  BY <1>5, <1>6

\* What is mapped: rows of the instrument, with every time of the shard among them.
LEMMA MappedFacts ==
  ASSUME FetchInv, step = "map"
  PROVE  /\ \A row \in Mapped : /\ row \in Row /\ elements[row] \in Nat /\ elements[row] > 0
                                /\ row.key = Keys[at] /\ row.time \in TimesOf(endpoint)
         /\ \A t \in Shards[endpoint] : [key |-> Keys[at], time |-> t] \in Mapped
         /\ ~Shifts => \A row \in Mapped : elements[row] = 1
<1>0. /\ Path \in Paths /\ Keys[at] \in Carried(Path) /\ Keys[at] # Other
      /\ ~cfg.shared => Carried(Path) = {Keys[at]}
      /\ endpoint \in Endpoints /\ elements \in [Row -> Nat]
  BY PathFacts DEF FetchInv, FetchTypeOK
<1>1. /\ \A row \in Row :
           elements[row] > 0 => row.key \in Carried(Path) /\ row.time \in TimesOf(endpoint)
      /\ \A row \in RowsOf(Carried(Path), Shards[endpoint]) : Kept(row) => elements[row] > 0
      /\ ~Shifts => \A row \in Row : elements[row] <= 1
  BY DEF FetchInv, ElementsAreWhole
<1>2. ASSUME NEW row \in Mapped
      PROVE  /\ row \in Row /\ elements[row] \in Nat /\ elements[row] > 0
             /\ row.key = Keys[at] /\ row.time \in TimesOf(endpoint)
             /\ ~Shifts => elements[row] = 1
  <2>1. row \in Row /\ elements[row] > 0 /\ (cfg.shared => row.key = Keys[at])
    BY DEF Mapped
  <2>2. elements[row] \in Nat
    BY <1>0, <2>1
  <2> QED
    BY <1>0, <1>1, <2>1, <2>2
<1>3. ASSUME NEW t \in Shards[endpoint] PROVE [key |-> Keys[at], time |-> t] \in Mapped
  <2> DEFINE row == [key |-> Keys[at], time |-> t]
  <2>1. row \in RowsOf(Carried(Path), Shards[endpoint]) /\ row.key = Keys[at]
    BY <1>0, RowFacts
  <2>2. row \in Row
    <3>1. Shards[endpoint] \in SUBSET (1..MaxTime)
      BY <1>0, TimesFacts DEF FetchInv
    <3> QED
      BY <1>0, <2>1, <3>1, CarriedRows
  <2>3. elements[row] > 0
    BY <1>0, <1>1, <2>1 DEF Kept
  <2> QED
    BY <2>1, <2>2, <2>3 DEF Mapped
<1> QED
  BY <1>2, <1>3

\* What a batch is: for each date of its rows all of them, under that date.
LEMMA BatchFacts ==
  ASSUME FetchInv, step = "map", NEW o \in Batch
  PROVE  \E row \in Mapped :
           /\ o.date = DateOf(row) /\ DOMAIN o.of = {m \in Mapped : DateOf(m) = DateOf(row)}
           /\ \A r \in DOMAIN o.of : o.of[r] = IF cfg.mean THEN elements[r] ELSE 1
           /\ o = [date |-> DateOf(row),
                   of |-> [r \in {m \in Mapped : DateOf(m) = DateOf(row)} |->
                             IF cfg.mean THEN elements[r] ELSE 1]]
<1>1. PICK row \in Mapped :
        o = [date |-> DateOf(row),
             of |-> [r \in {m \in Mapped : DateOf(m) = DateOf(row)} |->
                       IF cfg.mean THEN elements[r] ELSE 1]]
  BY DEF Batch
<1>2. /\ o.date = DateOf(row)
      /\ o.of = [r \in {m \in Mapped : DateOf(m) = DateOf(row)} |->
                   IF cfg.mean THEN elements[r] ELSE 1]
  BY <1>1
<1>3. DOMAIN o.of = {m \in Mapped : DateOf(m) = DateOf(row)}
  BY <1>2
<1>4. \A r \in DOMAIN o.of : o.of[r] = IF cfg.mean THEN elements[r] ELSE 1
  BY <1>2
<1> QED
  BY <1>1, <1>2, <1>3, <1>4

LEMMA BatchIncludes ==
  ASSUME FetchInv, step = "map", NEW row \in Mapped
  PROVE  \E o \in Batch : row \in DOMAIN o.of
<1> DEFINE same == {m \in Mapped : DateOf(m) = DateOf(row)}
           made == [r \in same |-> IF cfg.mean THEN elements[r] ELSE 1]
<1>1. [date |-> DateOf(row), of |-> made] \in Batch
  BY DEF Batch
<1>2. row \in DOMAIN made
  OBVIOUS
<1> QED
  BY <1>1, <1>2

LEMMA DateOfIsDateAt == \A row \in Row : DateOf(row) = DateAt(row.time)
BY DEF DateOf, DateAt

\* A batch from a shared payload is made of the payload's times.
LEMMA BatchIsMade ==
  ASSUME FetchInv, step = "map", OneSnapshot
  PROVE  <<endpoint, All>> \in DOMAIN cache /\ Made(Batch) = MadeOf(PayloadTimes(endpoint))
<1> DEFINE times == PayloadTimes(endpoint)
           key == Keys[at]
           Same(t) == {u \in times : DateAt(u) = DateAt(t)}
<1>0. /\ cfg.shared /\ cfg.mode = "none" /\ Path = <<endpoint, All>> /\ key \in Carried(Path)
      /\ key # Other /\ Path \in DOMAIN cache
      /\ \A row \in Row : elements[row] > 0 <=> Kept(row) /\ row \in Range(cache[Path])
  BY PathFacts DEF FetchInv, ElementsAreWhole, OneSnapshot
<1>1. PICK sent \in SUBSET (1..MaxTime) : Range(cache[Path]) = RowsOf(Carried(Path), sent)
  BY <1>0 DEF FetchInv, CacheHolds
<1>2. times = sent
  <2>1. times = {row.time : row \in RowsOf(Carried(Path), sent)}
    BY <1>0, <1>1 DEF PayloadTimes
  <2>2. \A row \in RowsOf(Carried(Path), sent) : row.time \in sent
    BY RowFacts
  <2>3. \A t \in sent : [key |-> key, time |-> t] \in RowsOf(Carried(Path), sent)
    BY <1>0, RowFacts
  <2>4. \A t \in sent : [key |-> key, time |-> t].time = t
    OBVIOUS
  <2> HIDE DEF times, key
  <2> QED
    BY <2>1, <2>2, <2>3, <2>4
<1> HIDE DEF times
<1>3. ASSUME NEW t \in times
      PROVE  [key |-> key, time |-> t] \in Mapped
  <2> DEFINE row == [key |-> key, time |-> t]
  <2>1. row \in RowsOf(Carried(Path), sent) /\ row.key = key
    BY <1>0, <1>2, <1>3, RowFacts
  <2>2. row \in Row
    <3>1. Path \in Paths
      BY PathFacts DEF FetchInv
    <3> QED
      BY <2>1, <3>1, CarriedRows
  <2>3. elements[row] > 0
    BY <1>0, <1>1, <2>1, <2>2 DEF Kept
  <2> QED
    BY <2>1, <2>2, <2>3 DEF Mapped
<1>4. ASSUME NEW row \in Mapped
      PROVE  row.time \in times /\ row = [key |-> key, time |-> row.time] /\ row \in Row
  <2>1. row \in Row /\ elements[row] > 0 /\ row.key = key
    BY MappedFacts
  <2>2. row \in RowsOf(Carried(Path), sent)
    BY <1>0, <1>1, <2>1
  <2> QED
    BY <1>2, <2>1, <2>2, RowFacts
<1>5. ASSUME NEW row \in Mapped
      PROVE  {r.time : r \in {m \in Mapped : DateOf(m) = DateOf(row)}} = Same(row.time)
  <2>1. ASSUME NEW r \in Mapped, DateOf(r) = DateOf(row) PROVE r.time \in Same(row.time)
    BY <1>4, <1>5, <2>1, DateOfIsDateAt
  <2>2. ASSUME NEW u \in Same(row.time)
        PROVE  \E r \in {m \in Mapped : DateOf(m) = DateOf(row)} : u = r.time
    <3>1. u \in times /\ DateAt(u) = DateAt(row.time)
      BY <2>2
    <3>2. [key |-> key, time |-> u] \in Mapped /\ [key |-> key, time |-> u].time = u
      BY <1>3, <3>1
    <3>3. DateOf([key |-> key, time |-> u]) = DateOf(row)
      BY <1>4, <1>5, <3>1, <3>2, DateOfIsDateAt
    <3> QED
      BY <3>2, <3>3
  <2> HIDE DEF Same
  <2> QED
    BY <2>1, <2>2
<1>6. ASSUME NEW o \in Batch
      PROVE  [date |-> o.date, of |-> {r.time : r \in DOMAIN o.of}] \in MadeOf(times)
  <2>1. PICK row \in Mapped :
          o.date = DateOf(row) /\ DOMAIN o.of = {m \in Mapped : DateOf(m) = DateOf(row)}
    BY <1>6, BatchFacts
  <2>2. {r.time : r \in DOMAIN o.of} = Same(row.time)
    BY <1>5, <2>1
  <2>3. o.date = DateAt(row.time) /\ row.time \in times
    BY <1>4, <2>1, DateOfIsDateAt
  <2> QED
    BY <2>2, <2>3 DEF MadeOf
<1>7. ASSUME NEW t \in times
      PROVE  \E o \in Batch : [date |-> DateAt(t), of |-> Same(t)] =
                              [date |-> o.date, of |-> {r.time : r \in DOMAIN o.of}]
  <2> DEFINE row == [key |-> key, time |-> t]
  <2>1. row \in Mapped /\ row.time = t
    BY <1>3
  <2> HIDE DEF row
  <2>2. PICK o \in Batch : row \in DOMAIN o.of
    BY <2>1, BatchIncludes
  <2>3. PICK r \in Mapped :
          o.date = DateOf(r) /\ DOMAIN o.of = {m \in Mapped : DateOf(m) = DateOf(r)}
    BY <2>2, BatchFacts
  <2>4. DateOf(r) = DateOf(row)
    BY <2>2, <2>3
  <2>5. {m.time : m \in DOMAIN o.of} = Same(t)
    BY <1>5, <2>1, <2>3, <2>4
  <2>6. o.date = DateAt(t)
    BY <1>4, <2>1, <2>3, <2>4, DateOfIsDateAt
  <2> QED
    BY <2>5, <2>6
<1>8. Made(Batch) \subseteq MadeOf(times)
  BY <1>6 DEF Made
<1>9. MadeOf(times) \subseteq Made(Batch)
  BY <1>7 DEF Made, MadeOf
<1> QED
  BY <1>0, <1>8, <1>9 DEF times

\* A list of observations and the batch of an endpoint not mapped yet.
LEMMA BatchJoins ==
  ASSUME FetchInv, step = "map"
  PROVE  LET ends == Done \union {endpoint}
             found == observations \union Batch
         IN  /\ AreOfTheirDates(found, Keys[at], UNION {TimesOf(e) : e \in ends})
             /\ Include(found, Keys[at], UNION {Shards[e] : e \in ends})
             /\ WeighOnce(found)
             /\ OneSnapshot => PayloadsKept(ends) /\ Made(found) = MadeOfPayloads(ends)
<1> DEFINE ends == Done \union {endpoint}
           found == observations \union Batch
           times == UNION {TimesOf(e) : e \in ends}
           key == Keys[at]
<1>0. /\ Done \subseteq Endpoints /\ endpoint \in Endpoints /\ endpoint \notin Done
      /\ FetchTypeOK
  BY ConstantFacts DEF Done, FetchInv, FetchTypeOK
<1>1. /\ AreOfTheirDates(observations, key, UNION {TimesOf(e) : e \in Done})
      /\ Include(observations, key, UNION {Shards[e] : e \in Done})
      /\ WeighOnce(observations)
      /\ OneSnapshot => PayloadsKept(Done) /\ Made(observations) = MadeOfPayloads(Done)
  BY DEF FetchInv, SeriesSoFar
<1>2. ASSUME NEW o \in Batch
      PROVE  /\ DOMAIN o.of # {}
             /\ \A row \in DOMAIN o.of :
                  /\ row \in Mapped /\ row \in Row /\ row.key = key /\ o.date = DateOf(row)
                  /\ row.time \in TimesOf(endpoint)
                  /\ o.of[row] = IF cfg.mean THEN elements[row] ELSE 1
  <2>1. PICK row \in Mapped :
          /\ o.date = DateOf(row) /\ DOMAIN o.of = {m \in Mapped : DateOf(m) = DateOf(row)}
          /\ \A r \in DOMAIN o.of : o.of[r] = IF cfg.mean THEN elements[r] ELSE 1
    BY <1>2, BatchFacts
  <2> QED
    BY <2>1, MappedFacts
<1>3. ASSUME NEW o \in observations
      PROVE  /\ DOMAIN o.of # {}
             /\ \A row \in DOMAIN o.of :
                  /\ row.key = key /\ o.date = DateOf(row)
                  /\ \E e \in Done : row.time \in TimesOf(e)
  BY <1>1, <1>3 DEF AreOfTheirDates
<1>4. ASSUME NEW o \in Batch, NEW q \in Batch, o.date = q.date PROVE o = q
  <2>1. PICK row \in Mapped :
          o = [date |-> DateOf(row),
               of |-> [r \in {m \in Mapped : DateOf(m) = DateOf(row)} |->
                         IF cfg.mean THEN elements[r] ELSE 1]]
    BY <1>4, BatchFacts
  <2>2. PICK other \in Mapped :
          q = [date |-> DateOf(other),
               of |-> [r \in {m \in Mapped : DateOf(m) = DateOf(other)} |->
                         IF cfg.mean THEN elements[r] ELSE 1]]
    BY <1>4, BatchFacts
  <2>3. DateOf(row) = DateOf(other)
    BY <1>4, <2>1, <2>2
  <2> QED
    BY <2>1, <2>2, <2>3
<1>5. ASSUME NEW o \in observations, NEW q \in Batch PROVE o.date # q.date
  <2>1. PICK r \in DOMAIN o.of : TRUE
    BY <1>3, <1>5
  <2>2. o.date = DateOf(r) /\ \E e \in Done : r.time \in TimesOf(e)
    BY <1>3, <1>5
  <2>3. PICK e \in Done : r.time \in TimesOf(e)
    BY <2>2
  <2>4. PICK s \in DOMAIN q.of : TRUE
    BY <1>2, <1>5
  <2>5. q.date = DateOf(s) /\ s.time \in TimesOf(endpoint)
    BY <1>2, <1>5
  <2>6. e \in Endpoints /\ e # endpoint
    BY <1>0
  <2>7. DateAt(r.time) # DateAt(s.time)
    BY <1>0, <2>3, <2>5, <2>6, DatesApart
  <2> QED
    BY <2>2, <2>5, <2>7 DEF DateOf, DateAt
<1>6. AreOfTheirDates(found, key, times)
  <2>1. ASSUME NEW o \in found
        PROVE  /\ DOMAIN o.of # {}
               /\ \A row \in DOMAIN o.of :
                    row.key = key /\ o.date = DateOf(row) /\ row.time \in times
    <3>1. CASE o \in observations
      BY <1>3, <3>1
    <3>2. CASE o \in Batch
      BY <1>2, <3>2
    <3> QED
      BY <3>1, <3>2
  <2>2. ASSUME NEW o \in found, NEW q \in found, o.date = q.date PROVE o = q
    <3>1. CASE o \in observations /\ q \in observations
      BY <1>1, <2>2, <3>1 DEF AreOfTheirDates
    <3>2. CASE o \in Batch /\ q \in Batch
      BY <1>4, <2>2, <3>2
    <3>3. CASE (o \in observations /\ q \in Batch) \/ (q \in observations /\ o \in Batch)
      BY <1>5, <2>2, <3>3
    <3> QED
      BY <3>1, <3>2, <3>3
  <2> HIDE DEF found, times
  <2> QED
    BY <2>1, <2>2 DEF AreOfTheirDates
<1>7. Include(found, key, UNION {Shards[e] : e \in ends})
  <2> SUFFICES ASSUME NEW e \in ends, NEW t \in Shards[e]
               PROVE  \E o \in found : [key |-> key, time |-> t] \in DOMAIN o.of
    BY DEF Include
  <2>1. CASE e \in Done
    BY <1>1, <2>1 DEF Include
  <2>2. CASE e = endpoint
    <3>1. [key |-> key, time |-> t] \in Mapped
      BY <2>2, MappedFacts
    <3> QED
      BY <3>1, BatchIncludes
  <2> QED
    BY <2>1, <2>2
<1>8. WeighOnce(found)
  <2> SUFFICES ASSUME ~(Shifts /\ cfg.mean), NEW o \in Batch, NEW row \in DOMAIN o.of
               PROVE  o.of[row] = 1
    BY <1>1 DEF WeighOnce
  <2>1. row \in Mapped /\ o.of[row] = IF cfg.mean THEN elements[row] ELSE 1
    BY <1>2
  <2> QED
    BY <2>1, MappedFacts
<1>9. OneSnapshot => PayloadsKept(ends) /\ Made(found) = MadeOfPayloads(ends)
  <2> SUFFICES ASSUME OneSnapshot PROVE PayloadsKept(ends) /\ Made(found) = MadeOfPayloads(ends)
    OBVIOUS
  <2>1. <<endpoint, All>> \in DOMAIN cache /\ Made(Batch) = MadeOf(PayloadTimes(endpoint))
    BY BatchIsMade
  <2>2. Made(found) = Made(observations) \union Made(Batch)
    BY DEF Made
  <2>3. MadeOfPayloads(ends) = MadeOfPayloads(Done) \union MadeOf(PayloadTimes(endpoint))
    BY DEF MadeOfPayloads
  <2>4. PayloadsKept(ends)
    BY <1>1, <2>1 DEF PayloadsKept
  <2> QED
    BY <1>1, <2>1, <2>2, <2>3, <2>4
<1> QED
  BY <1>6, <1>7, <1>8, <1>9

LEMMA MapElementsStep == FetchInv /\ MapElements => FetchInv'
<1> SUFFICES ASSUME FetchInv, MapElements PROVE FetchInv'
  OBVIOUS
<1>0. /\ step = "map" /\ observations' = observations \union Batch
      /\ offset' = 0 /\ cursor' = <<>> /\ elements' = Nothing
      /\ \/ endpoint < Newest /\ endpoint' = endpoint + 1 /\ step' = "request"
         \/ endpoint = Newest /\ endpoint' = endpoint /\ step' = "store"
      /\ cfg' = cfg /\ shelf' = shelf /\ clock' = clock
      /\ UNCHANGED <<at, cache, frames>>
  BY ConstantFacts DEF MapElements, published, FetchInv, FetchTypeOK
<1>1. FetchTypeOK'
  <2>1. endpoint' \in Endpoints
    BY <1>0, ConstantFacts DEF FetchInv, FetchTypeOK
  <2> QED
    BY <1>0, <2>1, NothingIsNone DEF FetchInv, FetchTypeOK
<1>2. Remain
  BY <1>0 DEF Remain, TimesOf
<1>3. ShelvesHold' /\ CacheHolds'
  <2>1. \A e \in Endpoints : TimesOf(e)' = TimesOf(e)
    BY <1>0 DEF TimesOf
  <2>2. \A path \in Paths : path[1] \in Endpoints
    BY DEF Paths
  <2>3. \A path \in DOMAIN cache : path[1] \in Endpoints
    BY <2>2 DEF FetchInv, FetchTypeOK
  <2> QED
    BY <1>0, <2>1, <2>2, <2>3 DEF FetchInv, ShelvesHold, CacheHolds
<1>4. FramesSoFar'
  BY <1>0, <1>2, FramesRemain DEF FetchInv
<1>5. PagesAreRead'
  <2>1. Path' \in Paths
    <3>1. endpoint' \in Endpoints /\ Keys[at'] \in Instruments
      BY <1>1, ConstantFacts DEF FetchTypeOK
    <3> QED
      BY <3>1 DEF Path, Paths
  <2>2. Response' \in Seq(Row)
    BY <1>1, <2>1 DEF Response, FetchTypeOK
  <2>3. ReadUpTo(Nothing, Response', 0, endpoint')
    BY NothingIsRead
  <2>4. ReadUpTo(elements, Response, 0, endpoint)'
    BY <1>0, <2>3 DEF ReadUpTo, Kept, Shifts
  <2>5. Resume' = 0
    BY <1>0 DEF Resume
  <2> QED
    BY <1>0, <2>2, <2>4, <2>5 DEF PagesAreRead
<1>6. ElementsAreWhole'
  BY <1>0 DEF ElementsAreWhole
<1>7. SeriesSoFar'
  <2>1. Done' = Done \union {endpoint}
    BY <1>0, ConstantFacts DEF Done, FetchInv, FetchTypeOK
  <2> DEFINE ends == Done \union {endpoint}
             found == observations \union Batch
  <2>2. /\ AreOfTheirDates(found, Keys[at], UNION {TimesOf(e) : e \in ends})
        /\ Include(found, Keys[at], UNION {Shards[e] : e \in ends})
        /\ WeighOnce(found)
        /\ OneSnapshot => PayloadsKept(ends) /\ Made(found) = MadeOfPayloads(ends)
    BY <1>0, BatchJoins
  <2>3. /\ observations' = found /\ Done' = ends /\ \A e \in ends : TimesOf(e)' = TimesOf(e)
    BY <1>0, <2>1 DEF TimesOf
  <2> HIDE DEF found, ends
  <2>4. AreOfTheirDates(observations, Keys[at], UNION {TimesOf(e) : e \in Done})'
    <3>1. (UNION {TimesOf(e) : e \in Done})' = UNION {TimesOf(e) : e \in ends}
      BY <2>3
    <3> QED
      BY <1>0, <2>2, <2>3, <3>1 DEF AreOfTheirDates, DateOf
  <2>5. Include(observations, Keys[at], UNION {Shards[e] : e \in Done})'
    BY <1>0, <2>2, <2>3 DEF Include
  <2>6. WeighOnce(observations)'
    BY <1>0, <2>2, <2>3 DEF WeighOnce, Shifts
  <2>7. (OneSnapshot => PayloadsKept(Done) /\ Made(observations) = MadeOfPayloads(Done))'
    <3> SUFFICES ASSUME OneSnapshot'
                 PROVE  (PayloadsKept(Done) /\ Made(observations) = MadeOfPayloads(Done))'
      OBVIOUS
    <3>1. PayloadsKept(ends) /\ Made(found) = MadeOfPayloads(ends)
      BY <1>0, <2>2 DEF OneSnapshot
    <3>2. \A e \in ends : MadeOf(PayloadTimes(e))' = MadeOf(PayloadTimes(e))
      <4>1. ends \subseteq Endpoints
        BY <1>0 DEF ends, Done, FetchInv, FetchTypeOK
      <4> QED
        BY <1>2, <3>1, <4>1, PayloadsRemain DEF PayloadsKept
    <3>3. MadeOfPayloads(Done)' = MadeOfPayloads(ends)
      BY <2>3, <3>2 DEF MadeOfPayloads
    <3>4. PayloadsKept(Done)'
      BY <1>0, <2>3, <3>1 DEF PayloadsKept
    <3>5. Made(observations)' = Made(found)
      BY <2>3 DEF Made
    <3> QED
      BY <3>1, <3>3, <3>4, <3>5
  <2> QED
    BY <2>4, <2>5, <2>6, <2>7 DEF SeriesSoFar
<1> QED
  BY <1>1, <1>3, <1>4, <1>5, <1>6, <1>7 DEF FetchInv

\* Of observations whose dates are told apart clean_series drops none.
LEMMA NoneIsDropped ==
  ASSUME NEW found, \A o, q \in found : o.date = q.date => o = q, NEW frame \in OnePerDate(found)
  PROVE  frame = found
<1>1. frame \subseteq found
  BY DEF OnePerDate
<1>2. ASSUME NEW o \in found PROVE o \in frame
  <2> SUFFICES ASSUME o \notin frame PROVE FALSE
    OBVIOUS
  <2>1. {q \in frame : q.date = o.date} = {}
    BY <1>1
  <2>2. Cardinality({q \in frame : q.date = o.date}) = 1
    BY DEF OnePerDate
  <2> QED
    BY <2>1, <2>2, FS_EmptySet
<1> QED
  BY <1>1, <1>2

LEMMA StoreStep == FetchInv /\ Store => FetchInv'
<1> SUFFICES ASSUME FetchInv, Store PROVE FetchInv'
  OBVIOUS
<1> DEFINE key == Keys[at]
<1>0. /\ step = "store" /\ observations' = {} /\ endpoint' = 1
      /\ \/ at < Len(Keys) /\ at' = at + 1 /\ step' = "request"
         \/ at' = at /\ step' = "done"
      /\ cfg' = cfg /\ shelf' = shelf /\ clock' = clock
      /\ UNCHANGED <<offset, cursor, elements, cache>>
  BY DEF Store, published
<1>1. /\ Done = Endpoints
      /\ AreOfTheirDates(observations, key, UNION {TimesOf(e) : e \in Done})
      /\ Include(observations, key, UNION {Shards[e] : e \in Done})
      /\ WeighOnce(observations)
      /\ OneSnapshot => PayloadsKept(Done) /\ Made(observations) = MadeOfPayloads(Done)
  BY <1>0 DEF FetchInv, SeriesSoFar, Done
<1>2. PICK frame \in OnePerDate(observations) : frames' = Put(frames, key, frame)
  BY DEF Store
<1>3. frame = observations
  BY <1>1, NoneIsDropped DEF AreOfTheirDates
<1>4. /\ DOMAIN frames' = DOMAIN frames \union {key} /\ frames'[key] = observations
      /\ \A k \in DOMAIN frames : k # key => frames'[k] = frames[k]
  BY <1>2, <1>3 DEF Put
<1>5. Remain
  BY <1>0 DEF Remain, TimesOf
<1>6. FrameHolds(key, observations)
  <2>1. Include(observations, key, 1..Begun)
    BY <1>1, ShardAssumption
  <2> QED
    BY <1>1, <2>1 DEF FrameHolds, AreOfTheirDates
<1>7. FramesSoFar'
  <2> SUFFICES ASSUME NEW k \in DOMAIN frames' PROVE FrameHolds(k, frames[k])'
    BY DEF FramesSoFar
  <2>1. CASE k # key
    BY <1>4, <1>5, <2>1, FrameRemains DEF FetchInv, FramesSoFar
  <2>2. CASE k = key
    <3>1. Include(observations, key, 1..Begun) /\ frames'[k] = observations
      BY <1>4, <1>6, <2>2 DEF FrameHolds
    <3>2. Include(frames[k], k, 1..Begun)'
      BY <2>2, <3>1 DEF Include
    <3>3. (\A o \in frames[k] : \A row \in DOMAIN o.of : row.key = k /\ o.date = DateOf(row))'
      BY <1>0, <1>6, <2>2, <3>1 DEF FrameHolds, DateOf
    <3>4. WeighOnce(frames[k])'
      BY <1>0, <1>6, <3>1 DEF FrameHolds, WeighOnce, Shifts
    <3>5. (OneSnapshot => PayloadsKept(Endpoints) /\ Made(frames[k]) = MadeOfPayloads(Endpoints))'
      <4> SUFFICES ASSUME OneSnapshot'
                   PROVE  (PayloadsKept(Endpoints) /\ Made(frames[k]) = MadeOfPayloads(Endpoints))'
        OBVIOUS
      <4>1. PayloadsKept(Endpoints) /\ Made(observations) = MadeOfPayloads(Endpoints)
        BY <1>0, <1>6 DEF FrameHolds, OneSnapshot
      <4>2. \A e \in Endpoints : MadeOf(PayloadTimes(e))' = MadeOf(PayloadTimes(e))
        BY <1>5, <4>1, PayloadsRemain DEF PayloadsKept
      <4>3. MadeOfPayloads(Endpoints)' = MadeOfPayloads(Endpoints)
        BY <4>2 DEF MadeOfPayloads
      <4>4. PayloadsKept(Endpoints)'
        BY <1>0, <4>1 DEF PayloadsKept
      <4>5. Made(frames[k])' = Made(observations)
        BY <3>1 DEF Made
      <4> QED
        BY <4>1, <4>3, <4>4, <4>5
    <3> QED
      BY <3>2, <3>3, <3>4, <3>5 DEF FrameHolds
  <2> QED
    BY <2>1, <2>2
<1>8. FetchTypeOK'
  <2>1. at' \in DOMAIN Keys /\ endpoint' \in Endpoints
    BY <1>0, ConstantFacts DEF FetchInv, FetchTypeOK
  <2>2. DOMAIN frames' \subseteq Instruments
    BY <1>4, PathFacts DEF FetchInv, FetchTypeOK
  <2> QED
    BY <1>0, <2>1, <2>2 DEF FetchInv, FetchTypeOK
<1>9. ShelvesHold' /\ CacheHolds'
  <2>1. \A e \in Endpoints : TimesOf(e)' = TimesOf(e)
    BY <1>0 DEF TimesOf
  <2>2. \A path \in Paths : path[1] \in Endpoints
    BY DEF Paths
  <2>3. \A path \in DOMAIN cache : path[1] \in Endpoints
    BY <2>2 DEF FetchInv, FetchTypeOK
  <2> QED
    BY <1>0, <2>1, <2>2, <2>3 DEF FetchInv, ShelvesHold, CacheHolds
<1>10. PagesAreRead'
  <2>0. offset' = 0 /\ cursor' = <<>> /\ elements' = Nothing
    BY <1>0 DEF FetchInv, PagesAreRead
  <2>1. Path' \in Paths
    <3>1. endpoint' \in Endpoints /\ Keys[at'] \in Instruments
      BY <1>8, ConstantFacts DEF FetchTypeOK
    <3> QED
      BY <3>1 DEF Path, Paths
  <2>2. Response' \in Seq(Row)
    BY <1>8, <2>1 DEF Response, FetchTypeOK
  <2>3. ReadUpTo(Nothing, Response', 0, endpoint')
    BY NothingIsRead
  <2>4. ReadUpTo(elements, Response, 0, endpoint)'
    BY <1>0, <2>0, <2>3 DEF ReadUpTo, Kept, Shifts
  <2>5. Resume' = 0
    BY <2>0 DEF Resume
  <2> QED
    BY <1>0, <2>0, <2>2, <2>4, <2>5 DEF PagesAreRead
<1>11. ElementsAreWhole'
  BY <1>0 DEF ElementsAreWhole
<1>12. SeriesSoFar'
  <2> SUFFICES ASSUME step' = "request" PROVE SeriesSoFar'
    BY <1>0 DEF SeriesSoFar
  <2>1. Done' = {}
    BY <1>0, ConstantFacts DEF Done
  <2>2. AreOfTheirDates(observations, Keys[at], UNION {TimesOf(e) : e \in Done})'
    BY <1>0 DEF AreOfTheirDates
  <2>3. Include(observations, Keys[at], UNION {Shards[e] : e \in Done})'
    BY <2>1 DEF Include
  <2>4. WeighOnce(observations)' /\ PayloadsKept(Done)'
    BY <1>0, <2>1 DEF WeighOnce, PayloadsKept
  <2>5. Made(observations)' = MadeOfPayloads(Done)'
    BY <1>0, <2>1 DEF Made, MadeOfPayloads
  <2> QED
    BY <2>2, <2>3, <2>4, <2>5 DEF SeriesSoFar
<1> QED
  BY <1>7, <1>8, <1>9, <1>10, <1>11, <1>12 DEF FetchInv

LEMMA FetchUnchanged == FetchInv /\ UNCHANGED fetchVars => FetchInv'
<1> SUFFICES ASSUME FetchInv, cfg' = cfg, shelf' = shelf, clock' = clock,
                    UNCHANGED <<at, endpoint, step, offset, cursor, elements, cache,
                                observations, frames>>
             PROVE  FetchInv'
  BY DEF fetchVars, published
<1>1. \A e \in Endpoints : TimesOf(e)' = TimesOf(e)
  BY DEF TimesOf
<1>2. FetchTypeOK' /\ PagesAreRead'
  <2>1. FetchTypeOK'
    BY DEF FetchInv, FetchTypeOK
  <2>2. Response' = Response /\ Resume' = Resume
    BY DEF Response, Path, Resume
  <2>3. ASSUME NEW n
        PROVE  ReadUpTo(elements, Response, n, endpoint)' = ReadUpTo(elements, Response, n, endpoint)
    BY <2>2 DEF ReadUpTo, Kept, Shifts
  <2>4. PagesAreRead'
    BY <2>2, <2>3 DEF FetchInv, PagesAreRead
  <2> QED
    BY <2>1, <2>4
<1>3. ShelvesHold' /\ CacheHolds'
  <2>1. \A path \in Paths : path[1] \in Endpoints
    BY DEF Paths
  <2>2. \A path \in DOMAIN cache : path[1] \in Endpoints
    BY <2>1 DEF FetchInv, FetchTypeOK
  <2>3. ShelvesHold'
    BY <1>1, <2>1 DEF FetchInv, ShelvesHold
  <2>4. CacheHolds'
    BY <1>1, <2>2 DEF FetchInv, CacheHolds
  <2> QED
    BY <2>3, <2>4
<1>4. ElementsAreWhole'
  <2>1. endpoint \in Endpoints
    BY DEF FetchInv, FetchTypeOK
  <2> QED
    BY <1>1, <2>1 DEF FetchInv, ElementsAreWhole, Path, Kept, Shifts
<1>5. Remain
  BY <1>1 DEF Remain
<1>6. SeriesSoFar' /\ FramesSoFar'
  BY <1>5, SeriesRemains, FramesRemain DEF FetchInv
<1> QED
  BY <1>2, <1>3, <1>4, <1>6 DEF FetchInv

LEMMA FetchStep == FetchInv /\ [FetchNext]_fetchVars => FetchInv'
<1> SUFFICES ASSUME FetchInv, [FetchNext]_fetchVars PROVE FetchInv'
  OBVIOUS
<1>1. CASE Publish
  BY <1>1, PublishStep
<1>2. CASE Request \/ ReadCache
  BY <1>2, RequestStep, ReadCacheStep
<1>3. CASE RequestPage \/ RequestEmptyPage
  BY <1>3, RequestPageStep, RequestEmptyPageStep
<1>4. CASE FollowCursor \/ LastCursorPage
  BY <1>4, FollowCursorStep, LastCursorPageStep
<1>5. CASE MapElements \/ Store
  BY <1>5, MapElementsStep, StoreStep
<1>6. CASE Fail
  BY <1>6, FailStep
<1>7. CASE UNCHANGED fetchVars
  BY <1>7, FetchUnchanged
<1> QED
  BY <1>1, <1>2, <1>3, <1>4, <1>5, <1>6, <1>7 DEF FetchNext, Fetch

\* What a run keeps holds of every state.
THEOREM FetchInvariant == FetchSpec => []FetchInv
BY InitHolds, FetchStep, PTL DEF FetchSpec

\* declarative.py: every time published before the run began is in the stored series, made of
\* rows of its instrument and date.
THEOREM SeriesAreWhole == FetchSpec => []SeriesIsWhole
<1>1. FetchInv => SeriesIsWhole
  BY DEF FetchInv, FramesSoFar, FrameHolds, Include, SeriesIsWhole
<1> QED
  BY <1>1, FetchInvariant, PTL

\* _daily_mean: each row of a day weighs once, unless rows shift between offset pages.
THEOREM MeansWeighOnce == FetchSpec => []MeanWeighsOnce
<1>1. FetchInv => MeanWeighsOnce
  BY DEF FetchInv, FramesSoFar, FrameHolds, WeighOnce, Shifts, MeanWeighsOnce
<1> QED
  BY <1>1, FetchInvariant, PTL

\* _payload_cache: the instruments of a shared file are stored with the same dates, made of
\* the same times.
THEOREM SharedFilesAreOneSnapshot == FetchSpec => []SharedFileIsOneSnapshot
<1>1. FetchInv => SharedFileIsOneSnapshot
  <2> SUFFICES ASSUME FetchInv, OneSnapshot, NEW j \in DOMAIN frames, NEW k \in DOMAIN frames
               PROVE  Made(frames[j]) = Made(frames[k])
    BY DEF SharedFileIsOneSnapshot, Made, OneSnapshot
  <2> QED
    BY DEF FetchInv, FramesSoFar, FrameHolds
<1> QED
  BY <1>1, FetchInvariant, PTL

-----------------------------------------------------------------------------
(***************************************************************************)
(* A run uses up what is left of it, step by step.                         *)
(***************************************************************************)
\* Rows the loop has not asked for, as far as the vendor has them now.
Unread ==
  IF step # "request" \/ cfg.mode = "none" THEN 0
  ELSE Len(Response) - IF cfg.mode = "offset" THEN offset ELSE Resume

\* Series to store, and steps of an endpoint to its store.
SeriesLeft == IF step \in {"done", "failed"} THEN 0 ELSE Len(Keys) - at + 1
StepsToStore == IF step = "request" THEN 2 ELSE IF step = "map" THEN 1 ELSE 0

\* What is left: publications, series, endpoints of the series, and of the endpoint the steps
\* and the rows.  A publication brings new rows and a series all its endpoints, so only their
\* order from left to right is sure to go down.
Left ==
  <<MaxTime - clock,
    SeriesLeft,
    Newest - endpoint,
    StepsToStore,
    Unread>>

LessNat == {ss \in Nat \X Nat : ss[1] < ss[2]}
LessLeft == LexProductOrdering(LessNat, Nat, 5)

\* Nothing goes down in this order for ever.
LEMMA LeftIsWellFounded == IsWellFoundedOn(LessLeft, [1..5 -> Nat])
<1>1. LessNat = OpToRel(<, Nat)
  BY DEF OpToRel, LessNat
<1>2. IsWellFoundedOn(LessNat, Nat)
  BY <1>1, NatLessThanWellFounded, Zenon
<1> QED
  BY <1>2, WFLexProductOrdering DEF LessLeft

LEMMA UnreadFacts ==
  ASSUME FetchInv
  PROVE  /\ Unread \in Nat
         /\ step = "request" /\ cfg.mode = "offset" =>
              offset \in 0..Len(Response) /\ Unread = Len(Response) - offset
         /\ step = "request" /\ cfg.mode = "cursor" =>
              Resume \in 0..Len(Response) /\ Unread = Len(Response) - Resume
<1>0. Response \in Seq(Row) /\ cfg.mode \in {"none", "offset", "cursor"}
  BY PathFacts DEF FetchInv, Descriptor
<1>1. Len(Response) \in Nat
  BY <1>0
<1>2. CASE step # "request" \/ cfg.mode = "none"
  BY <1>2 DEF Unread
<1>3. CASE step = "request" /\ cfg.mode = "offset"
  <2>1. offset \in 0..Len(Response)
    BY <1>1, <1>3 DEF FetchInv, FetchTypeOK, PagesAreRead
  <2> QED
    BY <1>1, <1>3, <2>1 DEF Unread
<1>4. CASE step = "request" /\ cfg.mode = "cursor"
  <2>1. Resume \in 0..Len(Response)
    BY <1>4, ResumeFacts
  <2> QED
    BY <1>1, <1>4, <2>1 DEF Unread
<1> QED
  BY <1>0, <1>2, <1>3, <1>4

LEMMA LeftIsNatural == FetchInv => Left \in [1..5 -> Nat]
<1> SUFFICES ASSUME FetchInv PROVE Left \in [1..5 -> Nat]
  OBVIOUS
<1>1. Unread \in Nat
  BY UnreadFacts
<1>2. MaxTime - clock \in Nat
  BY ConstantFacts DEF FetchInv, FetchTypeOK
<1>3. SeriesLeft \in Nat /\ Newest - endpoint \in Nat
  BY ConstantFacts DEF FetchInv, FetchTypeOK, SeriesLeft
<1>4. StepsToStore \in Nat
  BY DEF StepsToStore
<1> QED
  BY <1>1, <1>2, <1>3, <1>4 DEF Left

LEMMA LaterLeftIsNatural == (FetchInv => Left \in [1..5 -> Nat])'
BY LeftIsNatural, PTL

\* The order, spelled out.
LEMMA Lessened ==
  ASSUME NEW f \in [1..5 -> Nat], NEW g \in [1..5 -> Nat], NEW j \in 1..5,
         \A i \in 1..(j - 1) : f[i] = g[i], f[j] < g[j]
  PROVE  <<f, g>> \in LessLeft
<1>1. <<f[j], g[j]>> \in LessNat
  BY DEF LessNat
<1> QED
  BY <1>1 DEF LessLeft, LexProductOrdering

LEMMA LessRemains == \A whole, more, less \in Int : more > less => whole - more < whole - less
OBVIOUS

\* A step takes from one part and leaves those before it.
LEMMA PartTaken ==
  ASSUME FetchInv, FetchInv',
         \/ clock' > clock
         \/ clock' = clock /\ SeriesLeft' < SeriesLeft
         \/ clock' = clock /\ SeriesLeft' = SeriesLeft /\ endpoint' > endpoint
         \/ /\ clock' = clock /\ SeriesLeft' = SeriesLeft /\ endpoint' = endpoint
            /\ StepsToStore' < StepsToStore
         \/ /\ clock' = clock /\ SeriesLeft' = SeriesLeft /\ endpoint' = endpoint
            /\ StepsToStore' = StepsToStore /\ Unread' < Unread
  PROVE  <<Left', Left>> \in LessLeft
<1>1. Left \in [1..5 -> Nat] /\ Left' \in [1..5 -> Nat]
  BY LeftIsNatural, LaterLeftIsNatural
<1>2. /\ Left[1] = MaxTime - clock /\ Left'[1] = MaxTime - clock'
      /\ Left[2] = SeriesLeft /\ Left'[2] = SeriesLeft'
      /\ Left[3] = Newest - endpoint /\ Left'[3] = Newest - endpoint'
      /\ Left[4] = StepsToStore /\ Left'[4] = StepsToStore'
      /\ Left[5] = Unread /\ Left'[5] = Unread'
  BY DEF Left
<1>3. /\ clock' > clock => MaxTime - clock' < MaxTime - clock
      /\ endpoint' > endpoint => Newest - endpoint' < Newest - endpoint
  <2>1. /\ MaxTime \in Int /\ clock \in Int /\ clock' \in Int
        /\ Newest \in Int /\ endpoint \in Int /\ endpoint' \in Int
    BY ConstantFacts DEF FetchInv, FetchTypeOK
  <2> QED
    BY <2>1, LessRemains
<1> HIDE DEF Left
<1>4. \E j \in 1..5 : (\A i \in 1..(j - 1) : Left'[i] = Left[i]) /\ Left'[j] < Left[j]
  <2>1. CASE clock' > clock
    <3>1. Left'[1] < Left[1]
      BY <1>2, <1>3, <2>1
    <3> QED
      BY <3>1
  <2>2. CASE clock' = clock /\ SeriesLeft' < SeriesLeft
    <3>1. Left'[1] = Left[1] /\ Left'[2] < Left[2]
      BY <1>2, <2>2
    <3>2. \A i \in 1..(2 - 1) : i = 1
      OBVIOUS
    <3> QED
      BY <3>1, <3>2
  <2>3. CASE clock' = clock /\ SeriesLeft' = SeriesLeft /\ endpoint' > endpoint
    <3>1. Left'[1] = Left[1] /\ Left'[2] = Left[2] /\ Left'[3] < Left[3]
      BY <1>2, <1>3, <2>3
    <3>2. \A i \in 1..(3 - 1) : i = 1 \/ i = 2
      OBVIOUS
    <3> QED
      BY <3>1, <3>2
  <2>4. CASE /\ clock' = clock /\ SeriesLeft' = SeriesLeft /\ endpoint' = endpoint
             /\ StepsToStore' < StepsToStore
    <3>1. Left'[1] = Left[1] /\ Left'[2] = Left[2] /\ Left'[3] = Left[3] /\ Left'[4] < Left[4]
      BY <1>2, <2>4
    <3>2. \A i \in 1..(4 - 1) : i = 1 \/ i = 2 \/ i = 3
      OBVIOUS
    <3> QED
      BY <3>1, <3>2
  <2>5. CASE /\ clock' = clock /\ SeriesLeft' = SeriesLeft /\ endpoint' = endpoint
             /\ StepsToStore' = StepsToStore /\ Unread' < Unread
    <3>1. /\ Left'[1] = Left[1] /\ Left'[2] = Left[2] /\ Left'[3] = Left[3]
          /\ Left'[4] = Left[4] /\ Left'[5] < Left[5]
      BY <1>2, <2>5
    <3>2. \A i \in 1..(5 - 1) : i = 1 \/ i = 2 \/ i = 3 \/ i = 4
      OBVIOUS
    <3> QED
      BY <3>1, <3>2
  <2> QED
    BY <2>1, <2>2, <2>3, <2>4, <2>5
<1> QED
  BY <1>1, <1>4, Lessened

\* A cursor moves on, as a page that is not the last has a row.
LEMMA FollowCursorMoves ==
  ASSUME FetchInv, FollowCursor
  PROVE  Resume' > Resume /\ Resume' \in 0..Len(Response)
<1> DEFINE n == Resume
           page == PageAfter(n)
<1>1. /\ step = "request" /\ cfg.mode = "cursor"
      /\ n + Len(page) < Len(Response) /\ cursor' = <<Last(page)>>
      /\ UNCHANGED <<published, at, endpoint>>
  BY DEF FollowCursor
<1>2. Response' = Response
  BY <1>1 DEF published, Response, Path
<1>3. n \in 0..Len(Response) /\ Response \in Seq(Row) /\ IsInjective(Response)
  BY <1>1, ResumeFacts, ServedIsPayload DEF Payload
<1> HIDE DEF n
<1>4. page \in Seq(Row) /\ (page = <<>> <=> n = Len(Response))
  BY <1>3, PageFacts
<1>5. PICK m \in n..Len(Response) :
        Len(page) = m - n /\ (m > n => Last(page) = Response[m])
  BY <1>3, PageFacts
<1> HIDE DEF page
<1>6. n # Len(Response)
  BY <1>1, <1>3, <1>4
<1>7. Len(page) > 0
  BY <1>4, <1>6
<1>8. m > n /\ m \in DOMAIN Response
  BY <1>3, <1>5, <1>7
<1>9. cursor' # <<>> /\ cursor'[1] = Response[m]
  BY <1>1, <1>5, <1>8
<1>10. Resume' = m
  BY <1>2, <1>3, <1>8, <1>9, PositionIsKnown DEF Resume
<1> QED
  BY <1>3, <1>8, <1>10 DEF n

LEMMA AskingTakes ==
  ASSUME FetchInv, Fetch, step = "request"
  PROVE  /\ clock' = clock /\ SeriesLeft' = SeriesLeft /\ endpoint' = endpoint
         /\ \/ StepsToStore' < StepsToStore
            \/ StepsToStore' = StepsToStore /\ Unread' < Unread
<1>1. CASE Request \/ ReadCache \/ RequestEmptyPage \/ LastCursorPage
  <2>1. step' = "map" /\ UNCHANGED <<published, at, endpoint>>
    BY <1>1 DEF Request, ReadCache, RequestEmptyPage, LastCursorPage, Received
  <2>2. StepsToStore = 2 /\ StepsToStore' = 1
    BY <2>1 DEF StepsToStore
  <2>3. SeriesLeft' = SeriesLeft
    BY <2>1 DEF SeriesLeft
  <2> QED
    BY <2>1, <2>2, <2>3 DEF published
<1>2. CASE RequestPage
  <2>1. /\ cfg.mode = "offset" /\ PageAfter(offset) # <<>>
        /\ offset' = offset + Len(PageAfter(offset))
        /\ UNCHANGED <<published, at, endpoint, step>>
    BY <1>2 DEF RequestPage
  <2>2. cfg' = cfg /\ clock' = clock /\ Response' = Response
    BY <2>1 DEF published, Response, Path
  <2>3. offset \in 0..Len(Response) /\ Unread = Len(Response) - offset
    BY <2>1, UnreadFacts
  <2>4. Len(PageAfter(offset)) \in Nat /\ Len(PageAfter(offset)) > 0
    <3>1. PageAfter(offset) \in Seq(Row)
      BY <2>3, PageFacts
    <3> QED
      BY <2>1, <3>1
  <2>5. Unread' = Len(Response) - offset'
    BY <2>1, <2>2 DEF Unread
  <2>6. Unread' < Unread
    <3>1. Len(Response) \in Nat
      BY PathFacts DEF FetchInv
    <3> QED
      BY <2>1, <2>3, <2>4, <2>5, <3>1
  <2> QED
    BY <2>1, <2>2, <2>6 DEF SeriesLeft, StepsToStore
<1>3. CASE FollowCursor
  <2>1. cfg.mode = "cursor" /\ UNCHANGED <<published, at, endpoint, step>>
    BY <1>3 DEF FollowCursor
  <2>2. cfg' = cfg /\ clock' = clock /\ Response' = Response
    BY <2>1 DEF published, Response, Path
  <2>3. Resume \in 0..Len(Response) /\ Unread = Len(Response) - Resume
    BY <2>1, UnreadFacts
  <2>4. Resume' > Resume /\ Resume' \in 0..Len(Response)
    BY <1>3, FollowCursorMoves
  <2>5. Unread' = Len(Response) - Resume'
    BY <2>1, <2>2 DEF Unread
  <2>6. Unread' < Unread
    <3>1. Len(Response) \in Nat
      BY PathFacts DEF FetchInv
    <3> QED
      BY <2>3, <2>4, <2>5, <3>1
  <2> QED
    BY <2>1, <2>2, <2>6 DEF SeriesLeft, StepsToStore
<1>4. CASE MapElements \/ Store
  BY <1>4 DEF MapElements, Store
<1> QED
  BY <1>1, <1>2, <1>3, <1>4 DEF Fetch

LEMMA StoringTakes ==
  ASSUME FetchInv, Fetch, step # "request"
  PROVE  /\ clock' = clock
         /\ \/ SeriesLeft' < SeriesLeft
            \/ SeriesLeft' = SeriesLeft /\ endpoint' > endpoint
            \/ SeriesLeft' = SeriesLeft /\ endpoint' = endpoint /\ StepsToStore' < StepsToStore
<1>0. /\ endpoint \in 1..Newest /\ at \in 1..Len(Keys)
      /\ Newest \in Nat /\ Len(Keys) \in Nat
  BY ConstantFacts DEF FetchInv, FetchTypeOK
<1>1. CASE MapElements
  <2>1. step = "map" /\ clock' = clock /\ at' = at
    BY <1>1 DEF MapElements, published
  <2>2. CASE endpoint < Newest
    <3>1. endpoint' = endpoint + 1 /\ step' = "request"
      BY <1>1, <2>2 DEF MapElements
    <3> QED
      BY <1>0, <2>1, <3>1 DEF SeriesLeft
  <2>3. CASE ~(endpoint < Newest)
    <3>1. endpoint' = endpoint /\ step' = "store"
      BY <1>1, <2>3 DEF MapElements
    <3> QED
      BY <2>1, <3>1 DEF SeriesLeft, StepsToStore
  <2> QED
    BY <2>2, <2>3
<1>2. CASE Store
  <2>1. step = "store" /\ clock' = clock
    BY <1>2 DEF Store, published
  <2>2. SeriesLeft = Len(Keys) - at + 1
    BY <2>1 DEF SeriesLeft
  <2>3. CASE at < Len(Keys)
    <3>1. at' = at + 1 /\ step' = "request"
      BY <1>2, <2>3 DEF Store
    <3>2. SeriesLeft' = Len(Keys) - (at + 1) + 1
      BY <3>1 DEF SeriesLeft
    <3> QED
      BY <1>0, <2>1, <2>2, <3>2
  <2>4. CASE ~(at < Len(Keys))
    <3>1. step' = "done"
      BY <1>2, <2>4 DEF Store
    <3>2. SeriesLeft' = 0
      BY <3>1 DEF SeriesLeft
    <3> QED
      BY <1>0, <2>1, <2>2, <3>2
  <2> QED
    BY <2>3, <2>4
<1>3. CASE ~(MapElements \/ Store)
  BY <1>3 DEF Fetch, Request, ReadCache, RequestPage, RequestEmptyPage, FollowCursor,
              LastCursorPage
<1> QED
  BY <1>1, <1>2, <1>3

\* ingest_all: no step leaves what is left of a run as it was or adds to it, and in a
\* well-founded order nothing is taken from for ever: the paging loops, whose pages get new
\* rows while they run, come to an end with the publications.
THEOREM RunsUseUpWhatIsLeft ==
  FetchSpec => [][FetchNext => /\ Left \in [1..5 -> Nat]
                               /\ <<Left', Left>> \in LessLeft]_fetchVars
<1> DEFINE Progress == FetchNext => /\ Left \in [1..5 -> Nat]
                                    /\ <<Left', Left>> \in LessLeft
<1>1. FetchInv /\ FetchInv' /\ [FetchNext]_fetchVars => [Progress]_fetchVars
  <2> SUFFICES ASSUME FetchInv, FetchInv', FetchNext
               PROVE  <<Left', Left>> \in LessLeft
    BY LeftIsNatural
  <2>1. CASE Publish
    <3>1. clock' > clock
      BY <2>1 DEF Publish, FetchInv, FetchTypeOK
    <3> QED
      BY <3>1, PartTaken
  <2>2. CASE Fetch
    <3>1. CASE step = "request"
      BY <2>2, <3>1, AskingTakes, PartTaken
    <3>2. CASE step # "request"
      BY <2>2, <3>2, StoringTakes, PartTaken
    <3> QED
      BY <3>1, <3>2
  <2>3. CASE Fail
    <3>1. clock' = clock /\ step = "request" /\ step' = "failed"
      BY <2>3 DEF Fail, published
    <3>2. SeriesLeft = Len(Keys) - at + 1 /\ SeriesLeft' = 0
      BY <3>1 DEF SeriesLeft
    <3>3. at \in 1..Len(Keys) /\ Len(Keys) \in Nat
      BY ConstantFacts DEF FetchInv, FetchTypeOK
    <3> QED
      BY <3>1, <3>2, <3>3, PartTaken
  <2> QED
    BY <2>1, <2>2, <2>3 DEF FetchNext
<1> QED
  BY <1>1, FetchInvariant, PTL DEF FetchSpec
=============================================================================
