------------------------------ MODULE ModelCalls ------------------------------
(***************************************************************************)
(* common/llm.py: one backend's complete(), which asks the vendor request  *)
(* after request, each through _call_with_backoff.  The vendor grants a    *)
(* quota of answers in each window of so many seconds; the waits of the    *)
(* retry loop are what makes a spent quota pass.  Time is counted in whole *)
(* seconds and passes only while the loop sleeps.                          *)
(***************************************************************************)
EXTENDS Integers, Sequences

CONSTANTS
  Window,    \* seconds for which the vendor counts a caller's answers
  Quota,     \* answers it gives in a window
  Others,    \* of these, what other processes on the same account may take
  MaxN,      \* bound: requests of one call
  Troubles   \* further errors the vendor may answer with

\* All the seconds one request waits for at least, if every attempt fails.
TotalWait == 4 + 8 + 16 + 32 + 60

ASSUME VendorAssumption ==
  /\ Window \in 1..TotalWait
  /\ Quota \in Nat /\ Others \in Nat /\ Others < Quota
  /\ MaxN \in Nat
  /\ Troubles \subseteq {"overloaded", "fatal"}

MaxAttempts == 6

Backend == {"deterministic_stub", "anthropic", "gemini"}
Answer == {"payload", "refused", "unparseable"}
Error == {"quota", "overloaded", "fatal"}

VARIABLES
  pc,        \* "idle", "attempt", "wait", "returned", "raised"
  backend,
  todo,      \* requests of this call that are not answered yet
  payloads,
  attempt,   \* attempts of the current request that failed
  seen,      \* history: the errors of these attempts
  lost,      \* history: for each request given up, the errors of its attempts
  left,      \* seconds until the vendor's window ends, before the next one
  used       \* answers the vendor gave this process in the window

request == <<backend, todo, payloads>>
retries == <<attempt, seen, lost>>
vendor == <<left, used>>
vars == <<pc, request, retries, vendor>>

TypeOK ==
  /\ pc \in {"idle", "attempt", "wait", "returned", "raised"}
  /\ backend \in Backend
  /\ todo \in 0..MaxN
  /\ payloads \in Seq(Answer)
  /\ attempt \in 0..MaxAttempts
  /\ seen \subseteq Error
  /\ lost \subseteq SUBSET Error
  /\ left \in 1..Window
  /\ used \in 0..Quota

Goto(place) == pc' = place

Init ==
  /\ pc = "idle"
  /\ backend \in Backend
  /\ todo = 0 /\ payloads = <<>>
  /\ attempt = 0 /\ seen = {} /\ lost = {}
  /\ left \in 1..Window /\ used \in 0..Quota

-----------------------------------------------------------------------------
\* complete is called, at any point of the vendor's window: one call is followed, and what
\* the calls before it used is in the choice of left and used.
Complete(n) ==
  /\ pc = "idle"
  /\ backend # "deterministic_stub"
  /\ todo' = n
  /\ Goto(IF n = 0 THEN "returned" ELSE "attempt")
  /\ UNCHANGED <<backend, payloads, retries, vendor>>

\* The stub computes its payloads from the request, at most one per instrument it knows.
CompleteStub(n) ==
  /\ pc = "idle"
  /\ backend = "deterministic_stub"
  /\ \E m \in 0..n : payloads' = [i \in 1..m |-> "payload"]
  /\ Goto("returned")
  /\ UNCHANGED <<backend, todo, retries, vendor>>

\* Request i is done with; the loop goes on to the next.
Append1(answer) ==
  /\ payloads' = Append(payloads, answer)
  /\ todo' = todo - 1
  /\ attempt' = 0 /\ seen' = {}
  /\ Goto(IF todo = 1 THEN "returned" ELSE "attempt")

\* The vendor answers: with text that parses, text that does not, or a refusal, which
\* only the Anthropic adapter tells from an empty text.
VendorAnswers(others) ==
  /\ pc = "attempt"
  /\ used + others < Quota
  /\ used' = used + 1
  /\ \E answer \in Answer : (answer = "refused" => backend = "anthropic") /\ Append1(answer)
  /\ UNCHANGED <<backend, lost, left>>

LastAttempt == attempt = MaxAttempts - 1

Retryable(error) == error \in {"quota", "overloaded"}

\* The call raised: the retry loop waits or gives up.  Giving up makes one more
\* unparseable answer of the Gemini adapter, and ends the Anthropic one's call.
VendorFails(error) ==
  /\ pc = "attempt"
  /\ IF Retryable(error) /\ ~LastAttempt
       THEN /\ seen' = seen \union {error}
            /\ Goto("wait")
            /\ UNCHANGED <<todo, payloads, attempt, lost>>
       ELSE /\ lost' = lost \union {seen \union {error}}
            /\ IF backend = "gemini"
                 THEN Append1("unparseable")
                 ELSE /\ Goto("raised")
                      /\ payloads' = <<>>
                      /\ UNCHANGED <<todo, attempt, seen>>
  /\ UNCHANGED <<backend, vendor>>

\* The quota is spent: 429.
QuotaSpent(others) ==
  /\ used + others >= Quota
  /\ VendorFails("quota")

\* Mutant: the delay does not double.
ConstantDelay(a) == 4

\* min(_RETRY_MAX_DELAY_S, _RETRY_BASE_DELAY_S * 2**attempt)
Delay(a) == <<4, 8, 16, 32, 60>>[a + 1]

\* Time passes; the window of the vendor that it ends in is a fresh one unless it is still
\* the same.
Sleep(seconds) ==
  IF seconds < left
    THEN left' = left - seconds /\ UNCHANGED used
    ELSE left' = Window - ((seconds - left) % Window) /\ used' = 0

\* Mutant: the attempts are not counted.
WaitUncounted(jitter) ==
  /\ pc = "wait"
  /\ jitter <= Delay(attempt) \div 4
  /\ Sleep(Delay(attempt) + jitter)
  /\ Goto("attempt")
  /\ UNCHANGED <<request, retries>>

\* time.sleep(delay), with a jitter of up to a quarter.
Wait(jitter) ==
  /\ pc = "wait"
  /\ jitter <= Delay(attempt) \div 4
  /\ Sleep(Delay(attempt) + jitter)
  /\ attempt' = attempt + 1
  /\ Goto("attempt")
  /\ UNCHANGED <<request, seen, lost>>

Step ==
  \/ \E others \in 0..Others : VendorAnswers(others) \/ QuotaSpent(others)
  \/ \E error \in Troubles : VendorFails(error)
  \/ \E jitter \in 0..15 : Wait(jitter)

Next == (\E n \in 0..MaxN : Complete(n) \/ CompleteStub(n)) \/ Step

Spec == Init /\ [][Next]_vars

\* The vendor's client answers or raises, and sleep returns.
FairSpec == Spec /\ WF_vars(Step)

-----------------------------------------------------------------------------
(***************************************************************************)
(* Properties.                                                             *)
(***************************************************************************)

\* "A 429 rate-limit is a temporary condition, not a bad thesis": no request is given up
\* for a spent quota alone, however late in a window of up to two minutes it is refused,
\* whatever the earlier requests used and whatever share of it others take.
QuotaCostsNoAnswer == {"quota"} \notin lost

\* A call comes to an end whatever the vendor answers: neither errors that may be retried
\* nor a request given up keep the loop from the next one.
Answered == pc = "attempt" ~> pc \in {"returned", "raised"}
=============================================================================
