----------------------------- MODULE ProbeRetryProofs -----------------------------
(* Machine-checked proofs about ProbeRetry, for every timeout and delay within  *)
(* the limits of the API and every MESSAGE_IDLE_TIMEOUT above the worst case.   *)
(*                                                                              *)
(* Budget is the heart of the inductive invariant: before attempt n at most     *)
(* n * timeout + delay * (2^n - 1) has passed.                                  *)
EXTENDS ProbeRetry, TLAPS

----------------------------------------------------------------------------------
(* Arithmetic                                                                   *)

LEMMA DoublingValues ==
  /\ Doubling[1] = 1 /\ Doubling[2] = 2 /\ Doubling[3] = 4
  /\ Doubling[4] = 8 /\ Doubling[5] = 16 /\ Doubling[6] = 32
BY DEF Doubling

\* The delay before an attempt is the difference of two budgets.
LEMMA DelayAddsUp ==
  ASSUME NEW n \in 0..4, NEW x \in Nat
  PROVE  /\ x * Doubling[n + 1] \in Nat
         /\ x * (Doubling[n + 1] - 1) + x * Doubling[n + 1] = x * (Doubling[n + 2] - 1)
<1>1. n \in {0, 1, 2, 3, 4}
  OBVIOUS
<1>2. CASE n = 0
  BY <1>2, DoublingValues
<1>3. CASE n = 1
  BY <1>3, DoublingValues
<1>4. CASE n = 2
  BY <1>4, DoublingValues
<1>5. CASE n = 3
  BY <1>5, DoublingValues
<1>6. CASE n = 4
  BY <1>6, DoublingValues
<1> QED
  BY <1>1, <1>2, <1>3, <1>4, <1>5, <1>6

\* No budget exceeds the worst case.
LEMMA WithinWorstCase ==
  ASSUME NEW n \in 0..5, NEW x \in 0..MaxTimeout, NEW y \in 0..MaxDelay
  PROVE  (n + 1) * x + y * (Doubling[n + 1] - 1) <= WorstCase
<1>1. WorstCase = 6 * MaxTimeout + 31 * MaxDelay
  BY LimitsAssumption, DoublingValues DEF WorstCase, MaxRetries
<1>2. n \in {0, 1, 2, 3, 4, 5}
  OBVIOUS
<1>3. CASE n = 0
  BY <1>1, <1>3, DoublingValues, LimitsAssumption
<1>4. CASE n = 1
  BY <1>1, <1>4, DoublingValues, LimitsAssumption
<1>5. CASE n = 2
  BY <1>1, <1>5, DoublingValues, LimitsAssumption
<1>6. CASE n = 3
  BY <1>1, <1>6, DoublingValues, LimitsAssumption
<1>7. CASE n = 4
  BY <1>1, <1>7, DoublingValues, LimitsAssumption
<1>8. CASE n = 5
  BY <1>1, <1>8, DoublingValues, LimitsAssumption
<1> QED
  BY <1>2, <1>3, <1>4, <1>5, <1>6, <1>7, <1>8

\* The last delay and attempt n are within the worst case, for n below the limit.
LEMMA NextDelayWithinWorstCase ==
  ASSUME NEW n \in 0..4, NEW x \in 0..MaxTimeout, NEW y \in 0..MaxDelay
  PROVE  (n + 1) * x + y * (Doubling[n + 2] - 1) <= WorstCase
<1>1. WorstCase = 6 * MaxTimeout + 31 * MaxDelay
  BY LimitsAssumption, DoublingValues DEF WorstCase, MaxRetries
<1>2. n \in {0, 1, 2, 3, 4}
  OBVIOUS
<1>3. CASE n = 0
  BY <1>1, <1>3, DoublingValues, LimitsAssumption
<1>4. CASE n = 1
  BY <1>1, <1>4, DoublingValues, LimitsAssumption
<1>5. CASE n = 2
  BY <1>1, <1>5, DoublingValues, LimitsAssumption
<1>6. CASE n = 3
  BY <1>1, <1>6, DoublingValues, LimitsAssumption
<1>7. CASE n = 4
  BY <1>1, <1>7, DoublingValues, LimitsAssumption
<1> QED
  BY <1>2, <1>3, <1>4, <1>5, <1>6, <1>7

----------------------------------------------------------------------------------
LEMMA InitIInv == Init => IInv
<1> SUFFICES ASSUME Init PROVE IInv
  OBVIOUS
<1>1. TypeOK
  <2>1. retries \in 0..MaxRetries /\ attempt \in 0..retries
    BY DEF Init, MaxRetries
  <2>2. outcome \in {NoOutcome, Interrupted} \cup Success \cup StatusErrors \cup Classified
                   \cup Cancellations
    BY DEF Init
  <2> QED
    BY <2>1, <2>2 DEF Init, TypeOK
<1>2. timeout \in Nat /\ delay \in Nat
  BY LimitsAssumption DEF Init
<1>3. Budget
  BY <1>2, DoublingValues DEF Init, Budget
<1>4. Counted
  BY DEF Init, Counted
<1> QED
  BY <1>1, <1>3, <1>4 DEF IInv

\* The numbers a step computes with.
LEMMA Numbers ==
  ASSUME TypeOK
  PROVE  /\ timeout \in 0..MaxTimeout /\ delay \in 0..MaxDelay
         /\ MaxTimeout \in Nat /\ MaxDelay \in Nat
         /\ retries \in 0..5 /\ attempt \in 0..5 /\ attempt <= retries
BY LimitsAssumption DEF TypeOK, MaxRetries

LEMMA CancelIInv == ASSUME IInv, Cancel PROVE IInv'
<1>0. /\ timeout' = timeout /\ retries' = retries /\ delay' = delay
      /\ pc' = pc /\ attempt' = attempt /\ outcome' = outcome
      /\ elapsed' = elapsed /\ calls' = calls /\ attempts' = attempts
  BY DEF Cancel, settings
<1>1. TypeOK'
  <2>1. canceled' \in BOOLEAN
    BY DEF Cancel
  <2> QED
    BY <1>0, <2>1, Zenon DEF IInv, TypeOK
<1>2. Budget'
  BY <1>0, Zenon DEF IInv, Budget
<1>3. Counted'
  BY <1>0, Zenon DEF IInv, Counted
<1> QED
  BY <1>1, <1>2, <1>3 DEF IInv

LEMMA AttemptIInv ==
  ASSUME IInv, NEW o \in Execute, NEW d \in 0..timeout, Attempt(o, d)
  PROVE  IInv'
<1> USE DEF settings
<1>1. /\ timeout \in 0..MaxTimeout /\ delay \in 0..MaxDelay
      /\ MaxTimeout \in Nat /\ MaxDelay \in Nat
      /\ retries \in 0..5 /\ attempt \in 0..5 /\ attempt <= retries
      /\ elapsed \in Nat /\ calls \in Nat /\ attempts \in Nat
  BY Numbers DEF IInv, TypeOK
<1>2. o \in Success \cup StatusErrors \cup Classified \cup Cancellations
  BY DEF Execute
<1>3. TypeOK'
  <2>1. elapsed' \in Nat /\ calls' \in Nat /\ attempts' \in Nat
    BY <1>1 DEF Attempt
  <2>2. pc' \in {"attempt", "delay", "returned"}
    BY DEF Attempt
  <2>3. outcome' \in {NoOutcome, Interrupted} \cup Success \cup StatusErrors \cup Classified
                     \cup Cancellations
    BY <1>2 DEF Attempt
  <2> QED
    BY <2>1, <2>2, <2>3 DEF IInv, TypeOK, Attempt
<1>4. Budget'
  <2>1. elapsed <= attempt * timeout + delay * (Doubling[attempt + 1] - 1)
    BY DEF IInv, Budget, Attempt
  <2>2. elapsed' = elapsed + d /\ d <= timeout /\ d \in Nat
    BY <1>1 DEF Attempt
  <2>3. /\ attempt * timeout \in Nat
        /\ (attempt + 1) * timeout = attempt * timeout + timeout
        /\ delay * (Doubling[attempt + 1] - 1) \in Nat
    <3>1. attempt \in {0, 1, 2, 3, 4, 5}
      BY <1>1
    <3> QED
      BY <1>1, <3>1, DoublingValues
  <2>4. elapsed' <= (attempt + 1) * timeout + delay * (Doubling[attempt + 1] - 1)
    <3> DEFINE a == attempt * timeout
               b == delay * (Doubling[attempt + 1] - 1)
    <3>1. /\ a \in Nat /\ b \in Nat /\ elapsed <= a + b
          /\ (attempt + 1) * timeout = a + timeout
      BY <2>1, <2>3
    <3> HIDE DEF a, b
    <3>2. elapsed' <= a + timeout + b
      BY <1>1, <2>2, <3>1
    <3> QED
      BY <3>1, <3>2 DEF b
  <2>5. (attempt + 1) * timeout + delay * (Doubling[attempt + 1] - 1) <= WorstCase
    BY <1>1, WithinWorstCase
  <2>6. UNCHANGED <<attempt, timeout, delay>> /\ pc' \in {"delay", "returned"}
    BY DEF Attempt
  <2>7. CASE pc' = "delay"
    BY <2>4, <2>6, <2>7 DEF Budget
  <2>8. CASE pc' = "returned"
    <3> DEFINE w == (attempt + 1) * timeout + delay * (Doubling[attempt + 1] - 1)
    <3>1. elapsed' <= w /\ w <= WorstCase
      BY <2>4, <2>5
    <3>2. w \in Nat /\ elapsed' \in Nat /\ WorstCase \in Nat
      BY <1>1, <2>2, <2>3, LimitsAssumption, DoublingValues DEF WorstCase, MaxRetries
    <3> HIDE DEF w
    <3>3. elapsed' <= WorstCase
      BY <3>1, <3>2
    <3> QED
      BY <2>8, <3>3 DEF Budget, WorstCase
  <2> QED
    BY <2>6, <2>7, <2>8
<1>5. Counted'
  <2>1. calls = attempt /\ calls' = attempt + 1
    BY <1>1 DEF IInv, Counted, Attempt
  <2>2. CASE Last(o)
    BY <2>1, <2>2 DEF Attempt, Counted
  <2>3. CASE ~Last(o)
    <3>1. attempt # retries
      BY <2>3 DEF Last
    <3>2. pc' = "delay" /\ UNCHANGED <<attempt, retries>>
      BY <2>3 DEF Attempt
    <3> QED
      BY <1>1, <2>1, <3>1, <3>2 DEF Counted
  <2> QED
    BY <2>2, <2>3
<1> QED
  BY <1>3, <1>4, <1>5 DEF IInv

LEMMA RetryIInv == ASSUME IInv, Retry PROVE IInv'
<1> USE DEF settings
<1>1. /\ timeout \in 0..MaxTimeout /\ delay \in 0..MaxDelay
      /\ MaxTimeout \in Nat /\ MaxDelay \in Nat
      /\ retries \in 0..5 /\ attempt \in 0..5
      /\ elapsed \in Nat
  BY Numbers DEF IInv, TypeOK
<1>2. attempt < retries /\ attempt \in 0..4
  BY <1>1 DEF IInv, Counted, Retry
<1>3. Backoff = delay * Doubling[attempt + 1] /\ Backoff \in Nat
  BY <1>1, <1>2, DelayAddsUp DEF Backoff
<1>4. TypeOK'
  <2>1. elapsed' \in Nat
    BY <1>1, <1>3 DEF Retry
  <2>2. attempt' \in 0..retries
    BY <1>1, <1>2 DEF Retry
  <2> QED
    BY <2>1, <2>2 DEF IInv, TypeOK, Retry
<1>5. Budget'
  <2> DEFINE a == (attempt + 1) * timeout
             b == delay * (Doubling[attempt + 1] - 1)
             c == delay * (Doubling[attempt + 2] - 1)
  <2>1. elapsed <= a + b
    BY DEF IInv, Budget, Retry
  <2>2. b + Backoff = c
    BY <1>1, <1>2, <1>3, DelayAddsUp
  <2>3. a \in Nat /\ b \in Nat
    <3>1. attempt \in {0, 1, 2, 3, 4}
      BY <1>2
    <3> QED
      BY <1>1, <3>1, DoublingValues
  <2>4. elapsed' = elapsed + Backoff
    BY DEF Retry
  <2>5. elapsed' <= a + c
    <3> HIDE DEF a, b, c
    <3> QED
      BY <1>1, <1>3, <2>1, <2>2, <2>3, <2>4
  <2>6. /\ pc' = "attempt" /\ attempt' = attempt + 1 /\ UNCHANGED <<timeout, delay>>
        /\ attempt' + 1 = attempt + 2
    BY <1>1 DEF Retry
  <2> QED
    BY <2>5, <2>6 DEF Budget
<1>6. Counted'
  BY <1>1 DEF IInv, Counted, Retry
<1> QED
  BY <1>4, <1>5, <1>6 DEF IInv

LEMMA AbandonIInv ==
  ASSUME IInv, NEW d \in 0..Backoff, Abandon(d)
  PROVE  IInv'
<1> USE DEF settings
<1>1. /\ timeout \in 0..MaxTimeout /\ delay \in 0..MaxDelay
      /\ MaxTimeout \in Nat /\ MaxDelay \in Nat
      /\ retries \in 0..5 /\ attempt \in 0..5
      /\ elapsed \in Nat
  BY Numbers DEF IInv, TypeOK
<1>2. attempt < retries /\ attempt \in 0..4
  BY <1>1 DEF IInv, Counted, Abandon
<1>3. Backoff = delay * Doubling[attempt + 1] /\ Backoff \in Nat
  BY <1>1, <1>2, DelayAddsUp DEF Backoff
<1>4. TypeOK'
  <2>1. elapsed' \in Nat /\ attempts' \in Nat
    BY <1>1, <1>3 DEF Abandon
  <2> QED
    BY <2>1 DEF IInv, TypeOK, Abandon
<1>5. Budget'
  <2> DEFINE a == (attempt + 1) * timeout
             b == delay * (Doubling[attempt + 1] - 1)
             c == delay * (Doubling[attempt + 2] - 1)
  <2>1. elapsed <= a + b
    BY DEF IInv, Budget, Abandon
  <2>2. b + Backoff = c
    BY <1>1, <1>2, <1>3, DelayAddsUp
  <2>3. a \in Nat /\ b \in Nat
    <3>1. attempt \in {0, 1, 2, 3, 4}
      BY <1>2
    <3> QED
      BY <1>1, <3>1, DoublingValues
  <2>4. elapsed' = elapsed + d /\ d \in Nat /\ d <= Backoff
    BY <1>3 DEF Abandon
  <2>5. a + c <= WorstCase
    BY <1>1, <1>2, NextDelayWithinWorstCase
  <2>6. WorstCase \in Nat
    BY LimitsAssumption, DoublingValues DEF WorstCase, MaxRetries
  <2>7. elapsed' <= WorstCase
    <3> HIDE DEF a, b, c
    <3> QED
      BY <1>1, <1>3, <2>1, <2>2, <2>3, <2>4, <2>5, <2>6
  <2>8. pc' = "returned"
    BY DEF Abandon
  <2> QED
    BY <2>7, <2>8 DEF Budget, WorstCase
<1>6. Counted'
  BY <1>1 DEF IInv, TypeOK, Counted, Abandon
<1> QED
  BY <1>4, <1>5, <1>6 DEF IInv

LEMMA NextIInv == ASSUME IInv, [Next]_vars PROVE IInv'
<1>1. CASE UNCHANGED vars
  <2>1. /\ timeout' = timeout /\ retries' = retries /\ delay' = delay
        /\ pc' = pc /\ attempt' = attempt /\ outcome' = outcome /\ canceled' = canceled
        /\ elapsed' = elapsed /\ calls' = calls /\ attempts' = attempts
    BY <1>1 DEF vars, settings
  <2>2. TypeOK'
    BY <2>1, Zenon DEF IInv, TypeOK
  <2>3. Budget'
    BY <2>1, Zenon DEF IInv, Budget
  <2>4. Counted'
    BY <2>1, Zenon DEF IInv, Counted
  <2> QED
    BY <2>2, <2>3, <2>4 DEF IInv
<1> QED
  BY <1>1, CancelIInv, AttemptIInv, RetryIInv, AbandonIInv DEF Next

----------------------------------------------------------------------------------
(* The inductive invariant holds throughout.                                    *)
THEOREM RetryInvariant == Spec => []IInv
BY InitIInv, NextIInv, PTL DEF Spec

(* A probe ends before its execution may be taken over, whatever limits of the  *)
(* API the task's settings exhaust.                                             *)
THEOREM ProbeEndsWhileOwned == Spec => []EndsWhileOwned
<1>1. IInv => EndsWhileOwned
  <2> SUFFICES ASSUME IInv PROVE EndsWhileOwned
    OBVIOUS
  <2>1. /\ timeout \in 0..MaxTimeout /\ delay \in 0..MaxDelay
        /\ MaxTimeout \in Nat /\ MaxDelay \in Nat
        /\ retries \in 0..5 /\ attempt \in 0..5
        /\ elapsed \in Nat
    BY Numbers DEF IInv, TypeOK
  <2> DEFINE a == attempt * timeout
             b == delay * (Doubling[attempt + 1] - 1)
  <2>2. /\ a \in Nat /\ b \in Nat /\ WorstCase \in Nat /\ IdleTimeout \in Nat
        /\ (attempt + 1) * timeout = a + timeout
    <3>1. attempt \in {0, 1, 2, 3, 4, 5}
      BY <2>1
    <3> QED
      BY <2>1, <3>1, LimitsAssumption, DoublingValues DEF WorstCase, MaxRetries
  <2>3. a + timeout + b <= WorstCase
    BY <2>1, <2>2, WithinWorstCase
  <2>4. \/ elapsed <= a + b
        \/ elapsed <= a + timeout + b
        \/ elapsed <= WorstCase
    <3>1. CASE pc = "attempt"
      BY <3>1 DEF IInv, Budget
    <3>2. CASE pc = "delay"
      BY <2>2, <3>2 DEF IInv, Budget
    <3>3. CASE pc = "returned"
      BY <3>3 DEF IInv, Budget, WorstCase
    <3> QED
      BY <3>1, <3>2, <3>3 DEF IInv, TypeOK
  <2> HIDE DEF a, b
  <2>5. elapsed <= WorstCase
    BY <2>1, <2>2, <2>3, <2>4
  <2> QED
    BY <2>1, <2>2, <2>5, IdleAssumption DEF EndsWhileOwned
<1> QED
  BY <1>1, RetryInvariant, PTL

(* attempt_count is the number of probes of the target, at most retries + 1.    *)
THEOREM AttemptsAreCounted == Spec => []AttemptsCounted
<1>1. IInv => AttemptsCounted
  BY Numbers DEF IInv, TypeOK, Counted, AttemptsCounted
<1> QED
  BY <1>1, RetryInvariant, PTL
===================================================================================
