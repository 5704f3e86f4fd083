------------------------------- MODULE FailureAlert -------------------------------
(* What monitoring promises about the alert of a probe task: it rests on        *)
(* results, of which every observer gets to see newer ones only; it counts the  *)
(* evaluations at which the newest one seen is a failure of that series, and    *)
(* is gone at the first one at which it is not, or at which nothing is seen.    *)
EXTENDS Integers

CONSTANTS
  Workers,    \* the observers: each worker process is scraped for itself
  Series,     \* the labels a result may have
  MaxRuns,    \* executions of the task
  For,        \* evaluations after which a failing series fires
  None

VARIABLES
  result,   \* what the executions that are finished found, None before
  seen,     \* per worker, the newest execution of which it showed the result
  alert     \* per series and worker, failures evaluated in a row, and on what

vars == <<result, seen, alert>>

Runs == 1 .. MaxRuns
Quiet == [count |-> 0, on |-> 0]

Init ==
  /\ result = [i \in Runs |-> None]
  /\ seen = [w \in Workers |-> 0]
  /\ alert = [s \in Series |-> [w \in Workers |-> Quiet]]

\* An execution finishes, once.
Record(i, s, success) ==
  /\ result[i] = None
  /\ result' = [result EXCEPT ![i] = [series |-> s, success |-> success]]
  /\ UNCHANGED <<seen, alert>>

\* A result is seen, never an older one than before.
See(w, i) ==
  /\ result[i] # None
  /\ seen[w] <= i
  /\ seen' = [seen EXCEPT ![w] = i]
  /\ UNCHANGED <<result, alert>>

FailureSeen(s, w) == seen[w] # 0 /\ result[seen[w]] = [series |-> s, success |-> FALSE]

\* The rule is evaluated where the worker is up.
Evaluate(up) ==
  /\ alert' = [s \in Series |-> [w \in Workers |->
                 IF w \in up /\ FailureSeen(s, w)
                   THEN [count |-> IF alert[s][w].count < For THEN alert[s][w].count + 1 ELSE For,
                         on |-> seen[w]]
                   ELSE Quiet]]
  /\ UNCHANGED <<result, seen>>

Next ==
  \/ \E i \in Runs, s \in Series, success \in BOOLEAN : Record(i, s, success)
  \/ \E w \in Workers, i \in Runs : See(w, i)
  \/ \E up \in SUBSET Workers : Evaluate(up)

Spec == Init /\ [][Next]_vars
===================================================================================
