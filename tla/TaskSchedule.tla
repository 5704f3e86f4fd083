------------------------------ MODULE TaskSchedule -------------------------------
(* What the schedulers promise about probe tasks, whatever their transactions   *)
(* read and lock, wait for or roll back: a batch of due tasks is run in one     *)
(* step, at the reading of one scheduler's clock that need not be the latest.   *)
(* The API changes tasks and services between two such steps, and never has to  *)
(* know of them.  Scheduler implements this specification.                      *)
EXTENDS Integers, Sequences

CONSTANTS
  Schedulers, Tasks, Services, Intervals,
  Skew,     \* offset of each scheduler's clock, the API's under "api"
  Batches   \* the sets of tasks that one step may run

VARIABLES
  now,
  task,      \* status, service, interval and next run
  service,   \* "active" or "disabled"
  runs       \* the executions of a task, in order: due time, clock, interval

vars == <<now, task, service, runs>>

Init ==
  /\ now = 0
  /\ task = [t \in Tasks |-> [status |-> "absent", service |-> "none", interval |-> 0, next |-> 0]]
  /\ service = [s \in Services |-> "active"]
  /\ runs = [t \in Tasks |-> <<>>]

Tick == now' = now + 1 /\ UNCHANGED <<task, service, runs>>

CreateTask(t, s, i) ==
  /\ task[t].status = "absent"
  /\ task' = [task EXCEPT ![t] =
       [status |-> "active", service |-> s, interval |-> i, next |-> now + Skew["api"]]]
  /\ UNCHANGED <<now, service, runs>>

UpdateTask(t, s, i) ==
  /\ task[t].status # "absent"
  /\ task' = [task EXCEPT ![t].service = s, ![t].interval = i]
  /\ UNCHANGED <<now, service, runs>>

DisableTask(t) ==
  /\ task[t].status # "absent"
  /\ task' = [task EXCEPT ![t].status = "disabled"]
  /\ UNCHANGED <<now, service, runs>>

DisableService(s) ==
  /\ service' = [service EXCEPT ![s] = "disabled"]
  /\ UNCHANGED <<now, task, runs>>

\* The tasks that are due at a clock.
Due(c) ==
  {t \in Tasks :
     task[t].status = "active" /\ service[task[t].service] = "active" /\ task[t].next <= c}

\* Due tasks get an execution each, for the run they were due for, and the next
\* run counts from the clock.
RunBatch(S, c) ==
  /\ S # {} /\ S \subseteq Due(c)
  /\ runs' = [t \in Tasks |->
       IF t \in S
       THEN Append(runs[t], [at |-> task[t].next, clock |-> c, interval |-> task[t].interval])
       ELSE runs[t]]
  /\ task' = [t \in Tasks |->
       IF t \in S THEN [task[t] EXCEPT !.next = c + task[t].interval] ELSE task[t]]
  /\ UNCHANGED <<now, service>>

Next ==
  \/ Tick
  \/ \E t \in Tasks :
       \/ \E s \in Services, i \in Intervals : CreateTask(t, s, i) \/ UpdateTask(t, s, i)
       \/ DisableTask(t)
  \/ \E s \in Services : DisableService(s)
  \/ \E S \in Batches, p \in Schedulers, n \in 0..now : RunBatch(S, n + Skew[p])

Spec == Init /\ [][Next]_vars
==================================================================================
