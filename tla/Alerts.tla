---------------------------------- MODULE Alerts ----------------------------------
(* From the results of one probe task to its alert (platform/metrics/worker.go, *)
(* deploy/prometheus): every worker process exports the newest finished         *)
(* execution as a gauge, Prometheus scrapes each process for itself and fires   *)
(* the rule CloudSentinelProbeFailure for every series that stays 0.            *)
(*                                                                              *)
(* Executions are numbered in the order in which they were scheduled and finish *)
(* in any order.  The labels of a series are service_id and probe_type: to move *)
(* the task to another service, or to change the type of its service, renames   *)
(* the series from the next execution on.  A scrape that fails, or finds the    *)
(* database unreachable, ends the series of that process until the next one.    *)
EXTENDS Naturals

CONSTANTS
  Workers,    \* the worker processes that Prometheus scrapes
  Services,
  Types,      \* of a service: http or tcp
  MaxRuns,    \* bound: executions of the task
  For,        \* evaluations after which a failing series fires (for: 30s)
  MaxErrors,  \* bound: scrapes that bring nothing
  None

ASSUME AlertsAssumption ==
  /\ MaxRuns \in Nat
  /\ For \in Nat \ {0}
  /\ MaxErrors \in Nat
  /\ None \notin [series : [service : Services, type : Types], success : BOOLEAN]

VARIABLES
  run,      \* probe_results of the task: status, service_id and probe_type
  service,  \* probe_tasks.service_id
  type,     \* services.type
  reply,    \* per process, the answer to a scrape on its way, None without one
  sample,   \* per process, what Prometheus holds, None without series
  shown,    \* per process, the last execution Prometheus got to see, 0 before
  alert,    \* per series and process, evaluations failed in a row, and on what
  errors    \* scrapes that brought nothing

vars == <<run, service, type, reply, sample, shown, alert, errors>>

Runs == 1 .. MaxRuns
Quiet == [count |-> 0, on |-> 0]

\* The labels of the task's series, and those that its next execution will have.
Series == [service : Services, type : Types]
Labels == [service |-> service, type |-> type[service]]

Init ==
  /\ run = [i \in Runs |-> [status |-> "absent", series |-> None]]
  /\ service \in Services
  /\ type \in [Services -> Types]
  /\ reply = [w \in Workers |-> None]
  /\ sample = [w \in Workers |-> None]
  /\ shown = [w \in Workers |-> 0]
  /\ alert = [s \in Series |-> [w \in Workers |-> Quiet]]
  /\ errors = 0

Finished(i) == run[i].status \in {"succeeded", "failed"}

----------------------------------------------------------------------------------
(* The task and its executions                                                  *)

\* The scheduler inserts the next row for the service the task has now and its type.
Schedule(i) ==
  /\ run[i].status = "absent"
  /\ \A j \in Runs : j < i => run[j].status # "absent"
  /\ run' = [run EXCEPT ![i] = [status |-> "open", series |-> Labels]]
  /\ UNCHANGED <<service, type, reply, sample, shown, alert, errors>>

\* MarkFinal stores a result, once.
Finish(i, status) ==
  /\ run[i].status = "open"
  /\ run' = [run EXCEPT ![i].status = status]
  /\ UNCHANGED <<service, type, reply, sample, shown, alert, errors>>

\* The API moves the task.
Move(s) ==
  /\ service' = s
  /\ UNCHANGED <<run, type, reply, sample, shown, alert, errors>>

\* Repository.UpdateService: a service gets another type.
Retype(s, t) ==
  /\ type' = [type EXCEPT ![s] = t]
  /\ UNCHANGED <<run, service, reply, sample, shown, alert, errors>>

----------------------------------------------------------------------------------
(* Scrapes                                                                      *)

Latest(i) == Finished(i) /\ \A j \in Runs : Finished(j) => j <= i
SampleOf(i) == [id |-> i, series |-> run[i].series, success |-> run[i].status = "succeeded"]

\* Faulty variant: any finished row, as with the time it finished for its age.
CollectAnyFinished(w) ==
  /\ reply[w] = None
  /\ \E i \in Runs : Finished(i) /\ reply' = [reply EXCEPT ![w] = SampleOf(i)]
  /\ UNCHANGED <<run, service, type, sample, shown, alert, errors>>

\* Faulty variant: the newest failure.
CollectFailure(w) ==
  /\ reply[w] = None
  /\ \E i \in Runs :
       /\ run[i].status = "failed" /\ \A j \in Runs : run[j].status = "failed" => j <= i
       /\ reply' = [reply EXCEPT ![w] = SampleOf(i)]
  /\ UNCHANGED <<run, service, type, sample, shown, alert, errors>>

\* One query finds the finished row with the greatest id.
Collect(w) ==
  /\ reply[w] = None
  /\ \E i \in Runs : Latest(i) /\ reply' = [reply EXCEPT ![w] = SampleOf(i)]
  /\ UNCHANGED <<run, service, type, sample, shown, alert, errors>>

\* Prometheus stores what the process answered.
Store(w) ==
  /\ reply[w] # None
  /\ sample' = [sample EXCEPT ![w] = reply[w]]
  /\ shown' = [shown EXCEPT ![w] = reply[w].id]
  /\ reply' = [reply EXCEPT ![w] = None]
  /\ UNCHANGED <<run, service, type, alert, errors>>

\* The query fails, the process is away or does not answer in time: the series
\* ends.
Lose(w) ==
  /\ errors < MaxErrors
  /\ errors' = errors + 1
  /\ sample' = [sample EXCEPT ![w] = None]
  /\ reply' = [reply EXCEPT ![w] = None]
  /\ UNCHANGED <<run, service, type, shown, alert>>

----------------------------------------------------------------------------------
(* The rule                                                                     *)

Failing(s, w) == sample[w] # None /\ sample[w].series = s /\ ~sample[w].success

Capped(n) == IF n < For THEN n ELSE For

\* Faulty variant: the wait starts anew when it is over.
EvaluateWrapped ==
  /\ alert' = [s \in Series |-> [w \in Workers |->
                 IF Failing(s, w)
                   THEN [count |-> (alert[s][w].count + 1) % For, on |-> sample[w].id]
                   ELSE Quiet]]
  /\ UNCHANGED <<run, service, type, reply, sample, shown, errors>>

\* A series that is 0 is pending, after For evaluations it fires; one that is 1 or
\* gone is neither.
Evaluate ==
  /\ alert' = [s \in Series |-> [w \in Workers |->
                 IF Failing(s, w)
                   THEN [count |-> Capped(alert[s][w].count + 1), on |-> sample[w].id]
                   ELSE Quiet]]
  /\ UNCHANGED <<run, service, type, reply, sample, shown, errors>>

Next ==
  \/ \E i \in Runs : Schedule(i) \/ Finish(i, "succeeded") \/ Finish(i, "failed")
  \/ \E s \in Services : Move(s) \/ \E t \in Types : Retype(s, t)
  \/ \E w \in Workers : Collect(w) \/ Store(w) \/ Lose(w)
  \/ Evaluate

\* Prometheus scrapes every process and evaluates the rule at its intervals.
Fairness ==
  /\ \A w \in Workers : WF_vars(Collect(w)) /\ WF_vars(Store(w))
  /\ WF_vars(Evaluate)

Spec == Init /\ [][Next]_vars /\ Fairness

----------------------------------------------------------------------------------
(* Properties                                                                   *)

SampleType == [id : Runs, series : Series, success : BOOLEAN]

TypeOK ==
  /\ run \in [Runs -> [status : {"absent", "open", "succeeded", "failed"},
                       series : Series \cup {None}]]
  /\ service \in Services
  /\ type \in [Services -> Types]
  /\ reply \in [Workers -> SampleType \cup {None}]
  /\ sample \in [Workers -> SampleType \cup {None}]
  /\ shown \in [Workers -> Nat]
  /\ alert \in [Series -> [Workers -> [count : 0 .. For, on : 0 .. MaxRuns]]]
  /\ errors \in 0 .. MaxErrors

\* What a process answered, Prometheus holds and an alert rests on is what a
\* finished execution found, in this order never older than the last.
IInv ==
  /\ TypeOK
  /\ \A i \in Runs : run[i].status # "absent" => run[i].series \in Series
  /\ \A w \in Workers :
       /\ reply[w] # None => /\ Finished(reply[w].id)
                             /\ reply[w] = SampleOf(reply[w].id)
                             /\ reply[w].id >= shown[w]
       /\ sample[w] # None => /\ Finished(sample[w].id)
                              /\ sample[w] = SampleOf(sample[w].id)
                              /\ sample[w].id = shown[w]
       /\ shown[w] # 0 => shown[w] \in Runs /\ Finished(shown[w])
  /\ \A s \in Series, w \in Workers :
       alert[s][w].count > 0 =>
         /\ run[alert[s][w].on] = [status |-> "failed", series |-> s]
         /\ alert[s][w].on \in 1 .. shown[w]

Firing(s, w) == alert[s][w].count = For

\* docs/monitoring.md:17: an alert, pending or firing, rests on a probe with
\* the labels of its series that failed, never on one that is still running.
AlertHasFailure ==
  \A s \in Series, w \in Workers :
    alert[s][w].count > 0 => \E i \in Runs : run[i] = [status |-> "failed", series |-> s]

\* worker.go:63: although executions finish in any order, and whatever scrapes are
\* lost, Prometheus never sees an older execution after a newer one.
GaugeNeverGoesBack == [][\A w \in Workers : shown'[w] >= shown[w]]_vars

\* docs/monitoring.md:17, docs/demo.md:38: the alert as an abstract specification,
\* in which there are results and what was seen of them, and neither rows that are
\* open, nor answers on their way, nor a task that moves or a service that changes.
result == [i \in Runs |-> IF Finished(i)
                           THEN [series |-> run[i].series, success |-> run[i].status = "succeeded"]
                           ELSE None]
Failure == INSTANCE FailureAlert WITH seen <- shown
ImplementsFailureAlert == Failure!Spec

\* docs/demo.md:52: an alert that fires ends when a later probe succeeds, and else
\* only when the series ends: by a scrape that failed, or by a later probe, however
\* it ended, after the task was moved or its service got another type.
EndsForReason ==
  [][\A s \in Series, w \in Workers :
       Firing(s, w) /\ alert'[s][w] = Quiet =>
         \/ sample[w] = None
         \/ \E i \in Runs :
              /\ i > alert[s][w].on
              /\ \/ run[i].status = "succeeded"
                 \/ Finished(i) /\ run[i].series # s]_vars

\* The newest finished probe has these labels, and this is how it ended.
Newest(s, status) == \E i \in Runs : Latest(i) /\ run[i] = [status |-> status, series |-> s]

\* docs/demo.md:38: a probe that keeps failing fires the alert, through every
\* process, though scrapes get lost.
FailureFires ==
  \A s \in Series, w \in Workers : Newest(s, "failed") ~> Firing(s, w) \/ ~Newest(s, "failed")

\* docs/demo.md:52: a probe that succeeds again ends the alert of every process.
SuccessResolves ==
  \A s \in Series, w \in Workers :
    Newest(s, "succeeded") ~> ~Firing(s, w) \/ ~Newest(s, "succeeded")
===================================================================================
