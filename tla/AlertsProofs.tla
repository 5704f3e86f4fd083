------------------------------- MODULE AlertsProofs -------------------------------
(* Machine-checked proofs about Alerts, for any number of worker processes,     *)
(* services, types, executions and lost scrapes, and any length of the wait.    *)
(*                                                                              *)
(* A finished execution never changes.  So what a process answered, Prometheus  *)
(* holds and an alert rests on can be compared through the number of an         *)
(* execution alone, and these numbers grow from the alert over the sample to    *)
(* the answer on its way.                                                       *)
EXTENDS Alerts, TLAPS

\* What is said of one process: its answer, its series, what was seen of it.
ProcessOK(w) ==
  /\ reply[w] # None => /\ Finished(reply[w].id)
                        /\ reply[w] = SampleOf(reply[w].id)
                        /\ reply[w].id >= shown[w]
  /\ sample[w] # None => /\ Finished(sample[w].id)
                         /\ sample[w] = SampleOf(sample[w].id)
                         /\ sample[w].id = shown[w]
  /\ shown[w] # 0 => shown[w] \in Runs /\ Finished(shown[w])

AlertOK(s, w) ==
  alert[s][w].count > 0 =>
    /\ run[alert[s][w].on] = [status |-> "failed", series |-> s]
    /\ alert[s][w].on \in 1 .. shown[w]

RowsOK == \A i \in Runs : run[i].status # "absent" => run[i].series \in Series

LEMMA IInvParts ==
  /\ IInv <=> TypeOK /\ RowsOK /\ (\A w \in Workers : ProcessOK(w))
                     /\ (\A s \in Series, w \in Workers : AlertOK(s, w))
  /\ IInv' <=> TypeOK' /\ RowsOK' /\ (\A w \in Workers : ProcessOK(w)')
                       /\ (\A s \in Series, w \in Workers : AlertOK(s, w)')
BY Zenon DEF IInv, RowsOK, ProcessOK, AlertOK

\* What a sample says is what its execution found.
LEMMA SampleFacts ==
  ASSUME IInv, NEW w \in Workers, sample[w] # None
  PROVE  /\ run[sample[w].id].series = sample[w].series
         /\ sample[w].success => run[sample[w].id].status = "succeeded"
         /\ ~ sample[w].success => run[sample[w].id].status = "failed"
<1>1. sample[w] = SampleOf(sample[w].id) /\ Finished(sample[w].id)
  BY IInvParts DEF ProcessOK
<1> DEFINE i == sample[w].id
<1>2. SampleOf(i).series = run[i].series /\ SampleOf(i).success = (run[i].status = "succeeded")
  BY DEF SampleOf
<1>3. sample[w].series = run[i].series /\ sample[w].success = (run[i].status = "succeeded")
  BY <1>1, <1>2
<1>4. run[i].status \in {"succeeded", "failed"}
  BY <1>1 DEF Finished
<1> HIDE DEF i
<1> QED
  BY <1>3, <1>4 DEF i

LEMMA InitIInv == Init => IInv
<1> SUFFICES ASSUME Init PROVE IInv
  OBVIOUS
<1>1. TypeOK
  BY AlertsAssumption DEF Init, TypeOK, Quiet, Runs
<1>2. RowsOK /\ (\A w \in Workers : ProcessOK(w))
  BY DEF Init, RowsOK, ProcessOK
<1>3. \A s \in Series, w \in Workers : AlertOK(s, w)
  BY DEF Init, AlertOK, Quiet
<1> QED
  BY <1>1, <1>2, <1>3, IInvParts

\* Rows: a step of the table leaves what is finished as it is.
LEMMA RowStep ==
  ASSUME IInv, NEW i \in Runs,
         Schedule(i) \/ Finish(i, "succeeded") \/ Finish(i, "failed")
  PROVE  IInv'
<1>1. /\ run' \in [Runs -> [status : {"absent", "open", "succeeded", "failed"},
                            series : Series \cup {None}]]
      /\ RowsOK'
      /\ \A j \in Runs : Finished(j) => run'[j] = run[j]
  <2> USE IInvParts
  <2>1. CASE Schedule(i)
    <3> DEFINE row == [status |-> "open", series |-> Labels]
    <3>1. /\ row \in [status : {"absent", "open", "succeeded", "failed"},
                      series : Series \cup {None}]
          /\ row.series \in Series
      BY DEF TypeOK, Labels, Series
    <3>2. run' = [run EXCEPT ![i] = row] /\ ~Finished(i)
      BY <2>1 DEF Schedule, Finished
    <3> HIDE DEF row
    <3> QED
      BY <3>1, <3>2 DEF TypeOK, RowsOK
  <2>2. CASE Finish(i, "succeeded") \/ Finish(i, "failed")
    <3>1. PICK status \in {"succeeded", "failed"} : run' = [run EXCEPT ![i].status = status]
      BY <2>2 DEF Finish
    <3>2. run[i].status = "open"
      BY <2>2 DEF Finish
    <3> QED
      BY <3>1, <3>2 DEF TypeOK, RowsOK, Finished
  <2> QED
    BY <2>1, <2>2
<1>2. UNCHANGED <<service, type, reply, sample, shown, alert, errors>>
  BY DEF Schedule, Finish
<1>3. TypeOK'
  BY <1>1, <1>2, IInvParts DEF TypeOK
<1>4. ASSUME NEW w \in Workers PROVE ProcessOK(w)'
  <2>1. ProcessOK(w)
    BY IInvParts
  <2>2. /\ reply[w] # None => reply[w].id \in Runs
        /\ sample[w] # None => sample[w].id \in Runs
    BY IInvParts DEF TypeOK, SampleType
  <2> QED
    BY <1>1, <1>2, <2>1, <2>2 DEF ProcessOK, Finished, SampleOf
<1>5. ASSUME NEW s \in Series, NEW w \in Workers PROVE AlertOK(s, w)'
  <2>1. AlertOK(s, w) /\ ProcessOK(w) /\ shown[w] \in Nat
    BY IInvParts DEF TypeOK
  <2>2. CASE alert[s][w].count > 0
    <3>1. alert[s][w].on \in Runs
      BY <2>1, <2>2, AlertsAssumption DEF AlertOK, ProcessOK, Runs
    <3>2. Finished(alert[s][w].on)
      BY <2>1, <2>2 DEF AlertOK, Finished
    <3> QED
      BY <1>1, <1>2, <2>1, <2>2, <3>1, <3>2 DEF AlertOK
  <2>3. CASE ~ (alert[s][w].count > 0)
    BY <1>2, <2>3 DEF AlertOK
  <2> QED
    BY <2>2, <2>3
<1> QED
  BY <1>1, <1>3, <1>4, <1>5, IInvParts

LEMMA ScrapeStep ==
  ASSUME IInv, NEW w \in Workers, Collect(w) \/ Store(w) \/ Lose(w)
  PROVE  IInv'
<1>0. UNCHANGED <<run, service, type, alert>> /\ RowsOK'
  BY IInvParts DEF Collect, Store, Lose, RowsOK
<1>1. CASE Collect(w)
  <2> PICK i \in Runs : Latest(i) /\ reply' = [reply EXCEPT ![w] = SampleOf(i)]
    BY <1>1 DEF Collect
  <2>1. UNCHANGED <<run, sample, shown, errors>>
    BY <1>1 DEF Collect
  <2>2. SampleOf(i) \in SampleType /\ SampleOf(i).id = i
    BY IInvParts DEF SampleOf, SampleType, Latest, Finished, RowsOK
  <2>3. TypeOK'
    BY <1>0, <2>1, <2>2, IInvParts DEF TypeOK
  <2>4. ASSUME NEW v \in Workers PROVE ProcessOK(v)'
    <3>1. ProcessOK(v) /\ shown[v] \in Nat
      BY IInvParts DEF TypeOK
    <3>2. CASE v = w
      <4>1. reply'[w] = SampleOf(i) /\ SampleOf(i)' = SampleOf(i) /\ Finished(i)'
        BY <2>1, IInvParts DEF TypeOK, SampleOf, Latest, Finished
      <4>2. i >= shown[w]
        BY <3>1, <3>2 DEF ProcessOK, Latest, Runs
      <4> QED
        BY <2>1, <2>2, <3>1, <3>2, <4>1, <4>2 DEF ProcessOK, SampleOf, Finished
    <3>3. CASE v # w
      <4>1. reply'[v] = reply[v]
        BY <3>3, IInvParts DEF TypeOK
      <4> QED
        BY <2>1, <3>1, <4>1 DEF ProcessOK, SampleOf, Finished
    <3> QED
      BY <3>2, <3>3
  <2>5. \A s \in Series, v \in Workers : AlertOK(s, v)'
    BY <1>0, <2>1, IInvParts DEF AlertOK
  <2> QED
    BY <1>0, <2>3, <2>4, <2>5, IInvParts
<1>2. CASE Store(w)
  <2>1. /\ reply[w] # None /\ reply[w] \in SampleType /\ ProcessOK(w)
        /\ shown[w] \in Nat /\ reply[w].id \in Nat
    BY <1>2, IInvParts DEF Store, TypeOK, SampleType, Runs
  <2>2. TypeOK'
    BY <1>0, <1>2, <2>1, IInvParts DEF TypeOK, Store
  <2>3. ASSUME NEW v \in Workers PROVE ProcessOK(v)'
    <3>1. CASE v = w
      <4>1. reply'[w] = None /\ sample'[w] = reply[w] /\ shown'[w] = reply[w].id
        BY <1>2, IInvParts DEF Store, TypeOK
      <4>2. reply[w].id \in Runs
        BY <2>1 DEF SampleType
      <4> QED
        BY <1>0, <2>1, <3>1, <4>1, <4>2 DEF ProcessOK, SampleOf, Finished
    <3>2. CASE v # w
      <4>1. reply'[v] = reply[v] /\ sample'[v] = sample[v] /\ shown'[v] = shown[v]
        BY <1>2, <3>2, IInvParts DEF Store, TypeOK
      <4> QED
        BY <1>0, <4>1, IInvParts DEF ProcessOK, SampleOf, Finished
    <3> QED
      BY <3>1, <3>2
  <2>4. ASSUME NEW s \in Series, NEW v \in Workers PROVE AlertOK(s, v)'
    <3>1. shown'[v] >= shown[v] /\ shown[v] \in Nat /\ shown'[v] \in Nat
      BY <1>2, <2>1, IInvParts DEF Store, TypeOK, ProcessOK
    <3>2. AlertOK(s, v) /\ alert[s][v].on \in Nat
      BY IInvParts DEF TypeOK
    <3> QED
      BY <1>0, <3>1, <3>2 DEF AlertOK
  <2> QED
    BY <1>0, <2>2, <2>3, <2>4, IInvParts
<1>3. CASE Lose(w)
  <2>1. TypeOK'
    BY <1>0, <1>3, AlertsAssumption, IInvParts DEF TypeOK, Lose
  <2>2. ASSUME NEW v \in Workers PROVE ProcessOK(v)'
    <3>1. /\ shown'[v] = shown[v]
          /\ reply'[v] = reply[v] \/ reply'[v] = None
          /\ sample'[v] = sample[v] \/ sample'[v] = None
      BY <1>3, IInvParts DEF Lose, TypeOK
    <3> QED
      BY <1>0, <3>1, IInvParts DEF ProcessOK, SampleOf, Finished
  <2>3. \A s \in Series, v \in Workers : AlertOK(s, v)'
    BY <1>0, <1>3, IInvParts DEF AlertOK, Lose
  <2> QED
    BY <1>0, <2>1, <2>2, <2>3, IInvParts
<1> QED
  BY <1>1, <1>2, <1>3

LEMMA EvaluateStep ==
  ASSUME IInv, Evaluate
  PROVE  IInv'
<1>1. UNCHANGED <<run, service, type, reply, sample, shown, errors>>
  BY DEF Evaluate
<1>2. ASSUME NEW s \in Series, NEW w \in Workers
      PROVE  alert'[s][w] \in [count : 0 .. For, on : 0 .. MaxRuns] /\ AlertOK(s, w)'
  <2>1. CASE Failing(s, w)
    <3>1. /\ alert'[s][w].on = sample[w].id
          /\ alert'[s][w] = [count |-> Capped(alert[s][w].count + 1), on |-> sample[w].id]
      BY <2>1 DEF Evaluate
    <3>2. sample[w] \in SampleType /\ ProcessOK(w) /\ shown[w] \in Nat
      BY <2>1, IInvParts DEF Failing, TypeOK
    <3>3. sample[w].id \in 1 .. MaxRuns /\ sample[w].id \in 1 .. shown[w]
      BY <2>1, <3>2 DEF Failing, ProcessOK, SampleType, Runs
    <3>4. run[sample[w].id] = [status |-> "failed", series |-> s]
      <4>1. /\ run[sample[w].id].status = "failed" /\ run[sample[w].id].series = s
        BY <2>1, SampleFacts DEF Failing
      <4>2. run[sample[w].id] \in [status : {"absent", "open", "succeeded", "failed"},
                                   series : Series \cup {None}]
        BY <3>3, IInvParts DEF TypeOK, Runs
      <4> QED
        BY <4>1, <4>2
    <3>5. Capped(alert[s][w].count + 1) \in 0 .. For
      <4>1. alert[s][w].count \in 0 .. For
        BY IInvParts DEF TypeOK
      <4> QED
        BY <4>1, AlertsAssumption DEF Capped
    <3> QED
      BY <1>1, <3>1, <3>3, <3>4, <3>5, AlertsAssumption DEF AlertOK
  <2>2. CASE ~ Failing(s, w)
    BY <2>2, AlertsAssumption DEF Evaluate, Quiet, AlertOK
  <2> QED
    BY <2>1, <2>2
<1>3. TypeOK'
  <2>1. alert' \in [Series -> [Workers -> [count : 0 .. For, on : 0 .. MaxRuns]]]
    <3>1. alert' = [s \in Series |-> [w \in Workers |-> alert'[s][w]]]
      BY DEF Evaluate
    <3> QED
      BY <1>2, <3>1
  <2> QED
    BY <1>1, <2>1, IInvParts DEF TypeOK
<1>4. RowsOK' /\ \A w \in Workers : ProcessOK(w)'
  BY <1>1, IInvParts DEF RowsOK, ProcessOK, SampleOf, Finished
<1> QED
  BY <1>2, <1>3, <1>4, IInvParts

LEMMA NextIInv ==
  ASSUME IInv, [Next]_vars
  PROVE  IInv'
<1>1. CASE \E s \in Services : Move(s) \/ \E t \in Types : Retype(s, t)
  BY <1>1, IInvParts DEF Move, Retype, TypeOK, RowsOK, ProcessOK, AlertOK, SampleOf, Finished
<1>2. CASE UNCHANGED vars
  BY <1>2, IInvParts DEF vars, TypeOK, RowsOK, ProcessOK, AlertOK, SampleOf, Finished
<1> QED
  BY <1>1, <1>2, RowStep, ScrapeStep, EvaluateStep DEF Next

----------------------------------------------------------------------------------
\* What was answered, is held and alerted on stems from finished executions, in
\* their order; the domains of the variables are part of it.
THEOREM AlertsInvariant == Spec => []IInv
BY InitIInv, NextIInv, PTL DEF Spec

(* worker.go:63: an alert, pending or firing, rests on a failed probe with its  *)
(* labels, whatever finishes in whatever order.                                 *)
THEOREM AlertsRestOnFailures == Spec => []AlertHasFailure
<1>1. IInv => AlertHasFailure
  <2> SUFFICES ASSUME IInv, NEW s \in Series, NEW w \in Workers, alert[s][w].count > 0
               PROVE  \E i \in Runs : run[i] = [status |-> "failed", series |-> s]
    BY DEF AlertHasFailure
  <2>1. AlertOK(s, w) /\ ProcessOK(w) /\ shown[w] \in Nat
    BY IInvParts DEF TypeOK
  <2>2. alert[s][w].on \in Runs
    BY <2>1, AlertsAssumption DEF AlertOK, ProcessOK, Runs
  <2> QED
    BY <2>1, <2>2 DEF AlertOK
<1> QED
  BY <1>1, InitIInv, NextIInv, PTL DEF Spec

(* worker.go:63: no process ever shows Prometheus an older execution than one it*)
(* showed before.                                                               *)
THEOREM GaugeGoesForward == Spec => GaugeNeverGoesBack
<1>1. ASSUME IInv, [Next]_vars
      PROVE  [\A w \in Workers : shown'[w] >= shown[w]]_vars
  <2> SUFFICES ASSUME NEW w \in Workers PROVE shown'[w] >= shown[w]
    OBVIOUS
  <2>0. shown \in [Workers -> Nat] /\ ProcessOK(w)
    BY <1>1, IInvParts DEF TypeOK
  <2>1. CASE \E v \in Workers : Store(v)
    <3> PICK v \in Workers : Store(v)
      BY <2>1
    <3>1. CASE v = w
      BY <2>0, <3>1 DEF Store, ProcessOK
    <3>2. CASE v # w
      BY <2>0, <3>2 DEF Store
    <3> QED
      BY <3>1, <3>2
  <2>2. CASE ~ \E v \in Workers : Store(v)
    <3>1. shown' = shown
      BY <1>1, <2>2 DEF Next, vars, Schedule, Finish, Move, Retype, Collect, Lose, Evaluate
    <3> QED
      BY <2>0, <3>1
  <2> QED
    BY <2>1, <2>2
<1> QED
  BY <1>1, InitIInv, NextIInv, PTL DEF Spec, GaugeNeverGoesBack

(* rules/cloudsentinel.yml:4-6: a firing alert ends only when a later probe     *)
(* succeeded or has other labels, or when a scrape brought nothing.             *)
THEOREM AlertsEndForReason == Spec => EndsForReason
<1>1. ASSUME IInv, [Next]_vars
      PROVE  [\A s \in Series, w \in Workers :
                Firing(s, w) /\ alert'[s][w] = Quiet =>
                  \/ sample[w] = None
                  \/ \E i \in Runs :
                       /\ i > alert[s][w].on
                       /\ \/ run[i].status = "succeeded"
                          \/ Finished(i) /\ run[i].series # s]_vars
  <2> SUFFICES ASSUME NEW s \in Series, NEW w \in Workers,
                      Firing(s, w), alert'[s][w] = Quiet, sample[w] # None
               PROVE  \E i \in Runs :
                        /\ i > alert[s][w].on
                        /\ \/ run[i].status = "succeeded"
                           \/ Finished(i) /\ run[i].series # s
    OBVIOUS
  <2>1. alert[s][w].count > 0
    BY AlertsAssumption DEF Firing
  <2>2. Evaluate
    <3>1. alert'[s][w] # alert[s][w]
      BY <2>1 DEF Quiet
    <3> QED
      BY <1>1, <3>1 DEF Next, vars, Schedule, Finish, Move, Retype, Collect, Store, Lose
  <2>3. ~ Failing(s, w)
    <3> SUFFICES ASSUME Failing(s, w) PROVE FALSE
      OBVIOUS
    <3>1. Capped(alert[s][w].count + 1) = 0
      BY <2>2 DEF Evaluate, Quiet
    <3>2. alert[s][w].count \in 0 .. For
      BY <1>1, IInvParts DEF TypeOK
    <3> QED
      BY <3>1, <3>2, AlertsAssumption DEF Capped
  <2>4. sample[w] \in SampleType /\ ProcessOK(w) /\ AlertOK(s, w) /\ shown[w] \in Nat
    BY <1>1, IInvParts DEF TypeOK
  <2>5. run[sample[w].id].series # s \/ run[sample[w].id].status = "succeeded"
    BY <1>1, <2>3, SampleFacts DEF Failing
  <2>6. sample[w].id >= alert[s][w].on /\ sample[w].id # alert[s][w].on
    BY <2>1, <2>4, <2>5 DEF AlertOK, ProcessOK
  <2>7. sample[w].id \in Runs /\ alert[s][w].on \in Nat /\ Finished(sample[w].id)
    BY <2>1, <2>4 DEF SampleType, AlertOK, ProcessOK
  <2> QED
    BY <2>5, <2>6, <2>7 DEF Runs
<1> QED
  BY <1>1, InitIInv, NextIInv, PTL DEF Spec, EndsForReason

----------------------------------------------------------------------------------
(* Alerts implements FailureAlert: an answer that is collected, a scrape that   *)
(* is lost, an execution that is scheduled, a task that moves and a service     *)
(* that gets another type change nothing in it.                                 *)
ResultOf(i) == [series |-> run[i].series, success |-> run[i].status = "succeeded"]

LEMMA SameResult ==
  \A success \in BOOLEAN : \A s, t :
    [series |-> t, success |-> success] = [series |-> s, success |-> FALSE] <=> t = s /\ ~success
<1>1. ASSUME NEW s, NEW t
      PROVE  [series |-> t, success |-> TRUE] # [series |-> s, success |-> FALSE]
  OBVIOUS
<1>2. ASSUME NEW s, NEW t
      PROVE  [series |-> t, success |-> FALSE] = [series |-> s, success |-> FALSE] <=> t = s
  OBVIOUS
<1> QED
  BY <1>1, <1>2

LEMMA ResultFacts ==
  ASSUME IInv, NEW i \in Runs
  PROVE  /\ Finished(i) => result[i] = ResultOf(i) /\ result[i] # None
         /\ ~Finished(i) => result[i] = None
<1>1. result[i] = IF Finished(i) THEN ResultOf(i) ELSE None
  BY DEF result, ResultOf
<1>2. Finished(i) => ResultOf(i) \in [series : Series, success : BOOLEAN]
  BY IInvParts DEF RowsOK, Finished, ResultOf
<1> QED
  BY <1>1, <1>2, AlertsAssumption DEF Series

LEMMA InitFailure == Init => Failure!Init
<1> SUFFICES ASSUME Init PROVE Failure!Init
  OBVIOUS
<1>1. result = [i \in Runs |-> None]
  BY DEF Init, result, Finished
<1> QED
  BY <1>1 DEF Init, Failure!Init, Failure!Runs, Runs, Failure!Quiet, Quiet

\* A row that is finished stands for a result from then on.
LEMMA RowImplements ==
  ASSUME IInv, NEW i \in Runs,
         Schedule(i) \/ Finish(i, "succeeded") \/ Finish(i, "failed")
  PROVE  Failure!Next \/ UNCHANGED Failure!vars
<1>1. UNCHANGED <<shown, alert>>
  BY DEF Schedule, Finish
<1>2. CASE Schedule(i)
  <2>1. /\ run[i].status = "absent" /\ run'[i].status = "open"
        /\ \A j \in Runs : j # i => run'[j] = run[j]
    BY <1>2, IInvParts DEF Schedule, TypeOK
  <2>2. result' = result
    BY <2>1 DEF result, Finished
  <2> QED
    BY <1>1, <2>2 DEF Failure!vars
<1>3. ASSUME NEW status \in {"succeeded", "failed"}, Finish(i, status)
      PROVE  Failure!Next
  <2> DEFINE s == run[i].series
             success == status = "succeeded"
  <2>1. run[i].status = "open" /\ s \in Series
    BY <1>3, IInvParts DEF Finish, RowsOK
  <2>2. /\ run'[i].status = status /\ run'[i].series = s
        /\ \A j \in Runs : j # i => run'[j] = run[j]
    BY <1>3, IInvParts DEF Finish, TypeOK
  <2>3. result[i] = None
    BY <2>1 DEF result, Finished
  <2>4. result' = [result EXCEPT ![i] = [series |-> s, success |-> success]]
    <3>1. ResultOf(i)' = [series |-> s, success |-> success] /\ Finished(i)'
      BY <2>2 DEF ResultOf, Finished
    <3>2. \A j \in Runs : j # i => ResultOf(j)' = ResultOf(j) /\ Finished(j)' = Finished(j)
      BY <2>2 DEF ResultOf, Finished
    <3>3. result = [j \in Runs |-> IF Finished(j) THEN ResultOf(j) ELSE None]
      BY DEF result, ResultOf
    <3>4. result' = [j \in Runs |-> IF Finished(j)' THEN ResultOf(j)' ELSE None]
      BY DEF result, ResultOf
    <3> QED
      BY ONLY <3>1, <3>2, <3>3, <3>4, i \in Runs
  <2>5. Failure!Record(i, s, success)
    BY <1>1, <2>3, <2>4 DEF Failure!Record
  <2> QED
    BY <2>1, <2>5 DEF Failure!Next, Failure!Runs, Runs
<1> QED
  BY <1>2, <1>3

\* Only an answer that is stored is seen.
LEMMA ScrapeImplements ==
  ASSUME IInv, NEW w \in Workers, Collect(w) \/ Store(w) \/ Lose(w)
  PROVE  Failure!Next \/ UNCHANGED Failure!vars
<1>1. UNCHANGED <<result, alert>>
  BY DEF Collect, Store, Lose, result, Finished
<1>2. CASE Collect(w) \/ Lose(w)
  BY <1>1, <1>2 DEF Collect, Lose, Failure!vars
<1>3. CASE Store(w)
  <2> DEFINE i == reply[w].id
  <2>1. /\ reply[w] # None /\ shown' = [shown EXCEPT ![w] = i]
        /\ reply[w] \in SampleType /\ ProcessOK(w) /\ shown[w] \in Nat
    BY <1>3, IInvParts DEF Store, TypeOK
  <2>2. i \in Runs /\ Finished(i) /\ shown[w] <= i
    BY <2>1 DEF SampleType, ProcessOK, Runs
  <2>3. Failure!See(w, i)
    BY <1>1, <2>1, <2>2, ResultFacts DEF Failure!See
  <2> QED
    BY <2>2, <2>3 DEF Failure!Next, Failure!Runs, Runs
<1> QED
  BY <1>2, <1>3

\* What Prometheus holds of a worker is the newest result seen of it, so a series
\* fails where the worker is up and that result is a failure.
LEMMA EvaluateImplements ==
  ASSUME IInv, Evaluate
  PROVE  Failure!Next
<1> DEFINE up == {w \in Workers : sample[w] # None}
<1>1. ASSUME NEW s \in Series, NEW w \in Workers
      PROVE  Failing(s, w) <=> w \in up /\ Failure!FailureSeen(s, w)
  <2>1. CASE sample[w] = None
    BY <2>1 DEF Failing
  <2>2. CASE sample[w] # None
    <3> DEFINE i == shown[w]
    <3>1. i \in Runs /\ Finished(i) /\ sample[w] = SampleOf(i) /\ i # 0
      BY <2>2, IInvParts DEF TypeOK, SampleType, ProcessOK, Runs
    <3>2. result[i] = [series |-> sample[w].series, success |-> sample[w].success]
      BY <3>1, ResultFacts DEF ResultOf, SampleOf
    <3>3. sample[w].success \in BOOLEAN
      BY <3>1 DEF SampleOf
    <3> HIDE DEF i
    <3>4. result[i] = [series |-> s, success |-> FALSE]
            <=> sample[w].series = s /\ ~sample[w].success
      BY <3>2, <3>3, SameResult
    <3> QED
      BY <2>2, <3>1, <3>4 DEF Failing, Failure!FailureSeen, i
  <2> QED
    BY <2>1, <2>2
<1>2. ASSUME NEW w \in Workers, sample[w] # None
      PROVE  sample[w].id = shown[w]
  BY <1>2, IInvParts DEF ProcessOK
<1>3. alert' = [s \in Series |-> [w \in Workers |->
                 IF w \in up /\ Failure!FailureSeen(s, w)
                   THEN [count |-> IF alert[s][w].count < For THEN alert[s][w].count + 1 ELSE For,
                         on |-> shown[w]]
                   ELSE Quiet]]
  <2>1. ASSUME NEW s \in Series, NEW w \in Workers
        PROVE  (IF Failing(s, w)
                  THEN [count |-> Capped(alert[s][w].count + 1), on |-> sample[w].id]
                  ELSE Quiet)
             = (IF w \in up /\ Failure!FailureSeen(s, w)
                  THEN [count |-> IF alert[s][w].count < For THEN alert[s][w].count + 1 ELSE For,
                        on |-> shown[w]]
                  ELSE Quiet)
    <3>1. alert[s][w].count \in 0 .. For
      BY IInvParts DEF TypeOK
    <3>2. Capped(alert[s][w].count + 1)
            = IF alert[s][w].count < For THEN alert[s][w].count + 1 ELSE For
      BY <3>1, AlertsAssumption DEF Capped
    <3>3. Failing(s, w) => sample[w].id = shown[w]
      BY <1>2 DEF Failing
    <3> QED
      BY ONLY <1>1, <3>2, <3>3, s \in Series, w \in Workers
  <2> HIDE DEF up
  <2> QED
    BY <2>1, Zenon DEF Evaluate
<1>4. UNCHANGED <<result, shown>>
  BY DEF Evaluate, result, Finished
<1>5. Failure!Evaluate(up)
  BY <1>3, <1>4 DEF Failure!Evaluate, Failure!Quiet, Quiet
<1> QED
  BY <1>5 DEF Failure!Next

(* docs/monitoring.md:17, docs/demo.md:38: Alerts implements FailureAlert, for  *)
(* any executions, services, worker processes and lost scrapes.                 *)
THEOREM AlertsImplement == Spec => ImplementsFailureAlert
<1>1. IInv /\ [Next]_vars => [Failure!Next]_(Failure!vars)
  <2>1. ASSUME NEW s \in Services, Move(s) \/ \E t \in Types : Retype(s, t) PROVE UNCHANGED Failure!vars
    BY <2>1 DEF Move, Retype, Failure!vars, result, Finished
  <2>2. UNCHANGED vars => UNCHANGED Failure!vars
    BY DEF vars, Failure!vars, result, Finished
  <2> QED
    BY <2>1, <2>2, RowImplements, ScrapeImplements, EvaluateImplements DEF Next
<1> QED
  BY <1>1, InitFailure, InitIInv, NextIInv, PTL DEF Spec, ImplementsFailureAlert, Failure!Spec
===================================================================================
