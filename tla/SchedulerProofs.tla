----------------------------- MODULE SchedulerProofs -----------------------------
(* Machine-checked proofs about Scheduler, for every set of tasks, services and *)
(* schedulers, every batch size and any clocks.                                 *)
(*                                                                              *)
(* IInv is inductive: while a transaction is open its locks keep what it read   *)
(* true (ReadsStand), so at the commit a run is due, was not executed before,   *)
(* and the next one is moved past the scheduler's clock.                        *)
EXTENDS Scheduler, TLAPS

----------------------------------------------------------------------------------
(* Appending to a sequence                                                      *)

LEMMA AppendFacts ==
  ASSUME NEW S, NEW q \in Seq(S), NEW e \in S
  PROVE  /\ Append(q, e) \in Seq(S)
         /\ Len(Append(q, e)) = Len(q) + 1
         /\ Append(q, e)[Len(q) + 1] = e
         /\ \A j \in 1..Len(q) : Append(q, e)[j] = q[j]
OBVIOUS

----------------------------------------------------------------------------------
LEMMA InitIInv == Init => IInv
BY ScheduleAssumption
   DEF Init, IInv, TypeOK, TaskRow, NoTask, NoRow, ReadsStand, LocksExclusive,
       EachRunOnce, Spaced, NoCatchUp, CreatedFirst, Run

\* The execution that a commit adds.
RunOf(p, t) == [at |-> task[t].next, clock |-> clock[p], interval |-> task[t].interval]

\* What a commit does to one task of its batch.
LEMMA CommitTask ==
  ASSUME IInv, NEW p \in Schedulers, Commit(p), NEW t \in Tasks, t \in batch[p]
  PROVE  /\ runs[t] \in Seq(Run)
         /\ runs'[t] = Append(runs[t], RunOf(p, t))
         /\ RunOf(p, t) \in Run
         /\ task[t].next \in Int /\ clock[p] \in Int
         /\ task[t].interval \in Intervals /\ task[t].interval \in Nat \ {0}
         /\ task[t].next <= clock[p]
         /\ task'[t] = [task[t] EXCEPT !.next = clock[p] + task[t].interval]
         /\ task'[t].next = clock[p] + task[t].interval
         /\ task'[t].next \in Int /\ task[t].next < task'[t].next
<1>1. task[t] \in TaskRow /\ runs[t] \in Seq(Run) /\ clock[p] \in Int
  BY DEF IInv, TypeOK
<1>2. task[t].next \in Int
  BY <1>1 DEF TaskRow
<1>3. /\ rows[p][t].next = task[t].next
      /\ rows[p][t].interval = task[t].interval
      /\ task[t].status = "active"
      /\ task[t].next <= clock[p]
  BY DEF IInv, ReadsStand
<1>4. task[t].interval \in Intervals
  BY <1>3 DEF IInv, TypeOK
<1>5. task[t].interval \in Nat \ {0}
  BY <1>4, ScheduleAssumption
<1>6. task'[t] = [task[t] EXCEPT !.next = clock[p] + task[t].interval]
  BY <1>3 DEF Commit, NextRun
<1>7. task'[t].next = clock[p] + task[t].interval
  BY <1>1, <1>6 DEF TaskRow
<1>8. runs'[t] = Append(runs[t], RunOf(p, t))
  BY <1>3 DEF Commit, RunOf
<1>9. RunOf(p, t) \in Run
  BY <1>1, <1>2, <1>4 DEF Run, RunOf
<1>10. task'[t].next \in Int /\ task[t].next < task'[t].next
  <2>1. task[t].next <= clock[p]
    BY <1>3
  <2> QED
    BY ONLY <1>1, <1>2, <1>5, <1>7, <2>1
<1> QED
  BY <1>1, <1>2, <1>3, <1>4, <1>5, <1>6, <1>7, <1>8, <1>9, <1>10

\* The new executions of a committing transaction follow all earlier ones.
LEMMA CommitIInv ==
  ASSUME IInv, NEW p \in Schedulers, Commit(p)
  PROVE  IInv'
<1>1. \A t \in Tasks : t \notin batch[p] => task'[t] = task[t] /\ runs'[t] = runs[t]
  BY DEF Commit
<1>2. TypeOK'
  <2>1. task' \in [Tasks -> TaskRow]
    <3>1. ASSUME NEW t \in Tasks PROVE task'[t] \in TaskRow
      <4>1. task[t] \in TaskRow
        BY DEF IInv, TypeOK
      <4>2. CASE t \in batch[p]
        <5>1. task'[t].next \in Int /\ task'[t].next = clock[p] + task[t].interval
          BY <4>2, CommitTask
        <5>2. task'[t] = [task[t] EXCEPT !.next = clock[p] + task[t].interval]
          BY <4>2, CommitTask
        <5> QED
          BY ONLY <4>1, <5>1, <5>2 DEF TaskRow
      <4> QED
        BY <1>1, <4>1, <4>2
    <3>2. task' = [t \in Tasks |-> task'[t]]
      BY DEF Commit
    <3> QED
      BY <3>1, <3>2
  <2>2. \A t \in Tasks :
          /\ task'[t].status = task[t].status /\ task'[t].service = task[t].service
          /\ task'[t].interval = task[t].interval
    <3> SUFFICES ASSUME NEW t \in Tasks, t \in batch[p]
                 PROVE  /\ task'[t].status = task[t].status
                        /\ task'[t].service = task[t].service
                        /\ task'[t].interval = task[t].interval
      BY <1>1
    <3>1. task'[t] = [task[t] EXCEPT !.next = clock[p] + task[t].interval]
      BY CommitTask
    <3>2. task[t] \in TaskRow
      BY DEF IInv, TypeOK
    <3> QED
      BY <3>1, <3>2 DEF TaskRow
  <2>3. runs' \in [Tasks -> Seq(Run)]
    <3>1. ASSUME NEW t \in Tasks PROVE runs'[t] \in Seq(Run)
      <4>1. CASE t \in batch[p]
        <5>1. /\ runs[t] \in Seq(Run)
              /\ runs'[t] = Append(runs[t], RunOf(p, t))
              /\ RunOf(p, t) \in Run
          BY <4>1, CommitTask
        <5> QED
          BY ONLY <5>1, AppendFacts
      <4>2. CASE t \notin batch[p]
        BY <1>1, <4>2 DEF IInv, TypeOK
      <4> QED
        BY <4>1, <4>2
    <3>2. runs' = [t \in Tasks |-> runs'[t]]
      BY DEF Commit
    <3> QED
      BY <3>1, <3>2
  <2>4. /\ batch' \in [Schedulers -> SUBSET Tasks] /\ clock' \in [Schedulers -> Int]
        /\ rows' \in [Schedulers -> [Tasks -> [next : Int, interval : Intervals \cup {0}]]]
    BY DEF Commit, End, NoRow, IInv, TypeOK
  <2>5. now' = now /\ service' = service
    BY DEF Commit
  <2> QED
    BY <2>1, <2>2, <2>3, <2>4, <2>5 DEF IInv, TypeOK
<1>3. LocksExclusive' /\ ReadsStand'
  <2>1. \A q \in Schedulers \ {p} :
          batch'[q] = batch[q] /\ clock'[q] = clock[q] /\ rows'[q] = rows[q]
    BY DEF Commit, End, IInv, TypeOK
  <2>2. batch'[p] = {} /\ service' = service
    BY DEF Commit, End, IInv, TypeOK
  <2>3. \A q \in Schedulers \ {p} : \A t \in batch[q] : t \notin batch[p] /\ t \in Tasks
    BY DEF IInv, TypeOK, LocksExclusive
  <2> QED
    BY <1>1, <2>1, <2>2, <2>3 DEF IInv, LocksExclusive, ReadsStand
<1>4. ASSUME NEW t \in Tasks, t \in batch[p]
      PROVE  /\ Len(runs[t]) \in Nat
             /\ Len(runs'[t]) = Len(runs[t]) + 1
             /\ runs'[t][Len(runs[t]) + 1].at = task[t].next
             /\ runs'[t][Len(runs[t]) + 1].clock = clock[p]
             /\ runs'[t][Len(runs[t]) + 1].interval = task[t].interval
             /\ \A j \in 1..Len(runs[t]) : runs'[t][j] = runs[t][j]
             /\ \A j \in 1..Len(runs[t]) : runs[t][j].at \in Int /\ runs[t][j].clock \in Int
             /\ \A j \in 1..Len(runs[t]) : runs[t][j].interval \in Nat
  <2>1. /\ runs[t] \in Seq(Run)
        /\ runs'[t] = Append(runs[t], RunOf(p, t))
        /\ RunOf(p, t) \in Run
    BY <1>4, CommitTask
  <2>2. \A j \in 1..Len(runs[t]) : runs[t][j] \in Run
    BY <2>1
  <2> QED
    <3> DEFINE row == RunOf(p, t)
    <3>1. /\ row.at = task[t].next /\ row.clock = clock[p]
          /\ row.interval = task[t].interval
      BY DEF RunOf
    <3> HIDE DEF row
    <3>2. /\ Len(runs'[t]) = Len(runs[t]) + 1 /\ runs'[t][Len(runs[t]) + 1] = row
          /\ \A j \in 1..Len(runs[t]) : runs'[t][j] = runs[t][j]
      BY ONLY <2>1, AppendFacts DEF row
    <3>3. /\ \A j \in 1..Len(runs[t]) : runs[t][j].at \in Int /\ runs[t][j].clock \in Int
          /\ \A j \in 1..Len(runs[t]) : runs[t][j].interval \in Nat
      BY <2>2, ScheduleAssumption DEF Run
    <3>4. Len(runs[t]) \in Nat
      BY ONLY <2>1
    <3> QED
      BY ONLY <3>1, <3>2, <3>3, <3>4
<1>5. EachRunOnce'
  <2> SUFFICES ASSUME NEW t \in Tasks
               PROVE  /\ \A j \in 1..Len(runs'[t]) : runs'[t][j].at < task'[t].next
                      /\ \A i, j \in 1..Len(runs'[t]) : i < j => runs'[t][i].at < runs'[t][j].at
    BY DEF EachRunOnce
  <2>1. CASE t \notin batch[p]
    BY <1>1, <2>1 DEF IInv, EachRunOnce
  <2>2. CASE t \in batch[p]
    <3> DEFINE n == Len(runs[t])
    <3>1. /\ task[t].next < task'[t].next /\ task[t].next \in Int /\ task'[t].next \in Int
      BY <2>2, CommitTask
    <3>2. /\ \A j \in 1..n : runs[t][j].at < task[t].next
          /\ \A i, j \in 1..n : i < j => runs[t][i].at < runs[t][j].at
      BY DEF IInv, EachRunOnce
    <3>3. \A j \in 1..(n + 1) : j \in 1..n \/ j = n + 1
      BY <1>4, <2>2
    <3>4. \A j \in 1..n : runs'[t][j].at = runs[t][j].at
      BY <1>4, <2>2
    <3>5. \A j \in 1..(n + 1) : runs'[t][j].at < task'[t].next
      <4>1. n \in Nat /\ runs'[t][n + 1].at = task[t].next
            /\ \A j \in 1..n : runs[t][j].at \in Int
        BY <1>4, <2>2
      <4> HIDE DEF n
      <4> QED
        BY ONLY <3>1, <3>2, <3>3, <3>4, <4>1
    <3>6. \A i, j \in 1..(n + 1) : i < j => runs'[t][i].at < runs'[t][j].at
      BY <1>4, <2>2, <3>2, <3>3, <3>4
    <3> QED
      BY <1>4, <2>2, <3>5, <3>6
  <2> QED
    BY <2>1, <2>2
<1>6. Spaced'
  <2> SUFFICES ASSUME NEW t \in Tasks, Len(runs'[t]) > 0
               PROVE  task'[t].next >= runs'[t][Len(runs'[t])].clock
                                        + runs'[t][Len(runs'[t])].interval
    BY DEF Spaced
  <2>1. CASE t \notin batch[p]
    BY <1>1, <2>1 DEF IInv, Spaced
  <2>2. CASE t \in batch[p]
    <3>1. /\ runs'[t][Len(runs'[t])].clock = clock[p]
          /\ runs'[t][Len(runs'[t])].interval = task[t].interval
      BY <1>4, <2>2
    <3>2. /\ task[t].interval \in Intervals
          /\ task'[t].next \in Int
          /\ task'[t].next = clock[p] + task[t].interval
      BY <2>2, CommitTask
    <3>3. task'[t].next >= clock[p] + task[t].interval
      BY ONLY <3>2
    <3> QED
      BY <3>1, <3>2, <3>3
  <2> QED
    BY <2>1, <2>2
<1>7. NoCatchUp'
  <2> SUFFICES ASSUME NEW t \in Tasks, NEW j \in 2..Len(runs'[t])
               PROVE  runs'[t][j].clock >= runs'[t][j - 1].clock + runs'[t][j - 1].interval
    BY DEF NoCatchUp
  <2>1. CASE t \notin batch[p]
    BY <1>1, <2>1 DEF IInv, NoCatchUp
  <2>2. CASE t \in batch[p]
    <3> DEFINE n == Len(runs[t])
    <3>1. CASE j \in 2..n
      <4>1. runs'[t][j] = runs[t][j] /\ runs'[t][j - 1] = runs[t][j - 1]
        BY <1>4, <2>2, <3>1
      <4> QED
        BY <3>1, <4>1 DEF IInv, NoCatchUp
    <3>2. CASE j = n + 1
      <4>1. n \in 1..n /\ n > 0 /\ j - 1 = n
        BY <1>4, <2>2, <3>2
      <4> DEFINE i == runs[t][n].interval
      <4>2. task[t].next >= runs[t][n].clock + i
        BY <4>1 DEF IInv, Spaced
      <4>3. runs'[t][j].clock = clock[p] /\ runs'[t][j - 1] = runs[t][n]
        BY <1>4, <2>2, <3>2, <4>1
      <4>4. /\ task[t].next <= clock[p] /\ task[t].next \in Int /\ clock[p] \in Int
            /\ runs[t][n].clock \in Int /\ i \in Int
        <5>1. /\ task[t].next <= clock[p] /\ task[t].next \in Int /\ clock[p] \in Int
          BY <2>2, CommitTask
        <5>2. runs[t][n].clock \in Int
          BY <1>4, <2>2, <4>1
        <5>3. i \in Int
          BY <1>4, <2>2, <4>1
        <5> QED
          BY <5>1, <5>2, <5>3
      <4> HIDE DEF i
      <4>5. clock[p] >= runs[t][n].clock + i
        BY ONLY <4>2, <4>4
      <4> QED
        BY <4>3, <4>5 DEF i
    <3> QED
      BY <1>4, <2>2, <3>1, <3>2
  <2> QED
    BY <2>1, <2>2
<1>8. CreatedFirst'
  <2> SUFFICES ASSUME NEW t \in Tasks, task'[t].status = "absent"
               PROVE  runs'[t] = <<>>
    BY DEF CreatedFirst
  <2>1. CASE t \notin batch[p]
    BY <1>1, <2>1 DEF IInv, CreatedFirst
  <2>2. CASE t \in batch[p]
    <3>1. task'[t] = [task[t] EXCEPT !.next = clock[p] + task[t].interval]
      BY <2>2, CommitTask
    <3>2. task[t] \in TaskRow
      BY DEF IInv, TypeOK
    <3>3. task[t].status = "active"
      BY <2>2 DEF IInv, ReadsStand
    <3> QED
      BY <3>1, <3>2, <3>3 DEF TaskRow
  <2> QED
    BY <2>1, <2>2
<1> QED
  BY <1>2, <1>3, <1>5, <1>6, <1>7, <1>8 DEF IInv

----------------------------------------------------------------------------------
(* The other actions create no execution                                        *)

LEMMA TickIInv == ASSUME IInv, Tick PROVE IInv'
BY DEF Tick, IInv, TypeOK, CreatedFirst, ReadsStand, LocksExclusive, EachRunOnce, Spaced,
       NoCatchUp

\* A task that comes into being is in no transaction and was never run.
LEMMA CreateIInv ==
  ASSUME IInv, NEW t \in Tasks, NEW s \in Services, NEW i \in Intervals, CreateTask(t, s, i)
  PROVE  IInv'
<1>1. /\ \A u \in Tasks \ {t} : task'[u] = task[u]
      /\ task'[t] = [status |-> "active", service |-> s, interval |-> i, next |-> Clock("api")]
      /\ UNCHANGED <<now, service, runs, batch, clock, rows>>
  BY DEF CreateTask, IInv, TypeOK
<1>2. runs[t] = <<>> /\ \A p \in Schedulers : t \notin batch[p]
  BY DEF CreateTask, IInv, CreatedFirst, ReadsStand
<1>3. TypeOK'
  <2>1. Clock("api") \in Int
    BY ScheduleAssumption DEF Clock, IInv, TypeOK
  <2>2. task'[t] \in TaskRow
    BY ONLY <1>1, <2>1, s \in Services, i \in Intervals DEF TaskRow
  <2>3. task' \in [Tasks -> TaskRow]
    <3>1. task' = [u \in Tasks |-> task'[u]]
      BY DEF CreateTask, IInv, TypeOK
    <3>2. \A u \in Tasks : task'[u] \in TaskRow
      BY <1>1, <2>2 DEF IInv, TypeOK
    <3> QED
      BY <3>1, <3>2
  <2>4. \A u \in Tasks : task'[u].status # "absent" =>
          task'[u].service \in Services /\ task'[u].interval \in Intervals
    <3>1. task'[t].service \in Services /\ task'[t].interval \in Intervals
      BY <1>1
    <3> QED
      BY <1>1, <3>1 DEF IInv, TypeOK
  <2> QED
    BY <1>1, <2>3, <2>4 DEF IInv, TypeOK
<1>4. CreatedFirst' /\ ReadsStand' /\ LocksExclusive'
  <2>1. \A p \in Schedulers : \A u \in batch[p] : u \in Tasks \ {t}
    BY <1>2 DEF IInv, TypeOK
  <2> QED
    BY <1>1, <1>2, <2>1 DEF IInv, CreatedFirst, ReadsStand, LocksExclusive
<1>5. Len(runs[t]) = 0
  BY <1>2
<1>6. EachRunOnce' /\ Spaced' /\ NoCatchUp'
  <2>1. /\ \A u \in Tasks \ {t} : task'[u] = task[u]
        /\ runs' = runs /\ EachRunOnce /\ Spaced /\ NoCatchUp
    BY <1>1 DEF IInv
  <2>2. EachRunOnce'
    BY ONLY <1>5, <2>1 DEF EachRunOnce
  <2>3. Spaced'
    BY ONLY <1>5, <2>1 DEF Spaced
  <2>4. NoCatchUp'
    BY ONLY <2>1 DEF NoCatchUp
  <2> QED
    BY <2>2, <2>3, <2>4
<1> QED
  BY <1>3, <1>4, <1>6 DEF IInv

\* An update keeps next_run_at, and waits for a transaction that read the row.
LEMMA UpdateIInv ==
  ASSUME IInv, NEW t \in Tasks, NEW s \in Services, NEW i \in Intervals, UpdateTask(t, s, i)
  PROVE  IInv'
<1>1. /\ \A u \in Tasks \ {t} : task'[u] = task[u]
      /\ task'[t] = [task[t] EXCEPT !.service = s, !.interval = i]
      /\ UNCHANGED <<now, service, runs, batch, clock, rows>>
      /\ task[t].status # "absent"
  BY DEF UpdateTask, IInv, TypeOK
<1>2. task[t] \in TaskRow
  BY DEF IInv, TypeOK
<1>3. /\ task'[t] \in TaskRow
      /\ task'[t].status = task[t].status /\ task'[t].next = task[t].next
      /\ task'[t].service = s /\ task'[t].interval = i
  BY ONLY <1>1, <1>2, s \in Services, i \in Intervals DEF TaskRow
<1>4. TypeOK'
  <2>1. task' = [u \in Tasks |-> task'[u]]
    BY DEF UpdateTask, IInv, TypeOK
  <2>2. \A u \in Tasks : task'[u] \in TaskRow
    BY <1>1, <1>3 DEF IInv, TypeOK
  <2> QED
    BY <1>1, <1>3, <2>1, <2>2 DEF IInv, TypeOK
<1>5. CreatedFirst' /\ ReadsStand' /\ LocksExclusive'
  <2>1. \A p \in Schedulers : \A u \in batch[p] : u \in Tasks \ {t}
    BY DEF UpdateTask, TaskLocked, IInv, TypeOK
  <2>2. \A u \in Tasks : task'[u].status = "absent" => task[u].status = "absent"
    BY <1>1, <1>3
  <2>3. CreatedFirst'
    BY <1>1, <2>2 DEF IInv, CreatedFirst
  <2>4. ReadsStand'
    BY <1>1, <2>1 DEF IInv, ReadsStand
  <2> QED
    BY <1>1, <2>3, <2>4 DEF IInv, LocksExclusive
<1>6. \A u \in Tasks : task'[u].next = task[u].next
  BY <1>1, <1>3
<1>7. EachRunOnce' /\ Spaced' /\ NoCatchUp'
  BY <1>1, <1>6 DEF IInv, EachRunOnce, Spaced, NoCatchUp
<1> QED
  BY <1>4, <1>5, <1>7 DEF IInv

LEMMA DisableTaskIInv ==
  ASSUME IInv, NEW t \in Tasks, DisableTask(t)
  PROVE  IInv'
<1>1. /\ \A u \in Tasks \ {t} : task'[u] = task[u]
      /\ task'[t] = [task[t] EXCEPT !.status = "disabled"]
      /\ UNCHANGED <<now, service, runs, batch, clock, rows>>
      /\ task[t].status # "absent"
  BY DEF DisableTask, IInv, TypeOK
<1>2. task[t] \in TaskRow
  BY DEF IInv, TypeOK
<1>3. /\ task'[t] \in TaskRow
      /\ task'[t].status = "disabled" /\ task'[t].next = task[t].next
      /\ task'[t].service = task[t].service /\ task'[t].interval = task[t].interval
  BY ONLY <1>1, <1>2 DEF TaskRow
<1>4. TypeOK'
  <2>1. task' = [u \in Tasks |-> task'[u]]
    BY DEF DisableTask, IInv, TypeOK
  <2>2. \A u \in Tasks : task'[u] \in TaskRow
    BY <1>1, <1>3 DEF IInv, TypeOK
  <2> QED
    BY <1>1, <1>3, <2>1, <2>2 DEF IInv, TypeOK
<1>5. CreatedFirst' /\ ReadsStand' /\ LocksExclusive'
  <2>1. \A p \in Schedulers : \A u \in batch[p] : u \in Tasks \ {t}
    BY DEF DisableTask, TaskLocked, IInv, TypeOK
  <2>2. \A u \in Tasks : task'[u].status = "absent" => task[u].status = "absent"
    BY <1>1, <1>3
  <2>3. CreatedFirst'
    BY <1>1, <2>2 DEF IInv, CreatedFirst
  <2>4. ReadsStand'
    BY <1>1, <2>1 DEF IInv, ReadsStand
  <2> QED
    BY <1>1, <2>3, <2>4 DEF IInv, LocksExclusive
<1>6. \A u \in Tasks : task'[u].next = task[u].next
  BY <1>1, <1>3
<1>7. EachRunOnce' /\ Spaced' /\ NoCatchUp'
  BY <1>1, <1>6 DEF IInv, EachRunOnce, Spaced, NoCatchUp
<1> QED
  BY <1>4, <1>5, <1>7 DEF IInv

\* A service whose tasks a transaction read is locked through the join.
LEMMA DisableServiceIInv ==
  ASSUME IInv, NEW s \in Services, DisableService(s)
  PROVE  IInv'
<1>1. UNCHANGED <<now, task, runs, batch, clock, rows>>
  BY DEF DisableService
<1>2. TypeOK'
  BY <1>1 DEF DisableService, IInv, TypeOK
<1>3. ReadsStand'
  <2>1. \A p \in Schedulers : \A t \in batch[p] :
          task[t].service # s /\ service'[task[t].service] = service[task[t].service]
    BY DEF DisableService, ServiceLocked, IInv, TypeOK
  <2> QED
    BY <1>1, <2>1 DEF IInv, ReadsStand
<1>4. CreatedFirst' /\ LocksExclusive' /\ EachRunOnce' /\ Spaced' /\ NoCatchUp'
  BY <1>1 DEF IInv, CreatedFirst, LocksExclusive, EachRunOnce, Spaced, NoCatchUp
<1> QED
  BY <1>2, <1>3, <1>4 DEF IInv

\* SKIP LOCKED returns rows that nobody else holds.
LEMMA SelectIInv ==
  ASSUME IInv, NEW p \in Schedulers, Select(p)
  PROVE  IInv'
<1>1. PICK S \in SUBSET Due(p) :
        /\ batch' = [batch EXCEPT ![p] = S]
        /\ rows' = [rows EXCEPT ![p] =
             [t \in Tasks |-> IF t \in S THEN [next |-> task[t].next, interval |-> task[t].interval]
                              ELSE NoRow]]
  BY DEF Select
<1>2. clock' = [clock EXCEPT ![p] = Clock(p)] /\ UNCHANGED <<now, task, service, runs>>
  BY DEF Select
<1>3. Clock(p) \in Int
  BY ScheduleAssumption DEF Clock, IInv, TypeOK
<1>4. \A t \in S :
        /\ t \in Tasks /\ task[t].status = "active"
        /\ service[task[t].service] = "active" /\ task[t].next <= Clock(p)
        /\ \A q \in Schedulers : t \notin batch[q]
  BY DEF Due, TaskLocked
<1>5. /\ batch'[p] = S /\ clock'[p] = Clock(p)
      /\ \A t \in S : rows'[p][t].next = task[t].next /\ rows'[p][t].interval = task[t].interval
      /\ \A q \in Schedulers \ {p} :
           batch'[q] = batch[q] /\ clock'[q] = clock[q] /\ rows'[q] = rows[q]
  BY <1>1, <1>2, <1>4 DEF IInv, TypeOK
<1>6. TypeOK'
  <2>1. batch' \in [Schedulers -> SUBSET Tasks] /\ clock' \in [Schedulers -> Int]
    BY <1>1, <1>2, <1>3, <1>4 DEF IInv, TypeOK
  <2>2. rows' \in [Schedulers -> [Tasks -> [next : Int, interval : Intervals \cup {0}]]]
    <3>1. \A t \in Tasks : task[t].next \in Int /\ task[t].interval \in Intervals \cup {0}
      BY DEF IInv, TypeOK, TaskRow
    <3>2. [t \in Tasks |-> IF t \in S THEN [next |-> task[t].next, interval |-> task[t].interval]
                           ELSE NoRow] \in [Tasks -> [next : Int, interval : Intervals \cup {0}]]
      BY <3>1 DEF NoRow
    <3> QED
      BY <1>1, <3>2 DEF IInv, TypeOK
  <2> QED
    BY <1>2, <2>1, <2>2 DEF IInv, TypeOK
<1>7. ReadsStand'
  <2> SUFFICES ASSUME NEW q \in Schedulers, NEW t \in batch'[q]
               PROVE  /\ rows'[q][t].next = task[t].next
                      /\ rows'[q][t].interval = task[t].interval
                      /\ task[t].status = "active"
                      /\ service[task[t].service] = "active"
                      /\ task[t].next <= clock'[q]
    BY <1>2 DEF ReadsStand
  <2>1. CASE q = p
    BY <1>4, <1>5, <2>1
  <2>2. CASE q # p
    BY <1>5, <2>2 DEF IInv, ReadsStand
  <2> QED
    BY <2>1, <2>2
<1>8. LocksExclusive'
  <2> SUFFICES ASSUME NEW q \in Schedulers, NEW r \in Schedulers, q # r,
                      NEW t, t \in batch'[q], t \in batch'[r]
               PROVE  FALSE
    BY DEF LocksExclusive
  <2>1. CASE q = p
    BY <1>4, <1>5, <2>1
  <2>2. CASE r = p
    BY <1>4, <1>5, <2>2
  <2>3. CASE q # p /\ r # p
    BY <1>5, <2>3 DEF IInv, LocksExclusive
  <2> QED
    BY <2>1, <2>2, <2>3
<1>9. CreatedFirst' /\ EachRunOnce' /\ Spaced' /\ NoCatchUp'
  BY <1>2 DEF IInv, CreatedFirst, EachRunOnce, Spaced, NoCatchUp
<1> QED
  BY <1>6, <1>7, <1>8, <1>9 DEF IInv

LEMMA RollbackIInv ==
  ASSUME IInv, NEW p \in Schedulers, Rollback(p)
  PROVE  IInv'
<1>1. /\ batch' = [batch EXCEPT ![p] = {}]
      /\ clock' = [clock EXCEPT ![p] = 0]
      /\ rows' = [rows EXCEPT ![p] = [t \in Tasks |-> NoRow]]
      /\ UNCHANGED <<now, task, service, runs>>
  BY DEF Rollback, End
<1>2. TypeOK'
  BY <1>1 DEF IInv, TypeOK, NoRow
<1>3. /\ batch'[p] = {}
      /\ \A q \in Schedulers \ {p} :
           batch'[q] = batch[q] /\ clock'[q] = clock[q] /\ rows'[q] = rows[q]
  BY <1>1 DEF IInv, TypeOK
<1>4. ReadsStand' /\ LocksExclusive'
  BY <1>1, <1>3 DEF IInv, ReadsStand, LocksExclusive
<1>5. CreatedFirst' /\ EachRunOnce' /\ Spaced' /\ NoCatchUp'
  BY <1>1 DEF IInv, CreatedFirst, EachRunOnce, Spaced, NoCatchUp
<1> QED
  BY <1>2, <1>4, <1>5 DEF IInv

----------------------------------------------------------------------------------
LEMMA NextIInv == IInv /\ [Next]_vars => IInv'
<1> SUFFICES ASSUME IInv, [Next]_vars PROVE IInv'
  OBVIOUS
<1>1. CASE Tick
  BY <1>1, TickIInv
<1>2. CASE \E t \in Tasks, s \in Services, i \in Intervals : CreateTask(t, s, i)
  BY <1>2, CreateIInv
<1>3. CASE \E t \in Tasks, s \in Services, i \in Intervals : UpdateTask(t, s, i)
  BY <1>3, UpdateIInv
<1>4. CASE \E t \in Tasks : DisableTask(t)
  BY <1>4, DisableTaskIInv
<1>5. CASE \E s \in Services : DisableService(s)
  BY <1>5, DisableServiceIInv
<1>6. CASE \E p \in Schedulers : Select(p)
  BY <1>6, SelectIInv
<1>7. CASE \E p \in Schedulers : Commit(p)
  BY <1>7, CommitIInv
<1>8. CASE \E p \in Schedulers : Rollback(p)
  BY <1>8, RollbackIInv
<1>9. CASE UNCHANGED vars
  BY <1>9 DEF vars, IInv, TypeOK, CreatedFirst, ReadsStand, LocksExclusive, EachRunOnce,
              Spaced, NoCatchUp
<1> QED
  BY <1>1, <1>2, <1>3, <1>4, <1>5, <1>6, <1>7, <1>8, <1>9 DEF Next

\* The inductive invariant of the scheduler holds in every state.
THEOREM ScheduleInvariant == Spec => []IInv
BY InitIInv, NextIInv, PTL DEF Spec

\* Two schedulers, however their clocks differ, never create two executions for
\* the same due run of a task.
THEOREM RunsOnce == Spec => []EachRunOnce
<1>1. IInv => EachRunOnce
  BY DEF IInv
<1> QED
  BY ScheduleInvariant, <1>1, PTL

\* A task that was overdue for long is run once, not once per missed interval: the
\* next execution is the task's own interval later, by the schedulers' clocks.
THEOREM MissedRunsSkipped == Spec => []NoCatchUp
<1>1. IInv => NoCatchUp
  BY DEF IInv
<1> QED
  BY ScheduleInvariant, <1>1, PTL

\* A step that creates an execution is a commit, and what the commit read about
\* the task and its service still holds.
LEMMA OnlyActiveRun ==
  IInv /\ [Next]_vars =>
    \A t \in Tasks : Len(runs'[t]) > Len(runs[t]) =>
      task[t].status = "active" /\ service[task[t].service] = "active"
<1> SUFFICES ASSUME IInv, [Next]_vars, NEW t \in Tasks, Len(runs'[t]) > Len(runs[t])
             PROVE  task[t].status = "active" /\ service[task[t].service] = "active"
  OBVIOUS
<1>1. Len(runs[t]) \in Nat
  BY DEF IInv, TypeOK
<1>2. runs' # runs
  BY <1>1
<1>3. PICK p \in Schedulers : Commit(p)
  BY <1>2 DEF Next, vars, Tick, CreateTask, UpdateTask, DisableTask, DisableService,
              Select, Rollback
<1>4. t \in batch[p]
  <2>1. t \notin batch[p] => runs'[t] = runs[t]
    BY <1>3 DEF Commit
  <2> QED
    BY <1>1, <2>1
<1> QED
  BY <1>4 DEF IInv, ReadsStand

\* No execution is created for a disabled task or a task of a disabled service.
THEOREM DisabledNotRun == Spec => NoneAfterDisable
<1>1. IInv /\ [Next]_vars =>
        [\A t \in Tasks : Len(runs'[t]) > Len(runs[t]) =>
           task[t].status = "active" /\ service[task[t].service] = "active"]_vars
  BY OnlyActiveRun
<1> QED
  BY ScheduleInvariant, <1>1, PTL DEF Spec, NoneAfterDisable

----------------------------------------------------------------------------------
(* Scheduler implements TaskSchedule                                            *)

LEMMA OpenedInit == Init => Opened
BY DEF Init, Opened

LEMMA OpenedStep ==
  ASSUME IInv, Opened, [Next]_vars
  PROVE  Opened'
<1>1. /\ now \in Nat /\ batch \in [Schedulers -> SUBSET Tasks] /\ clock \in [Schedulers -> Int]
      /\ Batch \in Nat
  BY ScheduleAssumption DEF IInv, TypeOK
<1>2. CASE UNCHANGED <<now, batch, clock>>
  BY <1>2 DEF Opened
<1>3. CASE Tick
  <2>1. now' = now + 1 /\ UNCHANGED <<batch, clock>>
    BY <1>3 DEF Tick
  <2>2. 0..now \subseteq 0..now'
    BY <1>1, <2>1
  <2> QED
    BY <2>1, <2>2 DEF Opened
<1>4. CASE \E p \in Schedulers : Select(p)
  <2> PICK p \in Schedulers : Select(p)
    BY <1>4
  <2>1. PICK S \in SUBSET Due(p) :
          /\ Cardinality(S) = Batch \/ Cardinality(S) <= Batch
          /\ batch' = [batch EXCEPT ![p] = S]
    BY DEF Select
  <2>2. clock' = [clock EXCEPT ![p] = now + Skew[p]] /\ now' = now
    BY DEF Select, Clock
  <2>3. now \in 0..now /\ Cardinality(S) <= Batch
    BY <1>1, <2>1
  <2>4. batch'[p] = S /\ clock'[p] = now + Skew[p]
    BY <1>1, <2>1, <2>2
  <2>5. \A q \in Schedulers \ {p} : batch'[q] = batch[q] /\ clock'[q] = clock[q]
    BY <1>1, <2>1, <2>2
  <2> QED
    BY <2>2, <2>3, <2>4, <2>5 DEF Opened
<1>5. CASE \E p \in Schedulers : Commit(p) \/ Rollback(p)
  <2> PICK p \in Schedulers : Commit(p) \/ Rollback(p)
    BY <1>5
  <2>1. /\ batch'[p] = {} /\ now' = now
        /\ \A q \in Schedulers \ {p} : batch'[q] = batch[q] /\ clock'[q] = clock[q]
    BY <1>1 DEF Commit, Rollback, End
  <2> QED
    BY <2>1 DEF Opened
<1>6. CASE \/ \E t \in Tasks :
                \/ \E s \in Services, i \in Intervals : CreateTask(t, s, i) \/ UpdateTask(t, s, i)
                \/ DisableTask(t)
           \/ \E s \in Services : DisableService(s)
           \/ UNCHANGED vars
  <2>1. UNCHANGED <<now, batch, clock>>
    BY <1>6 DEF CreateTask, UpdateTask, DisableTask, DisableService, vars
  <2> QED
    BY <1>2, <2>1
<1> QED
  BY <1>3, <1>4, <1>5, <1>6 DEF Next

\* A commit is the step that runs the batch: what the transaction read stands.
LEMMA CommitSchedules ==
  ASSUME IInv, Opened, NEW p \in Schedulers, Commit(p)
  PROVE  \E S \in {S \in SUBSET Tasks : Cardinality(S) <= Batch}, n \in 0..now :
           Schedule!RunBatch(S, n + Skew[p])
<1>1. /\ batch[p] # {} /\ batch[p] \in SUBSET Tasks /\ UNCHANGED <<now, service>>
      /\ task' = [t \in Tasks |->
           IF t \in batch[p] THEN [task[t] EXCEPT !.next = NextRun(p, t)] ELSE task[t]]
      /\ runs' = [t \in Tasks |->
           IF t \in batch[p]
           THEN Append(runs[t], [at |-> rows[p][t].next, clock |-> clock[p],
                                 interval |-> task[t].interval])
           ELSE runs[t]]
  BY DEF Commit, IInv, TypeOK
<1>2. PICK n \in 0..now : clock[p] = n + Skew[p] /\ Cardinality(batch[p]) <= Batch
  BY <1>1 DEF Opened
<1> DEFINE c == n + Skew[p]
<1>3. \A t \in batch[p] :
        /\ rows[p][t].next = task[t].next
        /\ NextRun(p, t) = c + task[t].interval
        /\ task[t].status = "active" /\ service[task[t].service] = "active"
        /\ task[t].next <= c
  BY <1>2 DEF IInv, ReadsStand, NextRun
<1>4. batch[p] # {} /\ batch[p] \subseteq Schedule!Due(c)
  BY <1>1, <1>2, <1>3 DEF Schedule!Due
<1>5. runs' = [t \in Tasks |->
        IF t \in batch[p]
        THEN Append(runs[t], [at |-> task[t].next, clock |-> c, interval |-> task[t].interval])
        ELSE runs[t]]
  BY <1>1, <1>2, <1>3
<1>6. task' = [t \in Tasks |->
        IF t \in batch[p] THEN [task[t] EXCEPT !.next = c + task[t].interval] ELSE task[t]]
  BY <1>1, <1>3
<1>7. UNCHANGED <<now, service>>
  BY <1>1
<1>8. Schedule!RunBatch(batch[p], c)
  BY <1>4, <1>5, <1>6, <1>7 DEF Schedule!RunBatch
<1>9. batch[p] \in {S \in SUBSET Tasks : Cardinality(S) <= Batch}
  BY <1>1, <1>2
<1> QED
  BY <1>8, <1>9 DEF Schedule!RunBatch

LEMMA StepSchedules ==
  ASSUME IInv, Opened, [Next]_vars
  PROVE  [Schedule!Next]_(Schedule!vars)
<1>1. CASE UNCHANGED vars \/ \E p \in Schedulers : Select(p) \/ Rollback(p)
  BY <1>1 DEF vars, Select, Rollback, Schedule!vars
<1>2. CASE Tick
  BY <1>2 DEF Tick, Schedule!Tick, Schedule!Next
<1>3. CASE \E t \in Tasks, s \in Services, i \in Intervals :
             CreateTask(t, s, i) \/ UpdateTask(t, s, i)
  BY <1>3 DEF CreateTask, UpdateTask, Clock, Schedule!CreateTask, Schedule!UpdateTask, Schedule!Next
<1>4. CASE \E t \in Tasks : DisableTask(t)
  BY <1>4 DEF DisableTask, Schedule!DisableTask, Schedule!Next
<1>5. CASE \E s \in Services : DisableService(s)
  BY <1>5 DEF DisableService, Schedule!DisableService, Schedule!Next
<1>6. CASE \E p \in Schedulers : Commit(p)
  <2> PICK p \in Schedulers : Commit(p)
    BY <1>6
  <2>1. \E S \in {S \in SUBSET Tasks : Cardinality(S) <= Batch}, n \in 0..now :
          Schedule!RunBatch(S, n + Skew[p])
    BY CommitSchedules
  <2>2. PICK S \in {S \in SUBSET Tasks : Cardinality(S) <= Batch}, n \in 0..now :
          Schedule!RunBatch(S, n + Skew[p])
    BY <2>1
  <2> QED
    BY <2>2 DEF Schedule!Next
<1> QED
  BY <1>1, <1>2, <1>3, <1>4, <1>5, <1>6 DEF Next

\* Any number of schedulers with their own clocks, whatever they lock, skip and
\* roll back, run due tasks as if a batch were one step.
THEOREM SchedulesAtOnce == Spec => ImplementsSchedule
<1>1. Init => Schedule!Init
  BY DEF Init, NoTask, Schedule!Init
<1>2. IInv /\ Opened /\ [Next]_vars => [Schedule!Next]_(Schedule!vars)
  BY StepSchedules
<1>3. IInv /\ Opened /\ [Next]_vars => Opened'
  BY OpenedStep
<1> QED
  BY ScheduleInvariant, OpenedInit, <1>1, <1>2, <1>3, PTL
     DEF Spec, ImplementsSchedule, Schedule!Spec
===================================================================================
