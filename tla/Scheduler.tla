-------------------------------- MODULE Scheduler --------------------------------
(* How due probe tasks become executions (Repository.ScheduleDue), next to the  *)
(* API requests that create, change and disable tasks and services.             *)
(*                                                                              *)
(* Every worker process runs a scheduler with its own clock.  A cycle is one    *)
(* database transaction: SELECT ... FOR UPDATE SKIP LOCKED reads and locks a    *)
(* batch of due tasks together with their services, then an execution row is    *)
(* inserted for each of them and its next_run_at is moved, from the values read *)
(* before.  Nothing of it is visible until the transaction commits; it may be   *)
(* rolled back at any point, by an error or because the process dies.           *)
EXTENDS Integers, Sequences, FiniteSets

CONSTANTS
  Schedulers,   \* the worker processes
  Tasks,
  Services,
  Intervals,    \* values of interval_seconds, in ticks
  Skew,         \* offset of each process's clock, the API's under "api"
  Batch,        \* SCHEDULER_BATCH_SIZE
  MaxNow        \* bound: the last tick

ASSUME ScheduleAssumption ==
  /\ "api" \notin Schedulers
  /\ Skew \in [Schedulers \cup {"api"} -> Int]
  /\ Intervals \subseteq Nat \ {0}
  /\ Batch \in Nat \ {0}
  /\ MaxNow \in Nat

VARIABLES
  now,
  task,      \* probe_tasks rows: status, service_id, interval_seconds, next_run_at
  service,   \* services.status
  runs,      \* the executions of a task in the order of their creation
  batch,     \* the tasks a scheduler's open transaction read and locked
  clock,     \* the scheduler's time.Now at the start of the cycle
  rows       \* the rows it read: next_run_at and interval_seconds

vars == <<now, task, service, runs, batch, clock, rows>>

Clock(p) == now + Skew[p]

NoTask == [status |-> "absent", service |-> "none", interval |-> 0, next |-> 0]
TaskRow ==
  [status : {"absent", "active", "disabled"}, service : Services \cup {"none"},
   interval : Intervals \cup {0}, next : Int]
NoRow == [next |-> 0, interval |-> 0]
\* An execution: the run it was due for, and when it was created and the interval
\* the task had then, for the properties.
Run == [at : Int, clock : Int, interval : Intervals]

Init ==
  /\ now = 0
  /\ task = [t \in Tasks |-> NoTask]
  /\ service = [s \in Services |-> "active"]
  /\ runs = [t \in Tasks |-> <<>>]
  /\ batch = [p \in Schedulers |-> {}]
  /\ clock = [p \in Schedulers |-> 0]
  /\ rows = [p \in Schedulers |-> [t \in Tasks |-> NoRow]]

Tick ==
  /\ now < MaxNow
  /\ now' = now + 1
  /\ UNCHANGED <<task, service, runs, batch, clock, rows>>

----------------------------------------------------------------------------------
(* Row locks                                                                    *)

\* A scheduler holds the row of a task, or of a service through the join.
TaskLocked(t) == \E p \in Schedulers : t \in batch[p]
ServiceLocked(s) ==
  \E p \in Schedulers : \E t \in batch[p] : task[t].service = s

----------------------------------------------------------------------------------
(* API requests.  The checks of TaskService and AssetService are statements of  *)
(* their own; what they saw may be out of date when the row is written, so the  *)
(* write does not depend on the status.  A write waits for locked rows, an      *)
(* insert or update of a foreign key for the row it refers to.                  *)

\* TaskService.Create: the first run is due at once.
CreateTask(t, s, i) ==
  /\ task[t].status = "absent"
  /\ ~ServiceLocked(s)
  /\ task' = [task EXCEPT ![t] =
       [status |-> "active", service |-> s, interval |-> i, next |-> Clock("api")]]
  /\ UNCHANGED <<now, service, runs, batch, clock, rows>>

\* TaskService.Update: service and interval change, next_run_at and status do not.
UpdateTask(t, s, i) ==
  /\ task[t].status # "absent"
  /\ ~TaskLocked(t)
  /\ s = task[t].service \/ ~ServiceLocked(s)
  /\ task' = [task EXCEPT ![t].service = s, ![t].interval = i]
  /\ UNCHANGED <<now, service, runs, batch, clock, rows>>

\* TaskService.Disable.
DisableTask(t) ==
  /\ task[t].status # "absent"
  /\ ~TaskLocked(t)
  /\ task' = [task EXCEPT ![t].status = "disabled"]
  /\ UNCHANGED <<now, service, runs, batch, clock, rows>>

\* Faulty variant: the service row is not locked by the join.
DisableServiceAnyTime(s) ==
  /\ service' = [service EXCEPT ![s] = "disabled"]
  /\ UNCHANGED <<now, task, runs, batch, clock, rows>>

\* AssetService.DisableMonitoredService.
DisableService(s) ==
  /\ ~ServiceLocked(s)
  /\ service' = [service EXCEPT ![s] = "disabled"]
  /\ UNCHANGED <<now, task, runs, batch, clock, rows>>

----------------------------------------------------------------------------------
(* The scheduler's transaction                                                  *)

\* Faulty variants: a SELECT without FOR UPDATE; one that also compares
\* last_scheduled_at, which is NULL before the first run.
DueUnlocked(p) ==
  {t \in Tasks :
     /\ task[t].status = "active"
     /\ service[task[t].service] = "active"
     /\ task[t].next <= Clock(p)}

DueAgain(p) ==
  {t \in Tasks :
     /\ runs[t] # <<>>
     /\ task[t].status = "active"
     /\ service[task[t].service] = "active"
     /\ task[t].next <= Clock(p)
     /\ ~TaskLocked(t)
     /\ ~ServiceLocked(task[t].service)}

\* The rows the SELECT of process p may return.
Due(p) ==
  {t \in Tasks :
     /\ task[t].status = "active"
     /\ service[task[t].service] = "active"
     /\ task[t].next <= Clock(p)
     /\ ~TaskLocked(t)
     /\ ~ServiceLocked(task[t].service)}

\* ORDER BY next_run_at LIMIT batch.
Select(p) ==
  /\ batch[p] = {}
  /\ \E S \in (SUBSET Due(p)) \ {{}} :
       /\ Cardinality(S) = Batch \/ (S = Due(p) /\ Cardinality(S) <= Batch)
       /\ \A t \in S, u \in Due(p) \ S : task[t].next <= task[u].next
       /\ batch' = [batch EXCEPT ![p] = S]
       /\ rows' = [rows EXCEPT ![p] =
            [t \in Tasks |-> IF t \in S THEN [next |-> task[t].next, interval |-> task[t].interval]
                             ELSE NoRow]]
  /\ clock' = [clock EXCEPT ![p] = Clock(p)]
  /\ UNCHANGED <<now, task, service, runs>>

End(p) ==
  /\ batch' = [batch EXCEPT ![p] = {}]
  /\ clock' = [clock EXCEPT ![p] = 0]
  /\ rows' = [rows EXCEPT ![p] = [t \in Tasks |-> NoRow]]

\* Faulty variant: keeps the rhythm instead of skipping missed runs.
NextRunFromSchedule(p, t) == rows[p][t].next + rows[p][t].interval

\* next_run_at counts from the scheduler's clock, not from the missed run.
NextRun(p, t) == clock[p] + rows[p][t].interval

\* COMMIT: an execution for each row, scheduled at the run it was due for.
Commit(p) ==
  /\ batch[p] # {}
  /\ runs' = [t \in Tasks |->
       IF t \in batch[p]
       THEN Append(runs[t], [at |-> rows[p][t].next, clock |-> clock[p],
                             interval |-> task[t].interval])
       ELSE runs[t]]
  /\ task' = [t \in Tasks |->
       IF t \in batch[p] THEN [task[t] EXCEPT !.next = NextRun(p, t)] ELSE task[t]]
  /\ End(p)
  /\ UNCHANGED <<now, service>>

\* An error, or the process died: nothing happened and the locks are released.
Rollback(p) ==
  /\ batch[p] # {}
  /\ End(p)
  /\ UNCHANGED <<now, task, service, runs>>

Next ==
  \/ Tick
  \/ \E t \in Tasks :
       \/ \E s \in Services, i \in Intervals : CreateTask(t, s, i) \/ UpdateTask(t, s, i)
       \/ DisableTask(t)
  \/ \E s \in Services : DisableService(s)
  \/ \E p \in Schedulers : Select(p) \/ Commit(p) \/ Rollback(p)

Spec == Init /\ [][Next]_vars

(* A scheduler keeps running its cycles, a transaction ends, and not every one  *)
(* fails.  Time and API requests owe nothing.                                   *)
Fairness ==
  \A p \in Schedulers :
    WF_vars(Select(p)) /\ SF_vars(Commit(p)) /\ WF_vars(Commit(p) \/ Rollback(p))

FairSpec == Spec /\ Fairness

----------------------------------------------------------------------------------
(* Properties                                                                   *)

\* The domain of every variable.
TypeOK ==
  /\ now \in Nat
  /\ task \in [Tasks -> TaskRow]
  /\ \A t \in Tasks : task[t].status # "absent" =>
       task[t].service \in Services /\ task[t].interval \in Intervals
  /\ service \in [Services -> {"active", "disabled"}]
  /\ runs \in [Tasks -> Seq(Run)]
  /\ batch \in [Schedulers -> SUBSET Tasks]
  /\ clock \in [Schedulers -> Int]
  /\ rows \in [Schedulers -> [Tasks -> [next : Int, interval : Intervals \cup {0}]]]

\* docs/database.md:23: next_run_at is moved together with the creation of the
\* execution.  No due run is executed twice, by however many schedulers and with
\* whatever clocks: the executions of a task are for ever later runs, and the
\* next one is later still.
EachRunOnce ==
  \A t \in Tasks :
    /\ \A j \in 1..Len(runs[t]) : runs[t][j].at < task[t].next
    /\ \A i, j \in 1..Len(runs[t]) : i < j => runs[t][i].at < runs[t][j].at

\* After an outage, however long, a task is not run several times to catch up:
\* between two executions of a task the schedulers' clocks advance by at least
\* the interval it had at the first of them, whatever it is changed to later.
NoCatchUp ==
  \A t \in Tasks : \A j \in 2..Len(runs[t]) :
    runs[t][j].clock >= runs[t][j - 1].clock + runs[t][j - 1].interval

\* TasksPage.tsx:26: once a task is disabled, or its service is, no execution is
\* created for it any more, not even by a transaction that read it before.
NoneAfterDisable ==
  [][\A t \in Tasks : Len(runs'[t]) > Len(runs[t]) =>
       task[t].status = "active" /\ service[task[t].service] = "active"]_vars

\* Schedulers that lock what they read, skip what others lock and may fail at any
\* point look like one that runs a batch of due tasks in a single step.
Schedule ==
  INSTANCE TaskSchedule WITH Batches <- {S \in SUBSET Tasks : Cardinality(S) <= Batch}
ImplementsSchedule == Schedule!Spec

\* A task that is due does not stay due for ever, whatever fails once.
DueIsScheduled ==
  \A t \in Tasks :
    LET due == /\ task[t].status = "active"
               /\ service[task[t].service] = "active"
               /\ \A p \in Schedulers : task[t].next <= Clock(p)
    IN due ~> ~due

----------------------------------------------------------------------------------
(* Why the properties hold: what a transaction read is still true when it       *)
(* commits, because it holds the locks.                                         *)

ReadsStand ==
  \A p \in Schedulers : \A t \in batch[p] :
    /\ rows[p][t].next = task[t].next
    /\ rows[p][t].interval = task[t].interval
    /\ task[t].status = "active"
    /\ service[task[t].service] = "active"
    /\ task[t].next <= clock[p]

LocksExclusive ==
  \A p, q \in Schedulers : p # q => batch[p] \cap batch[q] = {}

\* The next run is an interval after the clock of the last execution.
Spaced ==
  \A t \in Tasks :
    LET n == Len(runs[t])
    IN n > 0 => task[t].next >= runs[t][n].clock + runs[t][n].interval

\* An open transaction has at most a batch, and a clock reading that is not from
\* the future.
Opened ==
  \A p \in Schedulers : batch[p] # {} =>
    /\ Cardinality(batch[p]) <= Batch
    /\ \E n \in 0..now : clock[p] = n + Skew[p]

\* A task has no execution before it is created.
CreatedFirst == \A t \in Tasks : task[t].status = "absent" => runs[t] = <<>>

\* The inductive invariant.
IInv ==
  /\ TypeOK
  /\ CreatedFirst
  /\ ReadsStand
  /\ LocksExclusive
  /\ EachRunOnce
  /\ Spaced
  /\ NoCatchUp
===================================================================================
