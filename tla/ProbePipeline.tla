------------------------------ MODULE ProbePipeline ------------------------------
(* The probe execution pipeline of the worker processes (internal/probe,        *)
(* cmd/worker): MySQL holds the probe_results rows, a Redis stream with one     *)
(* consumer group carries messages that name them, and every worker process     *)
(* runs a Scheduler, a RecoveryDispatcher and a Consumer with a fixed number of *)
(* worker goroutines.                                                           *)
(*                                                                              *)
(* Every database statement and every Redis command is one step; anything       *)
(* another process does may come between two of them.  A process may die at     *)
(* any point and comes back under a fresh consumer name.  Errors (a failed      *)
(* query or command, a reply lost after the effect, a recovered panic, a        *)
(* cancelled context) are steps too, MaxFaults of them in one behaviour.        *)
(*                                                                              *)
(* Time is a number of ticks.  A tick is long against SCHEDULER_INTERVAL and    *)
(* PENDING_SCAN_INTERVAL (seconds) and short against MESSAGE_IDLE_TIMEOUT       *)
(* (half an hour); ages saturate where they stop making a difference.           *)
EXTENDS Integers, Sequences, FiniteSets

CONSTANTS
  Executions,   \* the execution ids that may be created
  Consumers,    \* consumer names; a process gets a fresh one each time it starts
  NoConsumer,   \* worker_consumer IS NULL
  Goroutines,   \* the worker goroutines of all processes
  Home,         \* the consumer a goroutine belongs to
  Skew,         \* how far each process's clock runs ahead of the slowest one
  Idle,         \* MESSAGE_IDLE_TIMEOUT, in ticks
  MaxRun,       \* longest time from Acquire to MarkFinal, in ticks
  Batch,        \* SCHEDULER_BATCH_SIZE
  MaxCopies,    \* bound: stream messages per execution
  MaxEntries,   \* bound: stream messages altogether
  MaxHeld,      \* bound: copies of one message waiting in one process
  MaxFaults     \* bound: errors in one behaviour

ASSUME ConsumersAssumption ==
  /\ NoConsumer \notin Consumers
  /\ Home \in [Goroutines -> Consumers]
  /\ Skew \in [Consumers -> Nat]
ASSUME TimingAssumption == Idle \in Nat /\ MaxRun \in Nat
ASSUME BoundsAssumption ==
  /\ Batch \in Nat /\ MaxCopies \in Nat /\ MaxEntries \in Nat
  /\ MaxHeld \in Nat /\ MaxFaults \in Nat

VARIABLES
  \* probe_results
  status,   \* status, "absent" while there is no row
  owner,    \* worker_consumer
  age,      \* time since updated_at, as a clock without skew would measure it
  late,     \* rows whose scheduled_at is before the dispatcher's cutoff
  \* the Redis stream and its consumer group
  stream,   \* the execution ids of the messages, in order; ids are positions
  read,     \* the group's last delivered id
  pel,      \* the group's pending entries: delivered and not acknowledged
  idle,     \* time since the last delivery of a pending entry
  \* the worker processes
  life,     \* "new", "up" or "dead"
  outbox,   \* what the scheduler still has to publish of its last batch
  redo,     \* what the recovery dispatcher still has to publish
  jobs,     \* how many copies of each message wait for a goroutine
  pc,       \* where a goroutine is in worker() and Process()
  job,      \* the message it works on, 0 when idle
  ran,      \* time since it acquired the execution
  faults    \* errors so far

rows == <<status, owner, age, late>>
redis == <<stream, read, pel, idle>>
loops == <<outbox, redo>>
pool == <<pc, job, ran>>
vars == <<rows, redis, life, loops, jobs, pool, faults>>

FinalStates == {"succeeded", "failed"}
States == {"absent", "queued", "running"} \cup FinalStates
Entries == 1..MaxEntries

Final(x) == status[x] \in FinalStates
Exec(g) == stream[job[g]]
Copies(x) == Cardinality({e \in 1..Len(stream) : stream[e] = x})

----------------------------------------------------------------------------------
Init ==
  /\ status = [x \in Executions |-> "absent"]
  /\ owner = [x \in Executions |-> NoConsumer]
  /\ age = [x \in Executions |-> 0]
  /\ late = {}
  /\ stream = <<>>
  /\ read = 0
  /\ pel = {}
  /\ idle = [e \in Entries |-> 0]
  /\ life = [c \in Consumers |-> "new"]
  /\ outbox = [c \in Consumers |-> {}]
  /\ redo = [c \in Consumers |-> {}]
  /\ jobs = [c \in Consumers |-> [e \in Entries |-> 0]]
  /\ pc = [g \in Goroutines |-> "idle"]
  /\ job = [g \in Goroutines |-> 0]
  /\ ran = [g \in Goroutines |-> 0]
  /\ faults = 0

\* An error uses up one of the MaxFaults.
Fault == faults < MaxFaults /\ faults' = faults + 1
NoFault == UNCHANGED faults

----------------------------------------------------------------------------------
(* Processes and time                                                           *)

\* A worker process starts under a name nobody used before.
Start(c) ==
  /\ life[c] = "new"
  /\ life' = [life EXCEPT ![c] = "up"]
  /\ UNCHANGED <<rows, redis, loops, jobs, pool, faults>>

\* A process dies with everything it held in memory.  What it delivered or
\* acquired stays in Redis and MySQL.  The last name never dies (bound).
Crash(c) ==
  /\ life[c] = "up"
  /\ \E d \in Consumers \ {c} : life[d] # "dead"
  /\ life' = [life EXCEPT ![c] = "dead"]
  /\ outbox' = [outbox EXCEPT ![c] = {}]
  /\ redo' = [redo EXCEPT ![c] = {}]
  /\ jobs' = [jobs EXCEPT ![c] = [e \in Entries |-> 0]]
  /\ pc' = [g \in Goroutines |-> IF Home[g] = c THEN "idle" ELSE pc[g]]
  /\ job' = [g \in Goroutines |-> IF Home[g] = c THEN 0 ELSE job[g]]
  /\ ran' = [g \in Goroutines |-> IF Home[g] = c THEN 0 ELSE ran[g]]
  /\ UNCHANGED <<rows, redis, faults>>

\* One tick passes.  A probe with its retries, together with the statement that
\* records its result, ends within MaxRun: every attempt has a deadline and
\* the retries and their delays are bounded (execution.go).
Tick ==
  /\ \A g \in Goroutines : pc[g] = "probing" => ran[g] < MaxRun
  /\ age' = [x \in Executions |->
               IF status[x] = "running" /\ age[x] <= Idle THEN age[x] + 1 ELSE age[x]]
  /\ late' = {x \in Executions : status[x] = "queued"}
  /\ idle' = [e \in Entries |->
               IF e \in pel /\ idle[e] < Idle THEN idle[e] + 1 ELSE idle[e]]
  /\ ran' = [g \in Goroutines |-> IF pc[g] = "probing" THEN ran[g] + 1 ELSE ran[g]]
  /\ UNCHANGED <<status, owner, stream, read, pel, life, loops, jobs, pc, job, faults>>

----------------------------------------------------------------------------------
(* Scheduler and RecoveryDispatcher                                             *)

\* Scheduler.cycle, Repository.ScheduleDue: one transaction creates a batch of
\* queued rows and hands their messages to the scheduler.  scheduled_at is the
\* task's old next_run_at, so a row may be late as soon as it exists.  If the
\* commit's reply gets lost, cycle publishes nothing.
ScheduleDue(c) ==
  /\ life[c] = "up"
  /\ outbox[c] = {}
  /\ \E S \in (SUBSET {x \in Executions : status[x] = "absent"}) \ {{}} :
       /\ Cardinality(S) <= Batch
       /\ status' = [x \in Executions |-> IF x \in S THEN "queued" ELSE status[x]]
       /\ \E L \in SUBSET S : late' = late \cup L
       /\ \/ outbox' = [outbox EXCEPT ![c] = S] /\ NoFault
          \/ UNCHANGED outbox /\ Fault
  /\ UNCHANGED <<owner, age, redis, life, redo, jobs, pool>>

\* Faulty variant: waits for a full batch.
QueuedBeforeFullBatch(c) ==
  /\ life[c] = "up"
  /\ redo[c] = {}
  /\ \E S \in SUBSET late :
       Cardinality(S) = Batch /\ redo' = [redo EXCEPT ![c] = S]
  /\ UNCHANGED <<rows, redis, life, outbox, jobs, pool, faults>>

\* RecoveryDispatcher.Run, Repository.QueuedBefore: the oldest queued rows, up
\* to the batch size, are read and will be published again.
QueuedBefore(c) ==
  /\ life[c] = "up"
  /\ redo[c] = {}
  /\ \E S \in (SUBSET late) \ {{}} :
       /\ Cardinality(S) = Batch \/ (S = late /\ Cardinality(S) <= Batch)
       /\ redo' = [redo EXCEPT ![c] = S]
  /\ UNCHANGED <<rows, redis, life, outbox, jobs, pool, faults>>

\* XADD.  Beyond MaxCopies another duplicate is not modelled.
XAdd(x) ==
  stream' = IF Copies(x) < MaxCopies /\ Len(stream) < MaxEntries
            THEN Append(stream, x) ELSE stream

\* RedisPublisher.Publish: an error is only logged, the message is dropped and
\* the loop goes on.
TryXAdd(x) ==
  \/ XAdd(x) /\ NoFault
  \/ Fault /\ UNCHANGED stream

\* The scheduler's loop publishes its batch.
Publish(c, x) ==
  /\ life[c] = "up"
  /\ x \in outbox[c]
  /\ outbox' = [outbox EXCEPT ![c] = @ \ {x}]
  /\ TryXAdd(x)
  /\ UNCHANGED <<rows, read, pel, idle, life, redo, jobs, pool>>

\* The recovery dispatcher publishes what it read.  The row may have changed
\* since; nobody looks again.
Republish(c, x) ==
  /\ life[c] = "up"
  /\ x \in redo[c]
  /\ redo' = [redo EXCEPT ![c] = @ \ {x}]
  /\ TryXAdd(x)
  /\ UNCHANGED <<rows, read, pel, idle, life, outbox, jobs, pool>>

----------------------------------------------------------------------------------
(* Consumer: readLoop and claimLoop                                             *)

\* The consumer puts a delivered message into the jobs channel, or the reply of
\* Redis got lost and the entry is pending in nobody's memory.
Enqueue(c, e) ==
  \/ jobs' = [jobs EXCEPT ![c][e] = @ + 1] /\ NoFault
  \/ Fault /\ UNCHANGED jobs

\* XREADGROUP ">": the next new message is delivered to this consumer.
ReadGroup(c) ==
  /\ life[c] = "up"
  /\ read < Len(stream)
  /\ read' = read + 1
  /\ pel' = pel \cup {read + 1}
  /\ idle' = [idle EXCEPT ![read + 1] = 0]
  /\ Enqueue(c, read + 1)
  /\ UNCHANGED <<rows, stream, life, loops, pool>>

\* XAUTOCLAIM: a pending entry idle for MESSAGE_IDLE_TIMEOUT is delivered again,
\* whoever had it before, this consumer included.
AutoClaim(c, e) ==
  /\ life[c] = "up"
  /\ e \in pel
  /\ idle[e] >= Idle
  /\ jobs[c][e] < MaxHeld
  /\ idle' = [idle EXCEPT ![e] = 0]
  /\ Enqueue(c, e)
  /\ UNCHANGED <<rows, stream, read, pel, life, loops, pool>>

----------------------------------------------------------------------------------
(* The worker goroutines: Consumer.worker and Processor.Process                 *)

\* Goroutine g is done with its message, acknowledged or not.
Rest(g) ==
  /\ pc' = [pc EXCEPT ![g] = "idle"]
  /\ job' = [job EXCEPT ![g] = 0]
  /\ ran' = [ran EXCEPT ![g] = 0]

GoTo(g, p) == pc' = [pc EXCEPT ![g] = p] /\ UNCHANGED <<job, ran>>

\* Faulty variant: does not notice that the channel is empty.
ReceiveUnchecked(g, e) ==
  /\ life[Home[g]] = "up"
  /\ pc[g] = "idle"
  /\ e <= read
  /\ jobs' = [jobs EXCEPT ![Home[g]][e] = @ - 1]
  /\ pc' = [pc EXCEPT ![g] = "got"]
  /\ job' = [job EXCEPT ![g] = e]
  /\ UNCHANGED <<rows, redis, life, loops, ran, faults>>

\* A goroutine takes a message from the channel.
Receive(g, e) ==
  /\ life[Home[g]] = "up"
  /\ pc[g] = "idle"
  /\ jobs[Home[g]][e] > 0
  /\ jobs' = [jobs EXCEPT ![Home[g]][e] = @ - 1]
  /\ pc' = [pc EXCEPT ![g] = "got"]
  /\ job' = [job EXCEPT ![g] = e]
  /\ UNCHANGED <<rows, redis, life, loops, ran, faults>>

\* Faulty variant: takes a running execution for a finished one.
GetWorkRunningIsDone(g) ==
  /\ pc[g] = "got"
  /\ GoTo(g, IF status[Exec(g)] # "queued" THEN "done" ELSE "checked")
  /\ UNCHANGED <<rows, redis, life, loops, jobs, faults>>

\* Faulty variant: leaves finished executions to Acquire.
GetWorkAlwaysAcquire(g) ==
  /\ pc[g] = "got"
  /\ GoTo(g, "checked")
  /\ UNCHANGED <<rows, redis, life, loops, jobs, faults>>

\* Repository.GetWork: an execution that is already final needs no work and
\* its message is acknowledged.
GetWork(g) ==
  /\ pc[g] = "got"
  /\ GoTo(g, IF Final(Exec(g)) THEN "done" ELSE "checked")
  /\ UNCHANGED <<rows, redis, life, loops, jobs, faults>>

\* Faulty variants of the condition below: an idle timeout one tick short, no
\* takeover at all.
MayAcquireEarly(x, c) ==
  \/ status[x] = "queued"
  \/ status[x] = "running" /\ age[x] + Skew[c] >= Idle

MayAcquireQueued(x, c) == status[x] = "queued"

\* The WHERE clause of Acquire: queued, or running and not updated for longer
\* than the idle timeout by the clock of the process that asks.
MayAcquire(x, c) ==
  \/ status[x] = "queued"
  \/ status[x] = "running" /\ age[x] + Skew[c] > Idle

\* Repository.Acquire: a conditional UPDATE.  updated_at is the clock of the
\* process.  If no row matches, the message stays pending (ErrExecutionBusy);
\* if the reply is lost the row is taken and the goroutine gives up.
Acquire(g) ==
  LET x == Exec(g)
      c == Home[g]
  IN /\ pc[g] = "checked"
     /\ \/ /\ MayAcquire(x, c)
           /\ status' = [status EXCEPT ![x] = "running"]
           /\ owner' = [owner EXCEPT ![x] = c]
           /\ age' = [age EXCEPT ![x] = 0 - Skew[c]]
           /\ late' = late \ {x}
           /\ \/ GoTo(g, "probing") /\ NoFault
              \/ Rest(g) /\ Fault
        \/ /\ ~MayAcquire(x, c)
           /\ Rest(g)
           /\ NoFault
           /\ UNCHANGED rows
     /\ UNCHANGED <<redis, life, loops, jobs>>

\* Faulty variant: any row of this consumer.
MayFinishOwn(x, c) == owner[x] = c

\* The WHERE clause of MarkFinal.
MayFinish(x, c) == status[x] = "running" /\ owner[x] = c

\* The probe ended and Repository.MarkFinal records its result with a
\* conditional UPDATE.  If no row matches (ErrConflict) the result is dropped
\* and the message stays pending.
MarkFinal(g) ==
  LET x == Exec(g)
      c == Home[g]
  IN /\ pc[g] = "probing"
     /\ \/ /\ MayFinish(x, c)
           /\ \E s \in FinalStates : status' = [status EXCEPT ![x] = s]
           /\ age' = [age EXCEPT ![x] = 0 - Skew[c]]
           /\ \/ /\ pc' = [pc EXCEPT ![g] = "done"]
                 /\ ran' = [ran EXCEPT ![g] = 0]
                 /\ UNCHANGED job
                 /\ NoFault
              \/ Rest(g) /\ Fault
        \/ /\ ~MayFinish(x, c)
           /\ Rest(g)
           /\ NoFault
           /\ UNCHANGED <<status, age>>
     /\ UNCHANGED <<owner, late, redis, life, loops, jobs>>

\* XACK, after Process returned nil.
Ack(g) ==
  /\ pc[g] = "done"
  /\ pel' = pel \ {job[g]}
  /\ idle' = [idle EXCEPT ![job[g]] = 0]
  /\ Rest(g)
  /\ UNCHANGED <<rows, stream, read, life, loops, jobs, faults>>

\* The goroutine gives up before its next statement took effect: a failed query,
\* an unsupported probe type, a recovered panic or a failed XACK.
GiveUp(g) ==
  /\ pc[g] # "idle"
  /\ Rest(g)
  /\ Fault
  /\ UNCHANGED <<rows, redis, life, loops, jobs>>

----------------------------------------------------------------------------------
Worker(g) ==
  \/ \E e \in Entries : Receive(g, e)
  \/ GetWork(g)
  \/ Acquire(g)
  \/ MarkFinal(g)
  \/ Ack(g)
  \/ GiveUp(g)

Process(c) ==
  \/ Start(c)
  \/ Crash(c)
  \/ ScheduleDue(c)
  \/ QueuedBefore(c)
  \/ \E x \in Executions : Publish(c, x) \/ Republish(c, x)
  \/ ReadGroup(c)
  \/ \E e \in Entries : AutoClaim(c, e)

Next ==
  \/ Tick
  \/ \E c \in Consumers : Process(c)
  \/ \E g \in Goroutines : Worker(g)

Spec == Init /\ [][Next]_vars

\* What a goroutine does when nothing fails.
Advance(g) ==
  \/ \E e \in Entries : Receive(g, e)
  \/ GetWork(g) \/ Acquire(g) \/ MarkFinal(g) \/ Ack(g)

(* The loops of the running processes keep running, a dead process is replaced, *)
(* and a goroutine that can go on does: cmd/worker starts one goroutine for     *)
(* every loop and the deployment restarts the container.  A loop of one process *)
(* may stand still while the same loop of another process gets on.  XAUTOCLAIM  *)
(* walks the whole pending list by its cursor, so every entry gets its turn.    *)
(* ScheduleDue, crashes and errors are not fair.                                *)
Fairness ==
  /\ WF_vars(Tick)
  /\ WF_vars(\E c \in Consumers : Start(c))
  /\ WF_vars(\E c \in Consumers : QueuedBefore(c))
  /\ WF_vars(\E c \in Consumers, x \in Executions : Publish(c, x))
  /\ WF_vars(\E c \in Consumers, x \in Executions : Republish(c, x))
  /\ WF_vars(\E c \in Consumers : ReadGroup(c))
  /\ \A e \in Entries : WF_vars(\E c \in Consumers : AutoClaim(c, e))
  /\ \A g \in Goroutines : WF_vars(Advance(g))

FairSpec == Spec /\ Fairness

----------------------------------------------------------------------------------
(* Properties                                                                   *)

\* The domain of every variable.
TypeOK ==
  /\ status \in [Executions -> States]
  /\ owner \in [Executions -> Consumers \cup {NoConsumer}]
  /\ age \in [Executions -> Int]
  /\ late \in SUBSET Executions
  /\ stream \in Seq(Executions)
  /\ Len(stream) <= MaxEntries
  /\ read \in 0..Len(stream)
  /\ pel \in SUBSET (1..read)
  /\ idle \in [Entries -> Nat]
  /\ life \in [Consumers -> {"new", "up", "dead"}]
  /\ outbox \in [Consumers -> SUBSET Executions]
  /\ redo \in [Consumers -> SUBSET Executions]
  /\ jobs \in [Consumers -> [Entries -> Nat]]
  /\ pc \in [Goroutines -> {"idle", "got", "checked", "probing", "done"}]
  /\ job \in [Goroutines -> 0..read]
  /\ ran \in [Goroutines -> Nat]
  /\ faults \in Nat

\* docs/architecture.md:18: a message is acknowledged only after the final state
\* is in the database.  Whatever dies or fails, an entry that left the pending
\* list names an execution whose result is recorded.
AckedIsFinal == \A e \in 1..read : e \notin pel => Final(stream[e])

\* A running execution is always named by a pending entry, so that XAUTOCLAIM
\* reaches it after its owner died: the recovery dispatcher, which reads queued
\* rows only, would never find it.
RunningIsPending ==
  \A x \in Executions : status[x] = "running" => \E e \in pel : stream[e] = x

\* docs/database.md:23: duplicate deliveries never produce a second result.  A
\* final row keeps its status and its worker_consumer for ever.
FinalOnce ==
  [][\A x \in Executions :
       Final(x) => status'[x] = status[x] /\ owner'[x] = owner[x]]_vars

\* As long as the probes keep to MaxRun, a goroutine that probes an execution is
\* the only one that does, in all processes, and its process owns the row: no
\* target is probed twice at the same time and no result of a live probe is
\* dropped.
SoleOwner ==
  \A g \in Goroutines : pc[g] = "probing" =>
    /\ status[Exec(g)] = "running" /\ owner[Exec(g)] = Home[g]
    /\ \A h \in Goroutines \ {g} : pc[h] = "probing" => Exec(h) # Exec(g)

\* Every execution that was created is finished, whatever died or failed on the
\* way, if errors end and one process stays.
EventuallyFinal == \A x \in Executions : (status[x] # "absent") ~> Final(x)

\* No message stays pending for ever, duplicates included: each is delivered
\* again until its execution is final, and then acknowledged.
Drained == \A e \in Entries : (e \in pel) ~> (e \notin pel)

\* The pipeline implements the life of an execution.
settled == {stream[e] : e \in (1..read) \ pel}
Lifecycle == INSTANCE ExecutionLifecycle
ImplementsLifecycle == Lifecycle!Spec

\* The stream and the consumer group of the pipeline: messages are delivered in
\* their order and settled only when their execution is final.
Delivery ==
  INSTANCE MessageDelivery WITH
    Messages <- Entries,
    queue <- (read + 1)..Len(stream),
    pending <- pel,
    settled <- (1..read) \ pel,
    done <- {e \in 1..Len(stream) : Final(stream[e])}
ImplementsDelivery == Delivery!Spec

----------------------------------------------------------------------------------
(* The invariants above, strengthened until a step preserves them               *)

\* Every message, published or about to be, names a row.
MessagesNameRows ==
  /\ \A e \in 1..Len(stream) : status[stream[e]] # "absent"
  /\ \A c \in Consumers : \A x \in outbox[c] \cup redo[c] : status[x] # "absent"
  /\ \A x \in late : status[x] = "queued"

\* What processes hold was delivered to them; what runs was delivered to someone.
Delivered ==
  /\ \A c \in Consumers, e \in Entries : jobs[c][e] > 0 => e <= read
  /\ \A g \in Goroutines : pc[g] # "idle" => job[g] # 0
  /\ \A x \in Executions :
       status[x] = "running" => \E e \in 1..read : stream[e] = x

\* A goroutine is only as far as the row it works on, and only a probe is timed.
GoroutineProgress ==
  \A g \in Goroutines :
    /\ pc[g] # "probing" => ran[g] = 0
    /\ pc[g] = "probing" => status[Exec(g)] \in {"running"} \cup FinalStates
    /\ pc[g] = "done" => Final(Exec(g))

\* The inductive invariant: what holds at any probe duration and any clocks.
IInv ==
  /\ TypeOK
  /\ MessagesNameRows
  /\ Delivered
  /\ GoroutineProgress
  /\ AckedIsFinal

\* The timing the deployment has to provide: what a probe may take at most, plus
\* how far clocks are apart, stays within the idle timeout.  With the limits of
\* task_service.go a probe takes at most 21.5 minutes, the idle timeout of every
\* deployment is 30 minutes; config.go does not compare the two.
TimelyProbes ==
  \A c, d \in Consumers : MaxRun + Skew[c] <= Idle + Skew[d]

\* A probing goroutine's row was updated when the probe began, so it is not
\* older than the probe.
LeaseHeld ==
  \A g \in Goroutines : pc[g] = "probing" =>
    ran[g] <= MaxRun /\ age[Exec(g)] <= ran[g] - Skew[Home[g]]

\* The inductive invariant under TimelyProbes.
TimelyInv == IInv /\ SoleOwner /\ LeaseHeld
===================================================================================
