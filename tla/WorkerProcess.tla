------------------------------ MODULE WorkerProcess ------------------------------
(* One worker process from start to stop (cmd/worker run, Consumer.Run): the    *)
(* reader and the claimer fill a bounded channel, a pool of goroutines empties  *)
(* it.  A signal, or a metrics server that fails, cancels the context they all  *)
(* share; Run waits for the claimer, closes the channel and waits for the pool. *)
(* The container is started again.                                              *)
(*                                                                              *)
(* ProbePipeline has the rows and several processes; here it is enough whether  *)
(* the execution of a message was processed.                                    *)
EXTENDS Naturals, Sequences, FiniteSetsExt

CONSTANTS
  Goroutines,   \* the pool, PROBE_WORKER_COUNT of them
  Poison,       \* the messages that cannot be decoded
  Capacity,     \* PROBE_QUEUE_CAPACITY
  ReadCount,    \* PROBE_STREAM_READ_COUNT, for XREADGROUP and XAUTOCLAIM
  Scan,         \* how many pending entries one XAUTOCLAIM looks at
  MaxEntries,   \* bound: messages
  MaxStops,     \* bound: how often the process is stopped
  MaxFaults     \* bound: errors, the loss of the group included

Entries == 1..MaxEntries

ASSUME WorkerAssumption ==
  /\ MaxEntries \in Nat
  /\ Poison \subseteq Entries
  /\ {Capacity, ReadCount, Scan} \subseteq Nat \ {0}
  /\ {MaxStops, MaxFaults} \subseteq Nat

VARIABLES
  \* Redis
  last,        \* the last message that was added
  stream,
  group,       \* the consumer group exists
  read,        \* the last message it delivered
  pel,         \* its pending entries
  old,         \* those that are idle for MESSAGE_IDLE_TIMEOUT
  \* the process
  running,
  cancelled,   \* the context is cancelled
  at,          \* where the reader and the claimer are
  batch,       \* the messages they received and have not handed on
  start,       \* the claimer's cursor, 0 for "0-0"
  jobs,        \* the channel
  closed,
  pc,
  job,         \* the message a goroutine works on
  \* MySQL
  processed,   \* messages whose execution is final
  stops,
  faults

redis == <<last, stream, group, read, pel, old>>
loops == <<at, batch, start>>
pool == <<pc, job>>
bounds == <<stops, faults>>
vars == <<redis, running, cancelled, loops, jobs, closed, pool, processed, bounds>>

Loops == {"reader", "claimer"}

Fault == faults < MaxFaults /\ faults' = faults + 1 /\ UNCHANGED stops
NoFault == UNCHANGED bounds

\* The first n of a set of messages.
FirstOf(n, S) == {e \in S : Cardinality({d \in S : d < e}) < n}

----------------------------------------------------------------------------------
(* Redis, and the process that starts                                           *)

Init ==
  /\ last = 0 /\ stream = {} /\ group = FALSE /\ read = 0 /\ pel = {} /\ old = {}
  /\ running = FALSE /\ cancelled = FALSE
  /\ at = [l \in Loops |-> "gone"]
  /\ batch = [l \in Loops |-> {}]
  /\ start = 0
  /\ jobs = <<>> /\ closed = TRUE
  /\ pc = [g \in Goroutines |-> "gone"]
  /\ job = [g \in Goroutines |-> 0]
  /\ processed = {}
  /\ stops = 0 /\ faults = 0

\* Schedulers and dispatchers, here or elsewhere, publish.
Publish ==
  /\ last < MaxEntries
  /\ last' = last + 1
  /\ stream' = stream \cup {last + 1}
  /\ UNCHANGED <<group, read, pel, old, running, cancelled, loops, jobs, closed, pool,
                 processed, bounds>>

\* Nobody received a pending entry for MESSAGE_IDLE_TIMEOUT.
Age(e) ==
  /\ e \in pel \ old
  /\ old' = old \cup {e}
  /\ UNCHANGED <<last, stream, group, read, pel, running, cancelled, loops, jobs, closed, pool,
                 processed, bounds>>

\* Redis comes back without the stream and its group.
LoseGroup ==
  /\ group
  /\ Fault
  /\ group' = FALSE /\ stream' = {} /\ read' = 0 /\ pel' = {} /\ old' = {}
  /\ UNCHANGED <<last, running, cancelled, loops, jobs, closed, pool, processed>>

\* run and the head of Consumer.Run.  The group is created at the beginning of
\* the stream unless it exists (BUSYGROUP); another error ends the process, and
\* it is started again.
Start ==
  /\ ~running
  /\ \/ /\ group' = TRUE
        /\ running' = TRUE
        /\ cancelled' = FALSE
        /\ at' = [l \in Loops |-> IF l = "reader" THEN "check" ELSE "select"]
        /\ batch' = [l \in Loops |-> {}]
        /\ start' = 0
        /\ jobs' = <<>>
        /\ closed' = FALSE
        /\ pc' = [g \in Goroutines |-> "receive"]
        /\ job' = [g \in Goroutines |-> 0]
        /\ NoFault
     \/ Fault /\ UNCHANGED <<group, running, cancelled, loops, jobs, closed, pool>>
  /\ UNCHANGED <<last, stream, read, pel, old, processed>>

\* SIGTERM, or the metrics server cannot listen: both cancel the context.
Cancel ==
  /\ running /\ ~cancelled
  /\ stops < MaxStops
  /\ stops' = stops + 1
  /\ cancelled' = TRUE
  /\ UNCHANGED <<redis, running, loops, jobs, closed, pool, processed, faults>>

----------------------------------------------------------------------------------
(* readLoop and claimLoop                                                       *)

\* A loop received messages; with none it begins its next round.
Received(l, S, round) ==
  /\ batch' = [batch EXCEPT ![l] = S]
  /\ at' = [at EXCEPT ![l] = IF S = {} THEN round ELSE "send"]

\* Faulty variant: does not look at the context, and the call that fails with it
\* is taken for an empty answer.
CheckNothing ==
  /\ at["reader"] = "check"
  /\ at' = [at EXCEPT !["reader"] = "read"]
  /\ UNCHANGED <<redis, running, cancelled, batch, start, jobs, closed, pool, processed, bounds>>

\* The head of readLoop.  The pause after an error ends here as well.
Check ==
  /\ at["reader"] = "check"
  /\ at' = [at EXCEPT !["reader"] = IF cancelled THEN "gone" ELSE "read"]
  /\ UNCHANGED <<redis, running, cancelled, batch, start, jobs, closed, pool, processed, bounds>>

\* XREADGROUP.  It may be under way when the context is cancelled, and then
\* still deliver.  Without a group, or with no message in time, nothing is read.
\* The reply may get lost.
ReadGroup ==
  LET new == {e \in stream : e > read}
      S == FirstOf(ReadCount, new)
  IN /\ at["reader"] = "read"
     /\ \/ /\ group /\ new # {}
           /\ \E e \in S : (\A d \in S : d <= e) /\ read' = e
           /\ pel' = pel \cup S
           /\ \/ Received("reader", S, "check") /\ NoFault
              \/ Received("reader", {}, "check") /\ Fault
        \/ /\ ~group \/ new = {} \/ cancelled
           /\ Received("reader", {}, "check")
           /\ NoFault
           /\ UNCHANGED <<read, pel>>
     /\ UNCHANGED <<last, stream, group, old, running, cancelled, start, jobs, closed, pool,
                    processed>>

\* claimLoop waits for its ticker or the end of the context.
Select ==
  /\ at["claimer"] = "select"
  /\ at' = [at EXCEPT !["claimer"] = IF cancelled THEN "gone" ELSE "claim"]
  /\ UNCHANGED <<redis, running, cancelled, batch, start, jobs, closed, pool, processed, bounds>>

\* XAUTOCLAIM looks at Scan pending entries from the cursor on, unless it has
\* found ReadCount idle ones before.
Visited ==
  LET from == {e \in pel : e >= start}
  IN FirstOf(Scan, from) \cap {e \in from : Cardinality({d \in from \cap old : d < e}) < ReadCount}

\* Faulty variant: the cursor of the answer is dropped.
CursorZero == 0

\* Its answer has the entry to go on from, "0-0" after the last.
Cursor ==
  LET rest == {e \in pel : e >= start} \ Visited
  IN IF rest = {} THEN 0 ELSE Min(rest)

AutoClaim ==
  LET S == Visited \cap old
  IN /\ at["claimer"] = "claim"
     /\ \/ /\ group
           /\ old' = old \ S
           /\ \/ Received("claimer", S, "select") /\ start' = Cursor /\ NoFault
              \/ Received("claimer", {}, "select") /\ UNCHANGED start /\ Fault
        \/ /\ ~group \/ cancelled
           /\ Received("claimer", {}, "select")
           /\ NoFault
           /\ UNCHANGED <<start, old>>
     /\ UNCHANGED <<last, stream, group, read, pel, running, cancelled, jobs, closed, pool,
                    processed>>

Round(l) == IF l = "reader" THEN "check" ELSE "select"

\* decode fails: the message is logged, or not even that, and stays pending.
Discard(l) ==
  /\ at[l] = "send"
  /\ Min(batch[l]) \in Poison
  /\ Received(l, batch[l] \ {Min(batch[l])}, Round(l))
  /\ UNCHANGED <<redis, running, cancelled, start, jobs, closed, pool, processed, bounds>>

\* enqueue: the channel has room.
Enqueue(l) ==
  /\ at[l] = "send"
  /\ Min(batch[l]) \notin Poison
  /\ Len(jobs) < Capacity
  /\ jobs' = Append(jobs, Min(batch[l]))
  /\ Received(l, batch[l] \ {Min(batch[l])}, Round(l))
  /\ UNCHANGED <<redis, running, cancelled, start, closed, pool, processed, bounds>>

\* enqueue: the context ends, and the rest of the batch with it.  With room in
\* the channel as well, select takes either.
Forget(l) ==
  /\ at[l] = "send"
  /\ Min(batch[l]) \notin Poison
  /\ cancelled
  /\ at' = [at EXCEPT ![l] = "gone"]
  /\ batch' = [batch EXCEPT ![l] = {}]
  /\ UNCHANGED <<redis, running, cancelled, start, jobs, closed, pool, processed, bounds>>

----------------------------------------------------------------------------------
(* The pool: Consumer.worker                                                    *)

GoTo(g, p, e) == pc' = [pc EXCEPT ![g] = p] /\ job' = [job EXCEPT ![g] = e]

\* The channel has a message.  A goroutine does not look at the context: what is
\* in the channel is received even after it was closed.
Receive(g) ==
  /\ pc[g] = "receive"
  /\ jobs # <<>>
  /\ jobs' = Tail(jobs)
  /\ GoTo(g, "process", Head(jobs))
  /\ UNCHANGED <<redis, running, cancelled, loops, closed, processed, bounds>>

\* The channel is closed and empty.
Leave(g) ==
  /\ pc[g] = "receive"
  /\ jobs = <<>> /\ closed
  /\ GoTo(g, "gone", 0)
  /\ UNCHANGED <<redis, running, cancelled, loops, jobs, closed, processed, bounds>>

\* Processor.Process returns nil: the execution is final.
Process(g) ==
  /\ pc[g] = "process"
  /\ processed' = processed \cup {job[g]}
  /\ GoTo(g, "ack", job[g])
  /\ UNCHANGED <<redis, running, cancelled, loops, jobs, closed, bounds>>

\* Faulty variant: the end of the context counts as success.
GiveUpAcknowledges(g) ==
  /\ pc[g] = "process"
  /\ IF cancelled THEN GoTo(g, "ack", job[g]) /\ NoFault ELSE GoTo(g, "receive", 0) /\ Fault
  /\ UNCHANGED <<redis, running, cancelled, loops, jobs, closed, processed>>

\* Process returns an error, that of the context included, or panics.
GiveUp(g) ==
  /\ pc[g] = "process"
  /\ GoTo(g, "receive", 0)
  /\ (cancelled /\ NoFault) \/ Fault
  /\ UNCHANGED <<redis, running, cancelled, loops, jobs, closed, processed>>

\* XACK; its error is logged and that is all.
Ack(g) ==
  /\ pc[g] = "ack"
  /\ GoTo(g, "receive", 0)
  /\ \/ pel' = pel \ {job[g]} /\ old' = old \ {job[g]} /\ NoFault
     \/ ((cancelled /\ NoFault) \/ Fault) /\ UNCHANGED <<pel, old>>
  /\ UNCHANGED <<last, stream, group, read, running, cancelled, loops, jobs, closed, processed>>

----------------------------------------------------------------------------------
(* The end of Consumer.Run                                                      *)

\* Faulty variant: the claimer is not waited for.
CloseEarly ==
  /\ running /\ ~closed
  /\ at["reader"] = "gone"
  /\ closed' = TRUE
  /\ UNCHANGED <<redis, running, cancelled, loops, jobs, pool, processed, bounds>>

\* readLoop returned, claimant.Wait, close(jobs).
Close ==
  /\ running /\ ~closed
  /\ at["reader"] = "gone" /\ at["claimer"] = "gone"
  /\ closed' = TRUE
  /\ UNCHANGED <<redis, running, cancelled, loops, jobs, pool, processed, bounds>>

\* workers.Wait; the process ends.
Return ==
  /\ running /\ closed
  /\ \A g \in Goroutines : pc[g] = "gone"
  /\ running' = FALSE
  /\ UNCHANGED <<redis, cancelled, loops, jobs, closed, pool, processed, bounds>>

----------------------------------------------------------------------------------
Send(l) == Discard(l) \/ Enqueue(l) \/ Forget(l)
Reader == Check \/ ReadGroup \/ Send("reader")
Claimer == Select \/ AutoClaim \/ Send("claimer")
Worker(g) == Receive(g) \/ Leave(g) \/ Process(g) \/ GiveUp(g) \/ Ack(g)

Next ==
  \/ Publish
  \/ \E e \in Entries : Age(e)
  \/ LoseGroup
  \/ Start \/ Cancel \/ Close \/ Return
  \/ Reader \/ Claimer
  \/ \E g \in Goroutines : Worker(g)

Spec == Init /\ [][Next]_vars

(* Every goroutine that can go on does: calls to Redis have timeouts, a probe   *)
(* ends, and the container is restarted.  Time passes for every pending entry.  *)
(* Publishers, signals and errors owe nothing.                                  *)
Fairness ==
  /\ WF_vars(Start) /\ WF_vars(Close) /\ WF_vars(Return)
  /\ WF_vars(Reader) /\ WF_vars(Claimer)
  /\ \A g \in Goroutines : WF_vars(Worker(g))
  /\ \A e \in Entries : WF_vars(Age(e))

FairSpec == Spec /\ Fairness

----------------------------------------------------------------------------------
(* Properties                                                                   *)

\* The domain of every variable.
TypeOK ==
  /\ last \in 0..MaxEntries
  /\ stream \in SUBSET Entries
  /\ group \in BOOLEAN
  /\ read \in 0..MaxEntries
  /\ pel \in SUBSET Entries
  /\ old \in SUBSET pel
  /\ running \in BOOLEAN /\ cancelled \in BOOLEAN /\ closed \in BOOLEAN
  /\ at \in [Loops -> {"check", "read", "select", "claim", "send", "gone"}]
  /\ batch \in [Loops -> SUBSET Entries]
  /\ start \in 0..MaxEntries
  /\ jobs \in Seq(Entries) /\ Len(jobs) <= Capacity
  /\ pc \in [Goroutines -> {"receive", "process", "ack", "gone"}]
  /\ job \in [Goroutines -> 0..MaxEntries]
  /\ processed \in SUBSET Entries
  /\ stops \in 0..MaxStops /\ faults \in 0..MaxFaults

\* Nobody is left to send when the channel is closed: a send on a closed channel
\* would end the process with what its goroutines are doing.
ClosedWithoutSenders == closed => \A l \in Loops : at[l] = "gone"

\* A goroutine ends only when the channel is closed and empty: as long as a loop
\* waits for room there is somebody who makes room, and what is in the channel
\* when the loops have ended is still received.
ReceiversStay == (\E g \in Goroutines : pc[g] = "gone") => closed /\ jobs = <<>>

\* docs/architecture.md:18 for a process that is stopped at any point: a message
\* the group delivered is pending until its execution is final, so that it is
\* claimed after a restart.
StoppedStaysPending ==
  \A e \in stream : e <= read => e \in pel \/ e \in processed

\* consumer.go:106: the cursor goes on or back to the beginning, and leaves no
\* entry that is idle long enough behind, however few one call returns and
\* whatever stops being pending in between.
ClaimSkipsNone ==
  [][at["claimer"] = "claim" /\ (start' # start \/ batch'["claimer"] # {}) =>
       /\ start' = 0 \/ start' > start
       /\ \A e \in old : e >= start /\ (start' = 0 \/ e < start') => e \in batch'["claimer"]]_vars

\* One process, its loops, channel and goroutines included, treats messages as
\* the consumer group promises.
Delivery ==
  INSTANCE MessageDelivery WITH
    Messages <- Entries,
    queue <- {e \in stream : e > read},
    pending <- pel,
    settled <- {e \in stream : e <= read} \ pel,
    done <- processed
ImplementsDelivery == Delivery!Spec

\* docs/requirements.md:23: once it is told to stop the process ends, however
\* full the channel is and whatever the loops are waiting for.
Stops == cancelled ~> ~running

\* Every message that can be decoded is processed and acknowledged in the end,
\* although the process is stopped, calls fail and messages that nobody can
\* decode are claimed again and again; unless Redis has lost the group, which
\* only the next process creates.
Consumed ==
  \A e \in Entries \ Poison :
    e \in stream ~> (e <= read /\ e \notin pel) \/ ~group

----------------------------------------------------------------------------------
(* Why the properties hold                                                      *)

\* A loop has messages exactly while it hands them on, a goroutine that works
\* works on a message, and a process that ended had closed its channel.
Held ==
  /\ \A l \in Loops : at[l] = "send" <=> batch[l] # {}
  /\ \A g \in Goroutines : pc[g] \in {"process", "ack"} => job[g] \in Entries
  /\ ~running => closed

\* The inductive invariant.
IInv == TypeOK /\ Held /\ ClosedWithoutSenders /\ ReceiversStay
===================================================================================
