--------------------------- MODULE ProbePipelineProofs ---------------------------
(* Machine-checked proofs about ProbePipeline, for every set of executions,     *)
(* consumers and goroutines, every bound, every clock and every probe duration. *)
(*                                                                              *)
(* IInv is inductive without any assumption on time; AckedIsFinal,              *)
(* RunningIsPending, FinalOnce and the refinement of ExecutionLifecycle follow. *)
(* Under TimelyProbes the conjuncts SoleOwner and LeaseHeld are inductive too.  *)
EXTENDS ProbePipeline, TLAPS

----------------------------------------------------------------------------------
\* The pipeline starts empty.
LEMMA InitIInv == Init => IInv
BY ConsumersAssumption, BoundsAssumption
   DEF Init, IInv, TypeOK, MessagesNameRows, Delivered, GoroutineProgress,
       AckedIsFinal, Final, FinalStates, States, Entries

\* Appending a message leaves the published ones where they were.
LEMMA XAddKeeps ==
  ASSUME TypeOK, NEW x \in Executions, XAdd(x)
  PROVE  /\ stream' \in Seq(Executions)
         /\ Len(stream') <= MaxEntries
         /\ Len(stream) <= Len(stream')
         /\ \A e \in 1..Len(stream) : stream'[e] = stream[e]
         /\ \A e \in 1..Len(stream') : e \in 1..Len(stream) \/ stream'[e] = x
<1>1. stream \in Seq(Executions) /\ Len(stream) \in Nat /\ Len(stream) <= MaxEntries
  BY DEF TypeOK
<1>2. MaxEntries \in Nat
  BY BoundsAssumption
<1>3. CASE stream' = stream
  BY <1>1, <1>3
<1>4. CASE stream' = Append(stream, x) /\ Len(stream) < MaxEntries
  BY <1>1, <1>2, <1>4
<1> QED
  BY <1>3, <1>4 DEF XAdd

\* A goroutine that has a message works on an execution that was delivered.
LEMMA ExecIsExecution ==
  ASSUME TypeOK, Delivered
  PROVE  \A g \in Goroutines : pc[g] # "idle" =>
           job[g] \in 1..read /\ job[g] \in Entries /\ Exec(g) \in Executions
BY BoundsAssumption DEF TypeOK, Delivered, Exec, Entries

\* Enqueue changes one count of one channel.
LEMMA EnqueueType ==
  ASSUME TypeOK, NEW c \in Consumers, NEW e \in Entries, Enqueue(c, e)
  PROVE  /\ jobs' \in [Consumers -> [Entries -> Nat]]
         /\ \A d \in Consumers, f \in Entries : jobs'[d][f] = jobs[d][f] \/ f = e
         /\ faults' \in Nat
<1>1. jobs \in [Consumers -> [Entries -> Nat]] /\ faults \in Nat
  BY DEF TypeOK
<1>2. jobs[c] \in [Entries -> Nat] /\ jobs[c][e] + 1 \in Nat
  BY <1>1
<1>3. CASE jobs' = [jobs EXCEPT ![c][e] = @ + 1] /\ UNCHANGED faults
  <2>1. jobs' = [jobs EXCEPT ![c] = [jobs[c] EXCEPT ![e] = jobs[c][e] + 1]]
    BY <1>3
  <2>2. [jobs[c] EXCEPT ![e] = jobs[c][e] + 1] \in [Entries -> Nat]
    BY <1>2
  <2>3. \A d \in Consumers : jobs'[d] = IF d = c THEN [jobs[c] EXCEPT ![e] = jobs[c][e] + 1]
                                        ELSE jobs[d]
    BY <1>1, <2>1
  <2>4. \A f \in Entries : f # e => [jobs[c] EXCEPT ![e] = jobs[c][e] + 1][f] = jobs[c][f]
    BY <1>2
  <2> QED
    BY <1>1, <1>3, <2>1, <2>2, <2>3, <2>4
<1>4. CASE faults' = faults + 1 /\ UNCHANGED jobs
  BY <1>1, <1>4
<1> QED
  BY <1>3, <1>4 DEF Enqueue, Fault, NoFault

\* The same for a publisher.
LEMMA TryXAddKeeps ==
  ASSUME TypeOK, NEW x \in Executions, TryXAdd(x)
  PROVE  /\ stream' \in Seq(Executions)
         /\ Len(stream') <= MaxEntries
         /\ Len(stream) <= Len(stream')
         /\ \A e \in 1..Len(stream) : stream'[e] = stream[e]
         /\ \A e \in 1..Len(stream') : e \in 1..Len(stream) \/ stream'[e] = x
<1>1. CASE XAdd(x)
  BY <1>1, XAddKeeps
<1>2. CASE UNCHANGED stream
  BY <1>2 DEF TypeOK
<1> QED
  BY <1>1, <1>2 DEF TryXAdd

\* A goroutine moves on, or rests.
LEMMA PoolType ==
  ASSUME TypeOK, NEW g \in Goroutines,
         Rest(g) \/ \E p \in {"checked", "probing", "done"} : GoTo(g, p)
  PROVE  /\ pc' \in [Goroutines -> {"idle", "got", "checked", "probing", "done"}]
         /\ job' \in [Goroutines -> 0..read]
         /\ ran' \in [Goroutines -> Nat]
<1>1. CASE Rest(g)
  <2>1. 0 \in 0..read
    BY DEF TypeOK
  <2> QED
    BY <1>1, <2>1 DEF Rest, TypeOK
<1>2. CASE \E p \in {"checked", "probing", "done"} : GoTo(g, p)
  BY <1>2 DEF GoTo, TypeOK
<1> QED
  BY <1>1, <1>2

----------------------------------------------------------------------------------
(* Every action preserves IInv, conjunct by conjunct                            *)

LEMMA StartIInv ==
  ASSUME IInv, NEW c \in Consumers, Start(c)
  PROVE  IInv'
<1> USE ConsumersAssumption, TimingAssumption, BoundsAssumption
<1> USE DEF IInv, Start, rows, redis, loops, pool, FinalStates, States, Entries
<1>1. TypeOK'
  BY DEF TypeOK
<1>2. MessagesNameRows'
  BY DEF TypeOK, MessagesNameRows
<1>3. Delivered'
  BY DEF TypeOK, Delivered
<1>4. GoroutineProgress'
  BY DEF TypeOK, Delivered, GoroutineProgress, Exec, Final
<1>5. AckedIsFinal'
  BY DEF TypeOK, AckedIsFinal, GoroutineProgress, MessagesNameRows, Exec, Final
<1> QED
  BY <1>1, <1>2, <1>3, <1>4, <1>5

LEMMA CrashIInv ==
  ASSUME IInv, NEW c \in Consumers, Crash(c)
  PROVE  IInv'
<1> USE ConsumersAssumption, TimingAssumption, BoundsAssumption
<1> USE DEF IInv, Crash, rows, redis, loops, pool, FinalStates, States, Entries
<1>1. TypeOK'
  <2>1. life' \in [Consumers -> {"new", "up", "dead"}]
    BY DEF TypeOK
  <2>2. outbox' \in [Consumers -> SUBSET Executions] /\ redo' \in [Consumers -> SUBSET Executions]
    BY DEF TypeOK
  <2>3. jobs' \in [Consumers -> [Entries -> Nat]]
    BY DEF TypeOK
  <2>4. pc' \in [Goroutines -> {"idle", "got", "checked", "probing", "done"}]
    BY DEF TypeOK
  <2>5. job' \in [Goroutines -> 0..read] /\ ran' \in [Goroutines -> Nat]
    BY DEF TypeOK
  <2> QED
    BY <2>1, <2>2, <2>3, <2>4, <2>5 DEF TypeOK
<1>2. MessagesNameRows'
  BY DEF TypeOK, MessagesNameRows
<1>3. Delivered'
  <2>1. \A d \in Consumers, e \in Entries : jobs'[d][e] = jobs[d][e] \/ jobs'[d][e] = 0
    BY DEF TypeOK
  <2>2. \A g \in Goroutines : pc'[g] # "idle" => pc[g] # "idle" /\ job'[g] = job[g]
    BY DEF TypeOK
  <2>3. UNCHANGED <<status, stream, read>>
    OBVIOUS
  <2> QED
    BY ONLY <2>1, <2>2, <2>3, Delivered DEF Delivered
<1>4. GoroutineProgress'
  BY DEF TypeOK, Delivered, GoroutineProgress, Exec, Final
<1>5. AckedIsFinal'
  BY DEF TypeOK, AckedIsFinal, GoroutineProgress, MessagesNameRows, Exec, Final
<1> QED
  BY <1>1, <1>2, <1>3, <1>4, <1>5

LEMMA TickIInv ==
  ASSUME IInv, Tick
  PROVE  IInv'
<1> USE ConsumersAssumption, TimingAssumption, BoundsAssumption
<1> USE DEF IInv, Tick, rows, redis, loops, pool, FinalStates, States, Entries
<1>1. TypeOK'
  BY DEF TypeOK
<1>2. MessagesNameRows'
  BY DEF TypeOK, MessagesNameRows
<1>3. Delivered'
  BY DEF TypeOK, Delivered
<1>4. GoroutineProgress'
  BY DEF TypeOK, Delivered, GoroutineProgress, Exec, Final
<1>5. AckedIsFinal'
  BY DEF TypeOK, AckedIsFinal, GoroutineProgress, MessagesNameRows, Exec, Final
<1> QED
  BY <1>1, <1>2, <1>3, <1>4, <1>5

LEMMA ScheduleDueIInv ==
  ASSUME IInv, NEW c \in Consumers, ScheduleDue(c)
  PROVE  IInv'
<1> USE ConsumersAssumption, TimingAssumption, BoundsAssumption
<1> USE DEF IInv, ScheduleDue, rows, redis, loops, pool, FinalStates, States, Entries
<1>1. TypeOK'
  <2>1. status' \in [Executions -> States]
    BY DEF TypeOK
  <2>2. late' \in SUBSET Executions /\ outbox' \in [Consumers -> SUBSET Executions]
    <3>1. PICK S \in SUBSET Executions :
            /\ late' \in SUBSET (late \cup S)
            /\ outbox' = [outbox EXCEPT ![c] = S] \/ outbox' = outbox
      OBVIOUS
    <3> QED
      BY <3>1 DEF TypeOK
  <2>3. faults' \in Nat
    BY DEF TypeOK, Fault, NoFault
  <2> QED
    BY <2>1, <2>2, <2>3 DEF TypeOK
<1>2. MessagesNameRows'
  <2>1. PICK S \in SUBSET {x \in Executions : status[x] = "absent"} :
          /\ status' = [x \in Executions |-> IF x \in S THEN "queued" ELSE status[x]]
          /\ late' \in SUBSET (late \cup S)
          /\ outbox' = [outbox EXCEPT ![c] = S] \/ outbox' = outbox
    OBVIOUS
  <2>2. \A e \in 1..Len(stream') : status'[stream'[e]] # "absent"
    BY <2>1 DEF TypeOK, MessagesNameRows
  <2>3. ASSUME NEW d \in Consumers, NEW x \in outbox'[d] \cup redo'[d]
        PROVE  status'[x] # "absent"
    <3>1. redo' = redo /\ outbox'[d] \in {S, outbox[d]}
      BY <2>1 DEF TypeOK
    <3>2. x \in S \/ x \in outbox[d] \cup redo[d]
      BY <2>3, <3>1
    <3>3. x \in outbox[d] \cup redo[d] => x \in Executions /\ status[x] # "absent"
      BY DEF TypeOK, MessagesNameRows
    <3> QED
      BY <2>1, <3>2, <3>3 DEF TypeOK
  <2>4. \A x \in late' : status'[x] = "queued"
    BY <2>1 DEF TypeOK, MessagesNameRows
  <2> QED
    BY <2>2, <2>3, <2>4 DEF MessagesNameRows
<1>3. Delivered'
  BY DEF TypeOK, Delivered
<1>4. GoroutineProgress'
  <2>1. /\ \A x \in Executions : status[x] # "absent" => status'[x] = status[x]
        /\ pc' = pc /\ job' = job /\ stream' = stream
    BY DEF TypeOK
  <2>2. \A g \in Goroutines : pc[g] # "idle" => Exec(g) \in Executions
    BY ExecIsExecution DEF TypeOK
  <2> QED
    BY <2>1, <2>2 DEF GoroutineProgress, Exec, Final
<1>5. AckedIsFinal'
  <2>1. \A x \in Executions : Final(x) => Final(x)'
    BY DEF TypeOK, Final
  <2>2. \A e \in 1..read : stream[e] \in Executions
    BY DEF TypeOK
  <2>3. UNCHANGED <<stream, read, pel>>
    OBVIOUS
  <2> QED
    BY ONLY <2>1, <2>2, <2>3, AckedIsFinal DEF AckedIsFinal, Final
<1> QED
  BY <1>1, <1>2, <1>3, <1>4, <1>5

LEMMA QueuedBeforeIInv ==
  ASSUME IInv, NEW c \in Consumers, QueuedBefore(c)
  PROVE  IInv'
<1> USE ConsumersAssumption, TimingAssumption, BoundsAssumption
<1> USE DEF IInv, QueuedBefore, rows, redis, loops, pool, FinalStates, States, Entries
<1>1. TypeOK'
  <2>1. redo' \in [Consumers -> SUBSET Executions]
    BY DEF TypeOK
  <2> QED
    BY <2>1 DEF TypeOK
<1>2. MessagesNameRows'
  BY DEF TypeOK, MessagesNameRows
<1>3. Delivered'
  BY DEF TypeOK, Delivered
<1>4. GoroutineProgress'
  BY DEF TypeOK, Delivered, GoroutineProgress, Exec, Final
<1>5. AckedIsFinal'
  BY DEF TypeOK, AckedIsFinal, GoroutineProgress, MessagesNameRows, Exec, Final
<1> QED
  BY <1>1, <1>2, <1>3, <1>4, <1>5

LEMMA PublishIInv ==
  ASSUME IInv, NEW c \in Consumers, NEW x \in Executions, Publish(c, x)
  PROVE  IInv'
<1> USE ConsumersAssumption, TimingAssumption, BoundsAssumption
<1> USE DEF IInv, Publish, Fault, NoFault, rows, redis, loops, pool, FinalStates, States, Entries
<1>0. /\ stream \in Seq(Executions) /\ read \in 0..Len(stream) /\ Len(stream) \in Nat
      /\ stream' \in Seq(Executions) /\ Len(stream') \in Nat
      /\ Len(stream') <= MaxEntries
      /\ Len(stream) <= Len(stream')
      /\ \A e \in 1..Len(stream) : stream'[e] = stream[e]
      /\ \A e \in 1..Len(stream') : e \in 1..Len(stream) \/ stream'[e] = x
  <2>1. TryXAdd(x) /\ TypeOK
    OBVIOUS
  <2>2. /\ stream' \in Seq(Executions)
        /\ Len(stream') <= MaxEntries
        /\ Len(stream) <= Len(stream')
        /\ \A e \in 1..Len(stream) : stream'[e] = stream[e]
        /\ \A e \in 1..Len(stream') : e \in 1..Len(stream) \/ stream'[e] = x
    BY ONLY <2>1, TryXAddKeeps, x \in Executions
  <2>3. stream \in Seq(Executions) /\ read \in 0..Len(stream)
    BY DEF TypeOK
  <2> QED
    BY ONLY <2>2, <2>3
<1>00. /\ \A d \in Consumers : outbox'[d] \subseteq outbox[d]
       /\ outbox' \in [Consumers -> SUBSET Executions]
       /\ faults' \in Nat
  BY DEF TypeOK, TryXAdd, Fault, NoFault
<1>1. TypeOK'
  <2>1. read \in 0..Len(stream')
    BY <1>0
  <2> QED
    BY <1>0, <1>00, <2>1 DEF TypeOK
<1>2. MessagesNameRows'
  <2>1. status[x] # "absent"
    BY DEF MessagesNameRows
  <2>2. \A e \in 1..Len(stream') : status[stream'[e]] # "absent"
    BY <1>0, <2>1 DEF MessagesNameRows
  <2> QED
    BY <1>0, <1>00, <2>2 DEF MessagesNameRows
<1>3. Delivered'
  <2>1. \A e \in 1..read : stream'[e] = stream[e]
    BY <1>0
  <2>2. \A y \in Executions : status[y] = "running" => \E e \in 1..read : stream'[e] = y
    BY <2>1 DEF Delivered
  <2> QED
    BY <2>2 DEF Delivered
<1>4. GoroutineProgress'
  <2>1. \A g \in Goroutines : pc[g] # "idle" => Exec(g)' = Exec(g)
    BY <1>0, ExecIsExecution DEF Exec
  <2> QED
    BY <2>1 DEF GoroutineProgress, Final
<1>5. AckedIsFinal'
  <2>1. \A e \in 1..read : stream'[e] = stream[e]
    BY <1>0
  <2> QED
    BY <2>1 DEF AckedIsFinal, Final
<1> QED
  BY <1>1, <1>2, <1>3, <1>4, <1>5

LEMMA RepublishIInv ==
  ASSUME IInv, NEW c \in Consumers, NEW x \in Executions, Republish(c, x)
  PROVE  IInv'
<1> USE ConsumersAssumption, TimingAssumption, BoundsAssumption
<1> USE DEF IInv, Republish, Fault, NoFault, rows, redis, loops, pool, FinalStates, States, Entries
<1>0. /\ stream \in Seq(Executions) /\ read \in 0..Len(stream) /\ Len(stream) \in Nat
      /\ stream' \in Seq(Executions) /\ Len(stream') \in Nat
      /\ Len(stream') <= MaxEntries
      /\ Len(stream) <= Len(stream')
      /\ \A e \in 1..Len(stream) : stream'[e] = stream[e]
      /\ \A e \in 1..Len(stream') : e \in 1..Len(stream) \/ stream'[e] = x
  <2>1. TryXAdd(x) /\ TypeOK
    OBVIOUS
  <2>2. /\ stream' \in Seq(Executions)
        /\ Len(stream') <= MaxEntries
        /\ Len(stream) <= Len(stream')
        /\ \A e \in 1..Len(stream) : stream'[e] = stream[e]
        /\ \A e \in 1..Len(stream') : e \in 1..Len(stream) \/ stream'[e] = x
    BY ONLY <2>1, TryXAddKeeps, x \in Executions
  <2>3. stream \in Seq(Executions) /\ read \in 0..Len(stream)
    BY DEF TypeOK
  <2> QED
    BY ONLY <2>2, <2>3
<1>00. /\ \A d \in Consumers : redo'[d] \subseteq redo[d]
       /\ redo' \in [Consumers -> SUBSET Executions]
       /\ faults' \in Nat
  BY DEF TypeOK, TryXAdd, Fault, NoFault
<1>1. TypeOK'
  <2>1. read \in 0..Len(stream')
    BY <1>0
  <2> QED
    BY <1>0, <1>00, <2>1 DEF TypeOK
<1>2. MessagesNameRows'
  <2>1. status[x] # "absent"
    BY DEF MessagesNameRows
  <2>2. \A e \in 1..Len(stream') : status[stream'[e]] # "absent"
    BY <1>0, <2>1 DEF MessagesNameRows
  <2> QED
    BY <1>0, <1>00, <2>2 DEF MessagesNameRows
<1>3. Delivered'
  <2>1. \A e \in 1..read : stream'[e] = stream[e]
    BY <1>0
  <2>2. \A y \in Executions : status[y] = "running" => \E e \in 1..read : stream'[e] = y
    BY <2>1 DEF Delivered
  <2> QED
    BY <2>2 DEF Delivered
<1>4. GoroutineProgress'
  <2>1. \A g \in Goroutines : pc[g] # "idle" => Exec(g)' = Exec(g)
    BY <1>0, ExecIsExecution DEF Exec
  <2> QED
    BY <2>1 DEF GoroutineProgress, Final
<1>5. AckedIsFinal'
  <2>1. \A e \in 1..read : stream'[e] = stream[e]
    BY <1>0
  <2> QED
    BY <2>1 DEF AckedIsFinal, Final
<1> QED
  BY <1>1, <1>2, <1>3, <1>4, <1>5

LEMMA ReadGroupIInv ==
  ASSUME IInv, NEW c \in Consumers, ReadGroup(c)
  PROVE  IInv'
<1> USE ConsumersAssumption, TimingAssumption, BoundsAssumption
<1> USE DEF IInv, ReadGroup, Enqueue, Fault, NoFault, rows, redis, loops, pool, FinalStates, States, Entries
<1>1. TypeOK'
  <2>1. /\ read \in Nat /\ Len(stream) \in Nat /\ read + 1 \in 1..Len(stream)
        /\ read + 1 \in Entries
    <3>1. stream \in Seq(Executions) /\ read \in 0..Len(stream) /\ Len(stream) <= MaxEntries
      BY DEF TypeOK
    <3>2. read < Len(stream) /\ MaxEntries \in Nat
      OBVIOUS
    <3>3. Len(stream) \in Nat
      BY ONLY <3>1
    <3> QED
      BY ONLY <3>1, <3>2, <3>3 DEF Entries
  <2>2. pel' \in SUBSET (1..read')
    <3>1. pel' = pel \cup {read + 1} /\ read' = read + 1 /\ pel \in SUBSET (1..read)
      BY DEF TypeOK
    <3> QED
      BY ONLY <2>1, <3>1
  <2>3. idle' \in [Entries -> Nat]
    <3>1. idle' = [idle EXCEPT ![read + 1] = 0] /\ idle \in [Entries -> Nat]
      BY DEF TypeOK
    <3> QED
      BY ONLY <3>1
  <2>4. jobs' \in [Consumers -> [Entries -> Nat]] /\ faults' \in Nat
    <3>1. Enqueue(c, read + 1) /\ TypeOK
      OBVIOUS
    <3> QED
      BY ONLY <2>1, <3>1, EnqueueType, c \in Consumers
  <2>5. job' \in [Goroutines -> 0..read']
    <3>1. 0..read \subseteq 0..read' /\ job' = job /\ job \in [Goroutines -> 0..read]
      <4>1. job' = job /\ job \in [Goroutines -> 0..read] /\ read' = read + 1
        BY DEF TypeOK
      <4> QED
        BY ONLY <2>1, <4>1
    <3> QED
      BY ONLY <3>1
  <2>6. read' \in 0..Len(stream')
    BY <2>1
  <2>7. UNCHANGED <<status, owner, age, late, stream, life, outbox, redo, pc, ran>>
    OBVIOUS
  <2> QED
    BY ONLY <2>2, <2>3, <2>4, <2>5, <2>6, <2>7, TypeOK DEF TypeOK, States, FinalStates
<1>2. MessagesNameRows'
  BY DEF MessagesNameRows
<1>3. Delivered'
  <2>1. read \in Nat /\ read' = read + 1 /\ read + 1 \in Entries
    BY DEF TypeOK
  <2>2. \A d \in Consumers, e \in Entries : jobs'[d][e] = jobs[d][e] \/ e = read + 1
    <3>1. Enqueue(c, read + 1) /\ TypeOK
      OBVIOUS
    <3> QED
      BY ONLY <2>1, <3>1, EnqueueType, c \in Consumers
  <2>3. \A d \in Consumers, e \in Entries : jobs'[d][e] > 0 => e <= read'
    <3>1. \A d \in Consumers, e \in Entries : jobs[d][e] > 0 => e <= read
      BY DEF Delivered
    <3> QED
      BY ONLY <2>1, <2>2, <3>1, BoundsAssumption DEF Entries
  <2> QED
    BY <2>1, <2>3 DEF Delivered
<1>4. GoroutineProgress'
  BY DEF TypeOK, Delivered, GoroutineProgress, Exec, Final
<1>5. AckedIsFinal'
  BY DEF TypeOK, AckedIsFinal, GoroutineProgress, MessagesNameRows, Exec, Final
<1> QED
  BY <1>1, <1>2, <1>3, <1>4, <1>5

LEMMA AutoClaimIInv ==
  ASSUME IInv, NEW c \in Consumers, NEW e \in Entries, AutoClaim(c, e)
  PROVE  IInv'
<1> USE ConsumersAssumption, TimingAssumption, BoundsAssumption
<1> USE DEF IInv, AutoClaim, Enqueue, Fault, NoFault, rows, redis, loops, pool, FinalStates, States, Entries
<1>1. TypeOK'
  <2>1. idle' \in [Entries -> Nat]
    BY DEF TypeOK
  <2>2. jobs' \in [Consumers -> [Entries -> Nat]] /\ faults' \in Nat
    BY EnqueueType DEF TypeOK
  <2> QED
    BY <2>1, <2>2 DEF TypeOK
<1>2. MessagesNameRows'
  BY DEF TypeOK, MessagesNameRows
<1>3. Delivered'
  <2>1. \A d \in Consumers, f \in Entries : jobs'[d][f] = jobs[d][f] \/ f = e
    BY EnqueueType
  <2>2. e <= read
    BY DEF TypeOK
  <2> QED
    BY <2>1, <2>2 DEF Delivered
<1>4. GoroutineProgress'
  BY DEF TypeOK, Delivered, GoroutineProgress, Exec, Final
<1>5. AckedIsFinal'
  BY DEF TypeOK, AckedIsFinal, GoroutineProgress, MessagesNameRows, Exec, Final
<1> QED
  BY <1>1, <1>2, <1>3, <1>4, <1>5

LEMMA ReceiveIInv ==
  ASSUME IInv, NEW g \in Goroutines, NEW e \in Entries, Receive(g, e)
  PROVE  IInv'
<1> USE ConsumersAssumption, TimingAssumption, BoundsAssumption
<1> USE DEF IInv, Receive, rows, redis, loops, pool, FinalStates, States, Entries
<1>1. TypeOK'
  <2> DEFINE c == Home[g]
  <2>0. c \in Consumers /\ jobs \in [Consumers -> [Entries -> Nat]]
    BY DEF TypeOK
  <2>1. /\ jobs[c] \in [Entries -> Nat] /\ jobs[c][e] - 1 \in Nat
        /\ e \in 1..read
    <3>1. jobs[c] \in [Entries -> Nat] /\ jobs[c][e] \in Nat /\ jobs[c][e] > 0
      BY <2>0
    <3>2. e <= read
      BY <2>0, <3>1 DEF Delivered
    <3>3. e \in Nat /\ 1 <= e /\ read \in Nat
      BY DEF TypeOK
    <3> HIDE DEF c
    <3> QED
      BY ONLY <3>1, <3>2, <3>3
  <2>2. jobs' \in [Consumers -> [Entries -> Nat]]
    <3>1. jobs' = [jobs EXCEPT ![c] = [jobs[c] EXCEPT ![e] = jobs[c][e] - 1]]
      OBVIOUS
    <3>2. [jobs[c] EXCEPT ![e] = jobs[c][e] - 1] \in [Entries -> Nat]
      BY <2>1
    <3> QED
      BY ONLY <2>0, <3>1, <3>2
  <2>3. job' \in [Goroutines -> 0..read]
    BY <2>1 DEF TypeOK
  <2>4. pc' \in [Goroutines -> {"idle", "got", "checked", "probing", "done"}]
    BY DEF TypeOK
  <2> QED
    BY <2>2, <2>3, <2>4 DEF TypeOK
<1>2. MessagesNameRows'
  BY DEF TypeOK, MessagesNameRows
<1>3. Delivered'
  <2>1. \A d \in Consumers, f \in Entries : jobs'[d][f] > 0 => jobs[d][f] > 0
    BY DEF TypeOK
  <2>2. \A h \in Goroutines : pc'[h] # "idle" => job'[h] # 0
    BY DEF TypeOK, Delivered
  <2> QED
    BY <2>1, <2>2 DEF Delivered
<1>4. GoroutineProgress'
  BY DEF TypeOK, Delivered, GoroutineProgress, Exec, Final
<1>5. AckedIsFinal'
  BY DEF TypeOK, AckedIsFinal, GoroutineProgress, MessagesNameRows, Exec, Final
<1> QED
  BY <1>1, <1>2, <1>3, <1>4, <1>5

LEMMA GetWorkIInv ==
  ASSUME IInv, NEW g \in Goroutines, GetWork(g)
  PROVE  IInv'
<1> USE ConsumersAssumption, TimingAssumption, BoundsAssumption
<1> USE DEF IInv, GetWork, GoTo, rows, redis, loops, pool, FinalStates, States, Entries
<1>1. TypeOK'
  BY DEF TypeOK
<1>2. MessagesNameRows'
  BY DEF TypeOK, MessagesNameRows
<1>3. Delivered'
  BY DEF TypeOK, Delivered
<1>4. GoroutineProgress'
  BY DEF TypeOK, Delivered, GoroutineProgress, Exec, Final
<1>5. AckedIsFinal'
  BY DEF TypeOK, AckedIsFinal, GoroutineProgress, MessagesNameRows, Exec, Final
<1> QED
  BY <1>1, <1>2, <1>3, <1>4, <1>5

LEMMA AcquireIInv ==
  ASSUME IInv, NEW g \in Goroutines, Acquire(g)
  PROVE  IInv'
<1> USE ConsumersAssumption, TimingAssumption, BoundsAssumption
<1> USE DEF IInv, FinalStates, States, Entries
<1> DEFINE x == Exec(g)
           c == Home[g]
<1>1. /\ x \in Executions /\ c \in Consumers /\ Skew[c] \in Nat
      /\ job[g] \in 1..read /\ stream[job[g]] = x
  BY ExecIsExecution DEF Acquire, TypeOK, Exec
<1>2. /\ UNCHANGED <<redis, life, loops, jobs>>
      /\ \A h \in Goroutines \ {g} :
           pc'[h] = pc[h] /\ job'[h] = job[h] /\ ran'[h] = ran[h]
      /\ \/ pc'[g] = "probing" /\ job'[g] = job[g] /\ status'[x] = "running"
         \/ pc'[g] = "idle" /\ ran'[g] = 0
      /\ \/ UNCHANGED rows
         \/ /\ status[x] \in {"queued", "running"}
            /\ status' = [status EXCEPT ![x] = "running"]
            /\ owner' = [owner EXCEPT ![x] = c]
            /\ age' = [age EXCEPT ![x] = 0 - Skew[c]]
            /\ late' = late \ {x}
  BY <1>1 DEF Acquire, MayAcquire, GoTo, Rest, TypeOK
<1>3. /\ pc' \in [Goroutines -> {"idle", "got", "checked", "probing", "done"}]
      /\ job' \in [Goroutines -> 0..read] /\ ran' \in [Goroutines -> Nat]
      /\ faults' \in Nat
  <2>1. Rest(g) \/ GoTo(g, "probing")
    BY DEF Acquire
  <2>2. faults' \in Nat
    BY DEF Acquire, Fault, NoFault, TypeOK
  <2> QED
    BY <2>1, <2>2, PoolType
<1>4. /\ status' \in [Executions -> States] /\ late' \in SUBSET Executions
      /\ owner' \in [Executions -> Consumers \cup {NoConsumer}]
      /\ age' \in [Executions -> Int]
      /\ \A y \in Executions : \/ status'[y] = status[y]
                               \/ /\ y = x /\ status'[y] = "running"
                                  /\ status[y] \in {"queued", "running"}
  <2>1. CASE UNCHANGED rows
    BY <2>1 DEF TypeOK, rows
  <2>2. CASE ~UNCHANGED rows
    <3>1. /\ status \in [Executions -> States] /\ age \in [Executions -> Int]
          /\ owner \in [Executions -> Consumers \cup {NoConsumer}]
          /\ late \in SUBSET Executions
      BY DEF TypeOK
    <3>2. /\ status[x] \in {"queued", "running"}
          /\ status' = [status EXCEPT ![x] = "running"]
          /\ owner' = [owner EXCEPT ![x] = c]
          /\ age' = [age EXCEPT ![x] = 0 - Skew[c]]
          /\ late' = late \ {x}
      BY <1>2, <2>2
    <3>3. \A y \in Executions : status'[y] = IF y = x THEN "running" ELSE status[y]
      BY <3>1, <3>2
    <3> HIDE DEF x, c
    <3>4. 0 - Skew[c] \in Int
      BY <1>1
    <3> QED
      BY <1>1, <3>1, <3>2, <3>3, <3>4
  <2> QED
    BY <2>1, <2>2
<1>5. TypeOK'
  BY <1>2, <1>3, <1>4 DEF TypeOK, redis, loops
<1>6. MessagesNameRows'
  <2>1. \A y \in late' : status'[y] = "queued"
    <3>1. late \in SUBSET Executions /\ \A y \in late : status[y] = "queued"
      BY DEF MessagesNameRows, TypeOK
    <3>2. CASE UNCHANGED rows
      BY ONLY <3>1, <3>2 DEF rows
    <3>3. CASE late' = late \ {x} /\ ~UNCHANGED rows
      BY ONLY <1>4, <3>1, <3>3
    <3> QED
      BY <1>2, <3>2, <3>3
  <2>2. \A y \in Executions : status[y] # "absent" => status'[y] # "absent"
    BY <1>4
  <2> QED
    <3>1. /\ \A e \in 1..Len(stream) : stream[e] \in Executions
          /\ \A d \in Consumers : outbox[d] \cup redo[d] \subseteq Executions
      BY DEF TypeOK
    <3>2. stream' = stream /\ outbox' = outbox /\ redo' = redo
      BY <1>2 DEF redis, loops
    <3>3. MessagesNameRows
      OBVIOUS
    <3> QED
      BY ONLY <2>1, <2>2, <3>1, <3>2, <3>3 DEF MessagesNameRows
<1>7. Delivered'
  BY <1>1, <1>2, <1>4 DEF Delivered, redis
<1>8. GoroutineProgress'
  BY <1>2, <1>4, ExecIsExecution DEF GoroutineProgress, Exec, Final, redis
<1>9. AckedIsFinal'
  <2>1. UNCHANGED <<stream, read, pel>>
    BY <1>2 DEF redis
  <2>2. \A e \in 1..read : stream[e] \in Executions
    BY DEF TypeOK
  <2> QED
    BY <1>4, <2>1, <2>2 DEF AckedIsFinal, Final
<1> QED
  BY <1>5, <1>6, <1>7, <1>8, <1>9

LEMMA MarkFinalIInv ==
  ASSUME IInv, NEW g \in Goroutines, MarkFinal(g)
  PROVE  IInv'
<1> USE ConsumersAssumption, TimingAssumption, BoundsAssumption
<1> USE DEF IInv, FinalStates, States, Entries
<1> DEFINE x == Exec(g)
           c == Home[g]
<1>1. /\ x \in Executions /\ c \in Consumers /\ Skew[c] \in Nat
      /\ job[g] \in 1..read /\ stream[job[g]] = x
  BY ExecIsExecution DEF MarkFinal, TypeOK, Exec
<1>2. /\ UNCHANGED <<owner, late, redis, life, loops, jobs>>
      /\ \A h \in Goroutines \ {g} :
           pc'[h] = pc[h] /\ job'[h] = job[h] /\ ran'[h] = ran[h]
      /\ ran'[g] = 0
      /\ \/ pc'[g] = "done" /\ job'[g] = job[g] /\ status'[x] \in FinalStates
         \/ pc'[g] = "idle"
      /\ \/ UNCHANGED <<status, age>>
         \/ /\ status[x] = "running"
            /\ \E s \in FinalStates : status' = [status EXCEPT ![x] = s]
            /\ age' = [age EXCEPT ![x] = 0 - Skew[c]]
  <2>1. CASE MayFinish(x, c) /\ ~Rest(g)
    <3>1. /\ UNCHANGED <<owner, late, redis, life, loops, jobs, job>>
          /\ pc' = [pc EXCEPT ![g] = "done"] /\ ran' = [ran EXCEPT ![g] = 0]
          /\ \E s \in FinalStates : status' = [status EXCEPT ![x] = s]
          /\ age' = [age EXCEPT ![x] = 0 - Skew[c]]
      BY <2>1 DEF MarkFinal
    <3> QED
      BY <1>1, <2>1, <3>1 DEF MayFinish, TypeOK
  <2>2. CASE MayFinish(x, c) /\ Rest(g)
    <3>1. /\ UNCHANGED <<owner, late, redis, life, loops, jobs>>
          /\ \E s \in FinalStates : status' = [status EXCEPT ![x] = s]
          /\ age' = [age EXCEPT ![x] = 0 - Skew[c]]
      BY <2>2 DEF MarkFinal
    <3> QED
      BY <1>1, <2>2, <3>1 DEF MayFinish, Rest, TypeOK
  <2>3. CASE ~MayFinish(x, c)
    <3>1. UNCHANGED <<owner, late, redis, life, loops, jobs, status, age>> /\ Rest(g)
      BY <2>3 DEF MarkFinal
    <3> QED
      BY <1>1, <3>1 DEF Rest, TypeOK
  <2> QED
    BY <2>1, <2>2, <2>3
<1>3. /\ pc' \in [Goroutines -> {"idle", "got", "checked", "probing", "done"}]
      /\ job' \in [Goroutines -> 0..read] /\ ran' \in [Goroutines -> Nat]
      /\ faults' \in Nat
  <2>1. \/ Rest(g)
        \/ /\ pc' = [pc EXCEPT ![g] = "done"]
           /\ ran' = [ran EXCEPT ![g] = 0]
           /\ job' = job
    BY DEF MarkFinal
  <2>2. faults' \in Nat
    BY DEF MarkFinal, Fault, NoFault, TypeOK
  <2>3. CASE Rest(g)
    BY <2>2, <2>3, PoolType
  <2>4. CASE ~Rest(g)
    <3>1. /\ pc' = [pc EXCEPT ![g] = "done"]
          /\ ran' = [ran EXCEPT ![g] = 0]
          /\ job' = job
      BY <2>1, <2>4
    <3> QED
      BY <2>2, <3>1 DEF TypeOK
  <2> QED
    BY <2>3, <2>4
<1>4. /\ status' \in [Executions -> States]
      /\ age' \in [Executions -> Int]
      /\ \A y \in Executions : \/ status'[y] = status[y]
                               \/ status[y] = "running" /\ status'[y] \in FinalStates
  <2>1. CASE UNCHANGED <<status, age>>
    BY <2>1 DEF TypeOK
  <2>2. CASE ~UNCHANGED <<status, age>>
    <3>1. status \in [Executions -> States] /\ age \in [Executions -> Int]
      BY DEF TypeOK
    <3>2. PICK s \in FinalStates : status' = [status EXCEPT ![x] = s]
      BY <1>2, <2>2
    <3>3. status[x] = "running" /\ age' = [age EXCEPT ![x] = 0 - Skew[c]]
      BY <1>2, <2>2
    <3>4. \A y \in Executions : status'[y] = IF y = x THEN s ELSE status[y]
      BY <3>1, <3>2
    <3> HIDE DEF x, c
    <3>5. 0 - Skew[c] \in Int
      BY <1>1
    <3> QED
      BY <1>1, <3>1, <3>2, <3>3, <3>4, <3>5
  <2> QED
    BY <2>1, <2>2
<1>5. TypeOK'
  BY <1>2, <1>3, <1>4 DEF TypeOK, redis, loops
<1>6. MessagesNameRows'
  <2>1. \A y \in late : status'[y] = "queued"
    BY <1>2, <1>4 DEF MessagesNameRows, TypeOK
  <2>2. \A y \in Executions : status[y] # "absent" => status'[y] # "absent"
    BY <1>4
  <2> QED
    <3>1. /\ \A e \in 1..Len(stream) : stream[e] \in Executions
          /\ \A d \in Consumers : outbox[d] \cup redo[d] \subseteq Executions
      BY DEF TypeOK
    <3>2. late' = late /\ stream' = stream /\ outbox' = outbox /\ redo' = redo
      BY <1>2 DEF redis, loops
    <3>3. MessagesNameRows
      OBVIOUS
    <3> QED
      BY ONLY <2>1, <2>2, <3>1, <3>2, <3>3 DEF MessagesNameRows
<1>7. Delivered'
  <2>1. UNCHANGED <<stream, read, jobs>>
    BY <1>2 DEF redis
  <2>2. \A h \in Goroutines : pc'[h] # "idle" => job'[h] # 0
    <3>1. \A h \in Goroutines : pc[h] # "idle" => job[h] # 0
      BY DEF Delivered
    <3>2. job[g] # 0
      BY <1>1 DEF TypeOK
    <3> QED
      BY ONLY <1>2, <3>1, <3>2
  <2>3. \A y \in Executions : status'[y] = "running" => status[y] = "running"
    BY <1>4
  <2> QED
    BY ONLY <2>1, <2>2, <2>3, Delivered DEF Delivered
<1>8. GoroutineProgress'
  BY <1>2, <1>4, ExecIsExecution DEF GoroutineProgress, Exec, Final, redis
<1>9. AckedIsFinal'
  <2>1. UNCHANGED <<stream, read, pel>>
    BY <1>2 DEF redis
  <2>2. \A e \in 1..read : stream[e] \in Executions
    BY DEF TypeOK
  <2> QED
    BY <1>4, <2>1, <2>2 DEF AckedIsFinal, Final
<1> QED
  BY <1>5, <1>6, <1>7, <1>8, <1>9

LEMMA AckIInv ==
  ASSUME IInv, NEW g \in Goroutines, Ack(g)
  PROVE  IInv'
<1> USE ConsumersAssumption, TimingAssumption, BoundsAssumption
<1> USE DEF IInv, Ack, Rest, rows, redis, loops, pool, FinalStates, States, Entries
<1>1. TypeOK'
  <2>1. /\ pc' \in [Goroutines -> {"idle", "got", "checked", "probing", "done"}]
        /\ job' \in [Goroutines -> 0..read] /\ ran' \in [Goroutines -> Nat]
    BY DEF TypeOK
  <2>2. idle' \in [Entries -> Nat]
    BY DEF TypeOK
  <2>3. pel' \in SUBSET (1..read)
    BY DEF TypeOK
  <2> QED
    BY <2>1, <2>2, <2>3 DEF TypeOK
<1>2. MessagesNameRows'
  BY DEF TypeOK, MessagesNameRows
<1>3. Delivered'
  BY DEF TypeOK, Delivered
<1>4. GoroutineProgress'
  BY DEF TypeOK, Delivered, GoroutineProgress, Exec, Final
<1>5. AckedIsFinal'
  BY DEF TypeOK, AckedIsFinal, GoroutineProgress, MessagesNameRows, Exec, Final
<1> QED
  BY <1>1, <1>2, <1>3, <1>4, <1>5

LEMMA GiveUpIInv ==
  ASSUME IInv, NEW g \in Goroutines, GiveUp(g)
  PROVE  IInv'
<1> USE ConsumersAssumption, TimingAssumption, BoundsAssumption
<1> USE DEF IInv, GiveUp, Rest, Fault, rows, redis, loops, pool, FinalStates, States, Entries
<1>1. TypeOK'
  <2>1. /\ pc' \in [Goroutines -> {"idle", "got", "checked", "probing", "done"}]
        /\ job' \in [Goroutines -> 0..read] /\ ran' \in [Goroutines -> Nat]
    BY DEF TypeOK
  <2>2. faults' \in Nat
    BY DEF TypeOK
  <2> QED
    BY <2>1, <2>2 DEF TypeOK
<1>2. MessagesNameRows'
  BY DEF TypeOK, MessagesNameRows
<1>3. Delivered'
  BY DEF TypeOK, Delivered
<1>4. GoroutineProgress'
  BY DEF TypeOK, Delivered, GoroutineProgress, Exec, Final
<1>5. AckedIsFinal'
  BY DEF TypeOK, AckedIsFinal, GoroutineProgress, MessagesNameRows, Exec, Final
<1> QED
  BY <1>1, <1>2, <1>3, <1>4, <1>5

----------------------------------------------------------------------------------
\* Every step preserves the inductive invariant.
LEMMA StepIInv == IInv /\ [Next]_vars => IInv'
<1> SUFFICES ASSUME IInv, [Next]_vars PROVE IInv'
  OBVIOUS
<1>1. CASE Tick
  BY <1>1, TickIInv
<1>2. CASE \E c \in Consumers : Process(c)
  <2> PICK c \in Consumers : Process(c)
    BY <1>2
  <2> QED
    BY StartIInv, CrashIInv, ScheduleDueIInv, QueuedBeforeIInv, PublishIInv,
       RepublishIInv, ReadGroupIInv, AutoClaimIInv DEF Process
<1>3. CASE \E g \in Goroutines : Worker(g)
  <2> PICK g \in Goroutines : Worker(g)
    BY <1>3
  <2> QED
    BY ReceiveIInv, GetWorkIInv, AcquireIInv, MarkFinalIInv, AckIInv, GiveUpIInv
       DEF Worker
<1>4. CASE UNCHANGED vars
  BY <1>4 DEF vars, rows, redis, loops, pool, IInv, TypeOK, MessagesNameRows,
     Delivered, GoroutineProgress, AckedIsFinal, Exec, Final
<1> QED
  BY <1>1, <1>2, <1>3, <1>4 DEF Next

LEMMA InvariantIInv == Spec => []IInv
BY InitIInv, StepIInv, PTL DEF Spec

\* Every variable keeps to its domain: ids and counts stay in range, and only
\* messages that were delivered are pending, waiting or worked on.
THEOREM TypeCorrect == Spec => []TypeOK
<1>1. IInv => TypeOK
  BY DEF IInv
<1> QED
  BY <1>1, InvariantIInv, PTL

\* A message is acknowledged only when the result of its execution is recorded,
\* whatever crashes, fails or is delivered twice (docs/architecture.md:18).
THEOREM AckAfterResult == Spec => []AckedIsFinal
<1>1. IInv => AckedIsFinal
  BY DEF IInv
<1> QED
  BY <1>1, InvariantIInv, PTL

\* A running execution keeps a pending message, so its takeover is always possible.
THEOREM RunningRecoverable == Spec => []RunningIsPending
<1>1. IInv => RunningIsPending
  <2> SUFFICES ASSUME IInv, NEW x \in Executions, status[x] = "running"
               PROVE  \E e \in pel : stream[e] = x
    BY DEF RunningIsPending
  <2>1. PICK e \in 1..read : stream[e] = x
    BY DEF IInv, Delivered
  <2>2. e \in pel
    BY <2>1 DEF IInv, AckedIsFinal, Final, FinalStates
  <2> QED
    BY <2>1, <2>2
<1> QED
  BY <1>1, InvariantIInv, PTL

----------------------------------------------------------------------------------
(* ProbePipeline implements ExecutionLifecycle                                  *)

LEMMA InitImplements == Init => Lifecycle!Init
BY DEF Init, Lifecycle!Init, settled

\* What has been acknowledged stays the same when the stream only grows.
LEMMA SettledKept ==
  ASSUME TypeOK, read' = read, pel' = pel,
         \A e \in 1..read : stream'[e] = stream[e]
  PROVE  settled' = settled
BY DEF settled

LEMMA StepImplements ==
  ASSUME IInv, [Next]_vars
  PROVE  [Lifecycle!Next]_(Lifecycle!vars)
<1> USE DEF IInv
<1>1. CASE UNCHANGED <<status, owner>> /\ settled' = settled
  BY <1>1 DEF Lifecycle!vars
<1>2. ASSUME UNCHANGED redis PROVE settled' = settled
  BY <1>2 DEF redis, settled
<1>3. CASE Tick
  <2>1. UNCHANGED <<stream, read, pel>>
    BY <1>3 DEF Tick
  <2> QED
    BY <1>1, <1>3, <2>1 DEF Tick, settled
<1>4. CASE \E c \in Consumers : Process(c)
  <2> PICK c \in Consumers : Process(c)
    BY <1>4
  <2>1. CASE Start(c) \/ Crash(c) \/ QueuedBefore(c)
    BY <1>1, <1>2, <2>1 DEF Start, Crash, QueuedBefore, rows
  <2>2. CASE ScheduleDue(c)
    <3>1. PICK S \in SUBSET {x \in Executions : status[x] = "absent"} :
            /\ S # {}
            /\ status' = [x \in Executions |-> IF x \in S THEN "queued" ELSE status[x]]
      BY <2>2 DEF ScheduleDue
    <3>2. Lifecycle!Create(S)
      BY <1>2, <2>2, <3>1 DEF Lifecycle!Create, ScheduleDue
    <3> QED
      BY <3>1, <3>2 DEF Lifecycle!Next
  <2>3. CASE \E x \in Executions : Publish(c, x) \/ Republish(c, x)
    <3> PICK x \in Executions : Publish(c, x) \/ Republish(c, x)
      BY <2>3
    <3>1. TryXAdd(x) /\ UNCHANGED <<status, owner, read, pel>>
      BY DEF Publish, Republish, rows
    <3>2. /\ read \in 0..Len(stream) /\ Len(stream) \in Nat
          /\ \A e \in 1..Len(stream) : stream'[e] = stream[e]
      BY <3>1, TryXAddKeeps DEF TypeOK
    <3> QED
      BY <1>1, <3>1, <3>2, SettledKept
  <2>4. CASE ReadGroup(c)
    <3>1. (1..read') \ pel' = (1..read) \ pel
      BY <2>4 DEF ReadGroup, TypeOK
    <3> QED
      BY <1>1, <2>4, <3>1 DEF ReadGroup, rows, settled
  <2>5. CASE \E e \in Entries : AutoClaim(c, e)
    BY <1>1, <2>5 DEF AutoClaim, rows, settled
  <2> QED
    BY <2>1, <2>2, <2>3, <2>4, <2>5 DEF Process
<1>5. CASE \E g \in Goroutines : Worker(g)
  <2> PICK g \in Goroutines : Worker(g)
    BY <1>5
  <2>1. CASE (\E e \in Entries : Receive(g, e)) \/ GetWork(g) \/ GiveUp(g)
    BY <1>1, <1>2, <2>1 DEF Receive, GetWork, GiveUp, rows
  <2>2. CASE Acquire(g)
    <3>1. Exec(g) \in Executions /\ Home[g] \in Consumers /\ settled' = settled
      BY <1>2, <2>2, ExecIsExecution, ConsumersAssumption DEF Acquire
    <3>2. UNCHANGED <<status, owner>> \/ Lifecycle!Take(Exec(g), Home[g])
      BY <2>2, <3>1 DEF Acquire, MayAcquire, rows, Lifecycle!Take
    <3> QED
      BY <1>1, <3>1, <3>2 DEF Lifecycle!Next
  <2>3. CASE MarkFinal(g)
    <3>1. Exec(g) \in Executions /\ settled' = settled /\ owner' = owner
      BY <1>2, <2>3, ExecIsExecution DEF MarkFinal
    <3>2. status' = status \/ \E s \in FinalStates : Lifecycle!Finish(Exec(g), s)
      BY <2>3, <3>1 DEF MarkFinal, MayFinish, Lifecycle!Finish
    <3> QED
      BY <1>1, <3>1, <3>2 DEF Lifecycle!Next, FinalStates, Lifecycle!FinalStates
  <2>4. CASE Ack(g)
    <3>1. /\ job[g] \in 1..read /\ Exec(g) \in Executions
          /\ status[Exec(g)] \in FinalStates
      BY <2>4, ExecIsExecution DEF Ack, GoroutineProgress, Final
    <3>2. (1..read') \ pel' = ((1..read) \ pel) \cup {job[g]} /\ stream' = stream
      BY <2>4, <3>1 DEF Ack
    <3>3. settled' = settled \cup {Exec(g)}
      BY <3>2 DEF settled, Exec
    <3>4. Lifecycle!Settle(Exec(g))
      BY <2>4, <3>1, <3>3 DEF Ack, rows, Lifecycle!Settle, FinalStates, Lifecycle!FinalStates
    <3> QED
      BY <3>1, <3>4 DEF Lifecycle!Next
  <2> QED
    BY <2>1, <2>2, <2>3, <2>4 DEF Worker
<1>6. CASE UNCHANGED vars
  BY <1>1, <1>2, <1>6 DEF vars, rows
<1> QED
  BY <1>3, <1>4, <1>5, <1>6 DEF Next

\* The pipeline implements the life of an execution: created once, run by its
\* owner, possibly taken over, finished once, acknowledged only then.
THEOREM PipelineImplements == Spec => ImplementsLifecycle
BY InitImplements, StepImplements, InvariantIInv, PTL
   DEF Spec, ImplementsLifecycle, Lifecycle!Spec

----------------------------------------------------------------------------------
(* ProbePipeline implements MessageDelivery                                     *)

LEMMA DeliveryInit == Init => Delivery!Init
<1> SUFFICES ASSUME Init PROVE Delivery!Init
  OBVIOUS
<1>1. (read + 1)..Len(stream) = {} /\ (1..read) \ pel = {} /\ pel = {}
  BY DEF Init
<1>2. {e \in 1..Len(stream) : Final(stream[e])} = {}
  BY DEF Init
<1> QED
  BY <1>1, <1>2 DEF Delivery!Init

\* The messages whose execution is final.
Done == {e \in 1..Len(stream) : Final(stream[e])}

\* A step that neither writes to the stream nor reads from it, nor makes an
\* execution final.
LEMMA DeliveryStutters ==
  ASSUME UNCHANGED <<stream, read, pel>>, Done' = Done
  PROVE  [Delivery!Next]_(Delivery!vars)
<1>1. stream' = stream /\ read' = read /\ pel' = pel
  OBVIOUS
<1>2. (read' + 1)..Len(stream') = (read + 1)..Len(stream) /\ (1..read') \ pel' = (1..read) \ pel
  BY <1>1
<1> QED
  BY <1>1, <1>2 DEF Delivery!vars, Done

\* XADD appends a message that nobody has seen.
LEMMA DeliveryPublishes ==
  ASSUME IInv, NEW x \in Executions, TryXAdd(x), UNCHANGED <<status, read, pel>>
  PROVE  [Delivery!Next]_(Delivery!vars)
<1> DEFINE n == Len(stream) + 1
<1>1. /\ stream \in Seq(Executions) /\ Len(stream) \in Nat /\ read \in 0..Len(stream)
      /\ pel \subseteq 1..read
  BY DEF IInv, TypeOK
<1>2. CASE stream' = stream
  BY <1>2, DeliveryStutters DEF Done, Final
<1>3. CASE stream' = Append(stream, x) /\ Len(stream) < MaxEntries
  <2>1. Len(stream') = n /\ stream'[n] = x /\ \A e \in 1..Len(stream) : stream'[e] = stream[e]
    BY <1>1, <1>3
  <2>2. n \in Entries /\ n \notin (read + 1)..Len(stream) /\ n \notin 1..read
    BY <1>1, <1>3, BoundsAssumption DEF Entries
  <2>3. (read' + 1)..Len(stream') = ((read + 1)..Len(stream)) \cup {n}
    BY <1>1, <2>1
  <2>4. Done' = Done \/ Done' = Done \cup {n}
    <3>1. 1..Len(stream') = (1..Len(stream)) \cup {n}
      BY <1>1, <2>1
    <3>2. \A e \in 1..Len(stream) : Final(stream[e])' <=> Final(stream[e])
      BY <2>1 DEF Final
    <3> QED
      BY <3>1, <3>2 DEF Done
  <2>5. (1..read') \ pel' = (1..read) \ pel
    OBVIOUS
  <2>6. Delivery!Publish(n)
    BY <1>1, <2>2, <2>3, <2>4, <2>5 DEF Delivery!Publish, Done
  <2> QED
    BY <2>2, <2>6 DEF Delivery!Next, Delivery!Publish
<1> QED
  BY <1>2, <1>3 DEF TryXAdd, XAdd

LEMMA DeliveryStep ==
  ASSUME IInv, [Next]_vars
  PROVE  [Delivery!Next]_(Delivery!vars)
<1>1. /\ stream \in Seq(Executions) /\ Len(stream) \in Nat /\ read \in 0..Len(stream)
      /\ Len(stream) <= MaxEntries /\ MaxEntries \in Nat /\ pel \subseteq 1..read
      /\ status \in [Executions -> States]
  BY BoundsAssumption DEF IInv, TypeOK
<1>2. ASSUME UNCHANGED <<stream, status>> PROVE Done' = Done
  BY <1>2 DEF Done, Final
<1>3. CASE \/ Tick \/ UNCHANGED vars
           \/ \E c \in Consumers : \/ Start(c) \/ Crash(c) \/ QueuedBefore(c)
                                  \/ \E e \in Entries : AutoClaim(c, e)
           \/ \E g \in Goroutines : \/ \E e \in Entries : Receive(g, e)
                                   \/ GetWork(g) \/ GiveUp(g)
  <2>1. UNCHANGED <<stream, read, pel, status>>
    BY <1>3 DEF Tick, vars, Start, Crash, QueuedBefore, AutoClaim, Receive, GetWork, GiveUp, rows,
       redis
  <2> QED
    BY <1>2, <2>1, DeliveryStutters
<1>4. CASE \E c \in Consumers : ScheduleDue(c)
  <2>1. PICK c \in Consumers : ScheduleDue(c)
    BY <1>4
  <2>2. PICK S \in SUBSET {x \in Executions : status[x] = "absent"} :
          status' = [x \in Executions |-> IF x \in S THEN "queued" ELSE status[x]]
    BY <2>1 DEF ScheduleDue
  <2>3. UNCHANGED <<stream, read, pel>>
    BY <2>1 DEF ScheduleDue, redis
  <2>4. \A x \in Executions : Final(x)' <=> Final(x)
    BY <2>2 DEF Final, FinalStates
  <2>5. \A e \in 1..Len(stream) : stream[e] \in Executions
    BY <1>1
  <2>6. Done' = Done
    BY <2>3, <2>4, <2>5 DEF Done, Final
  <2> QED
    BY <2>3, <2>6, DeliveryStutters
<1>5. CASE \E c \in Consumers, x \in Executions : Publish(c, x) \/ Republish(c, x)
  <2> PICK c \in Consumers, x \in Executions : Publish(c, x) \/ Republish(c, x)
    BY <1>5
  <2>1. TryXAdd(x) /\ UNCHANGED <<status, read, pel>>
    BY DEF Publish, Republish, rows
  <2> QED
    BY <2>1, DeliveryPublishes
<1>6. CASE \E c \in Consumers : ReadGroup(c)
  <2> DEFINE S == {read + 1}
  <2>1. /\ read < Len(stream) /\ read' = read + 1 /\ pel' = pel \cup S
        /\ UNCHANGED <<stream, status>>
    BY <1>6 DEF ReadGroup, rows
  <2>2. S \in SUBSET Entries /\ S \subseteq (read + 1)..Len(stream)
    BY <1>1, <2>1 DEF Entries
  <2>3. \A e \in S : \A d \in (read + 1)..Len(stream) : d < e => d \in S
    BY <1>1
  <2>4. (read' + 1)..Len(stream') = ((read + 1)..Len(stream)) \ S
    BY <1>1, <2>1
  <2>5. (1..read') \ pel' = (1..read) \ pel
    BY <1>1, <2>1
  <2>6. Delivery!Deliver(S)
    BY <1>2, <2>1, <2>2, <2>3, <2>4, <2>5 DEF Delivery!Deliver, Done
  <2> QED
    BY <2>2, <2>6 DEF Delivery!Next, Delivery!Deliver
<1>7. CASE \E g \in Goroutines : Acquire(g)
  <2> PICK g \in Goroutines : Acquire(g)
    BY <1>7
  <2>1. UNCHANGED <<stream, read, pel>>
    BY DEF Acquire, redis
  <2>2. status' = status \/ (~Final(Exec(g)) /\ status' = [status EXCEPT ![Exec(g)] = "running"])
    BY DEF Acquire, MayAcquire, rows, Final, FinalStates
  <2>3. \A x \in Executions : Final(x)' <=> Final(x)
    BY <1>1, <2>2 DEF Final, FinalStates
  <2>4. \A e \in 1..Len(stream) : stream[e] \in Executions
    BY <1>1
  <2>5. Done' = Done
    BY <2>1, <2>3, <2>4 DEF Done, Final
  <2> QED
    BY <2>1, <2>5, DeliveryStutters
<1>8. CASE \E g \in Goroutines : MarkFinal(g)
  <2> PICK g \in Goroutines : MarkFinal(g)
    BY <1>8
  <2> DEFINE S == {e \in 1..Len(stream) : stream[e] = Exec(g)}
  <2>1. UNCHANGED <<stream, read, pel>>
    BY DEF MarkFinal, redis
  <2>2. CASE status' = status
    BY <1>2, <2>1, <2>2, DeliveryStutters
  <2>3. CASE \E s \in FinalStates : status' = [status EXCEPT ![Exec(g)] = s]
    <3>1. \A e \in 1..Len(stream) : stream[e] \in Executions
      BY <1>1
    <3>2. \A x \in Executions : Final(x)' <=> (Final(x) \/ x = Exec(g))
      BY <1>1, <2>3 DEF Final
    <3>3. Done' = Done \cup S
      BY <2>1, <3>1, <3>2 DEF Done, Final
    <3>4. S \in SUBSET Entries
      BY <1>1 DEF Entries
    <3>5. /\ (read' + 1)..Len(stream') = (read + 1)..Len(stream)
          /\ (1..read') \ pel' = (1..read) \ pel
      BY <2>1
    <3> HIDE DEF S
    <3>6. Delivery!Finish(S)
      BY <2>1, <3>3, <3>5 DEF Delivery!Finish, Done
    <3> QED
      BY <3>4, <3>6 DEF Delivery!Next, Delivery!Finish
  <2> QED
    BY <2>2, <2>3 DEF MarkFinal
<1>9. CASE \E g \in Goroutines : Ack(g)
  <2> PICK g \in Goroutines : Ack(g)
    BY <1>9
  <2>1. /\ pel' = pel \ {job[g]} /\ UNCHANGED <<stream, read, status>>
        /\ job[g] \in 1..read /\ Final(stream[job[g]])
    BY ExecIsExecution DEF Ack, rows, IInv, GoroutineProgress, Exec
  <2>2. CASE job[g] \notin pel
    BY <1>2, <2>1, <2>2, DeliveryStutters
  <2>3. CASE job[g] \in pel
    <3>1. job[g] \in Done /\ job[g] \in Entries
      BY <1>1, <2>1 DEF Done, Entries
    <3>2. /\ (read' + 1)..Len(stream') = (read + 1)..Len(stream)
          /\ (1..read') \ pel' = ((1..read) \ pel) \cup {job[g]}
      BY <2>1
    <3>3. Delivery!Settle(job[g])
      BY <1>2, <2>1, <2>3, <3>1, <3>2 DEF Delivery!Settle, Done
    <3> QED
      BY <3>1, <3>3 DEF Delivery!Next, Delivery!Settle
  <2> QED
    BY <2>2, <2>3
<1> QED
  BY <1>3, <1>4, <1>5, <1>6, <1>7, <1>8, <1>9 DEF Next, Process, Worker

\* Many processes, their crashes, duplicates and claims included, keep the promise
\* of the consumer group: delivered in turn, settled only when final.
THEOREM PipelineDelivers == Spec => ImplementsDelivery
BY DeliveryInit, DeliveryStep, InvariantIInv, PTL DEF Spec, ImplementsDelivery, Delivery!Spec

\* Duplicate deliveries, late goroutines and takeovers never change a recorded
\* result or its worker_consumer (docs/database.md:23).
THEOREM ResultStands == Spec => FinalOnce
<1>1. ASSUME IInv, [Next]_vars
      PROVE  [\A x \in Executions :
                Final(x) => status'[x] = status[x] /\ owner'[x] = owner[x]]_vars
  <2>1. [Lifecycle!Next]_(Lifecycle!vars)
    BY <1>1, StepImplements
  <2>2. status \in [Executions -> States] /\ owner \in [Executions -> Consumers \cup {NoConsumer}]
    BY <1>1 DEF IInv, TypeOK
  <2> SUFFICES ASSUME NEW x \in Executions, Final(x)
               PROVE  status'[x] = status[x] /\ owner'[x] = owner[x]
    OBVIOUS
  <2>3. CASE UNCHANGED <<status, owner>>
    BY <2>3
  <2>4. CASE \E S \in SUBSET Executions : Lifecycle!Create(S)
    BY <2>4 DEF Lifecycle!Create, Final, FinalStates
  <2>5. CASE \E y \in Executions, c \in Consumers : Lifecycle!Take(y, c)
    BY <2>2, <2>5 DEF Lifecycle!Take, Final, FinalStates
  <2>6. CASE \E y \in Executions, s \in FinalStates : Lifecycle!Finish(y, s)
    BY <2>2, <2>6 DEF Lifecycle!Finish, Final, FinalStates
  <2> QED
    BY <2>1, <2>3, <2>4, <2>5, <2>6
       DEF Lifecycle!Next, Lifecycle!vars, Lifecycle!Settle, FinalStates, Lifecycle!FinalStates
<1> QED
  BY <1>1, InvariantIInv, PTL DEF Spec, FinalOnce

----------------------------------------------------------------------------------
(* Under TimelyProbes a probing goroutine is alone with its execution           *)

\* A step that starts no probe, moves no message and leaves running rows alone
\* keeps every lease.
LEMMA LeaseKept ==
  ASSUME TimelyInv,
         \A g \in Goroutines : pc'[g] = "probing" =>
           pc[g] = "probing" /\ job'[g] = job[g] /\ ran'[g] = ran[g],
         \A e \in 1..read : stream'[e] = stream[e],
         \A x \in Executions : status[x] = "running" =>
           status'[x] = "running" /\ owner'[x] = owner[x] /\ age'[x] = age[x]
  PROVE  SoleOwner' /\ LeaseHeld'
<1>1. \A g \in Goroutines : pc'[g] = "probing" =>
        pc[g] = "probing" /\ Exec(g) \in Executions /\ Exec(g)' = Exec(g)
  BY ExecIsExecution DEF TimelyInv, IInv, Exec
<1>2. SoleOwner'
  BY <1>1 DEF TimelyInv, SoleOwner
<1>3. LeaseHeld'
  BY <1>1 DEF TimelyInv, SoleOwner, LeaseHeld
<1> QED
  BY <1>2, <1>3

LEMMA TickLease ==
  ASSUME TimelyInv, Tick
  PROVE  SoleOwner' /\ LeaseHeld'
<1> USE DEF TimelyInv, Tick
<1>1. \A g \in Goroutines : Exec(g)' = Exec(g)
  BY DEF Exec
<1>2. SoleOwner'
  BY <1>1 DEF SoleOwner
<1>3. ASSUME NEW g \in Goroutines, pc'[g] = "probing"
      PROVE  ran'[g] <= MaxRun /\ age'[Exec(g)] <= ran'[g] - Skew[Home[g]]
  <2>1. Exec(g) \in Executions
    BY <1>3, ExecIsExecution DEF IInv
  <2>2. ran[g] \in Nat /\ age[Exec(g)] \in Int /\ Skew[Home[g]] \in Nat /\ MaxRun \in Nat
    BY <2>1, ConsumersAssumption, TimingAssumption DEF IInv, TypeOK
  <2>3. ran[g] < MaxRun /\ age[Exec(g)] <= ran[g] - Skew[Home[g]]
    BY <1>3 DEF LeaseHeld
  <2>4. ran'[g] = ran[g] + 1
    BY <1>3 DEF IInv, TypeOK
  <2>5. age'[Exec(g)] = age[Exec(g)] + 1 \/ age'[Exec(g)] = age[Exec(g)]
    BY <2>1
  <2> HIDE DEF TimelyInv, Tick
  <2> QED
    BY <2>2, <2>3, <2>4, <2>5
<1>4. LeaseHeld'
  BY <1>1, <1>3 DEF LeaseHeld
<1> QED
  BY <1>2, <1>4

\* Nobody can acquire what a live goroutine probes: its row is not old enough for
\* any clock.
LEMMA ProbedNotAcquirable ==
  ASSUME TimelyProbes, TimelyInv, NEW g \in Goroutines, pc[g] = "probing",
         NEW c \in Consumers
  PROVE  ~MayAcquire(Exec(g), c)
<1>1. Exec(g) \in Executions /\ Home[g] \in Consumers
  BY ExecIsExecution, ConsumersAssumption DEF TimelyInv, IInv
<1>2. /\ ran[g] \in Nat /\ age[Exec(g)] \in Int
      /\ Skew[Home[g]] \in Nat /\ Skew[c] \in Nat /\ MaxRun \in Nat /\ Idle \in Nat
  BY <1>1, ConsumersAssumption, TimingAssumption DEF TimelyInv, IInv, TypeOK
<1>3. /\ status[Exec(g)] = "running"
      /\ ran[g] <= MaxRun
      /\ age[Exec(g)] <= ran[g] - Skew[Home[g]]
  BY DEF TimelyInv, SoleOwner, LeaseHeld
<1>4. MaxRun + Skew[c] <= Idle + Skew[Home[g]]
  BY <1>1 DEF TimelyProbes
<1>5. ~(age[Exec(g)] + Skew[c] > Idle)
  BY <1>2, <1>3, <1>4
<1> QED
  BY <1>3, <1>5 DEF MayAcquire

LEMMA AcquireLease ==
  ASSUME TimelyProbes, TimelyInv, NEW g \in Goroutines, Acquire(g)
  PROVE  SoleOwner' /\ LeaseHeld'
<1> DEFINE x == Exec(g)
           c == Home[g]
<1>1. /\ x \in Executions /\ c \in Consumers /\ Skew[c] \in Nat /\ TypeOK
      /\ UNCHANGED stream
  BY ExecIsExecution, ConsumersAssumption DEF Acquire, TimelyInv, IInv, redis
<1>2. CASE ~MayAcquire(x, c)
  <2>1. UNCHANGED rows /\ Rest(g)
    BY <1>2 DEF Acquire
  <2>2. \A h \in Goroutines : pc'[h] = "probing" =>
          pc[h] = "probing" /\ job'[h] = job[h] /\ ran'[h] = ran[h]
    BY <1>1, <2>1 DEF Rest, TypeOK
  <2> QED
    BY <1>1, <2>1, <2>2, LeaseKept DEF rows
<1>3. CASE MayAcquire(x, c)
  <2>1. /\ status' = [status EXCEPT ![x] = "running"]
        /\ owner' = [owner EXCEPT ![x] = c]
        /\ age' = [age EXCEPT ![x] = 0 - Skew[c]]
        /\ GoTo(g, "probing") \/ Rest(g)
    BY <1>3 DEF Acquire
  <2>2. \A h \in Goroutines \ {g} :
          /\ pc'[h] = pc[h] /\ ran'[h] = ran[h] /\ Exec(h)' = Exec(h)
          /\ pc[h] = "probing" => Exec(h) # x /\ Exec(h) \in Executions
    <3>1. \A h \in Goroutines \ {g} :
            pc'[h] = pc[h] /\ ran'[h] = ran[h] /\ job'[h] = job[h]
      BY <1>1, <2>1 DEF GoTo, Rest, TypeOK
    <3>2. \A h \in Goroutines \ {g} : pc[h] = "probing" => Exec(h) # x /\ Exec(h) \in Executions
      BY <1>1, <1>3, ProbedNotAcquirable, ExecIsExecution DEF TimelyInv, IInv
    <3> QED
      BY <1>1, <3>1, <3>2 DEF Exec
  <2>3. /\ status'[x] = "running" /\ owner'[x] = c /\ age'[x] = 0 - Skew[c]
        /\ \A y \in Executions \ {x} :
             status'[y] = status[y] /\ owner'[y] = owner[y] /\ age'[y] = age[y]
    BY <1>1, <2>1 DEF TypeOK
  <2>4. pc'[g] = "probing" => Exec(g)' = x /\ ran'[g] = ran[g] /\ ran[g] = 0
    <3>1. pc[g] = "checked"
      BY DEF Acquire
    <3> QED
      BY <1>1, <2>1, <3>1 DEF GoTo, Rest, Exec, TypeOK, TimelyInv, IInv, GoroutineProgress
  <2>5. SoleOwner'
    BY <2>2, <2>3, <2>4 DEF SoleOwner, TimelyInv
  <2>6. LeaseHeld'
    BY <1>1, <2>2, <2>3, <2>4, TimingAssumption DEF LeaseHeld, TimelyInv
  <2> QED
    BY <2>5, <2>6
<1> QED
  BY <1>2, <1>3

LEMMA MarkFinalLease ==
  ASSUME TimelyInv, NEW g \in Goroutines, MarkFinal(g)
  PROVE  SoleOwner' /\ LeaseHeld'
<1> DEFINE x == Exec(g)
<1>1. /\ x \in Executions /\ TypeOK /\ UNCHANGED <<stream, owner>>
      /\ pc[g] = "probing"
      /\ \A h \in Goroutines : pc[h] = "probing" => Exec(h) \in Executions
  BY ExecIsExecution DEF MarkFinal, TimelyInv, IInv, redis
<1>2. /\ pc'[g] # "probing"
      /\ \A h \in Goroutines \ {g} :
           pc'[h] = pc[h] /\ ran'[h] = ran[h] /\ job'[h] = job[h]
  BY <1>1 DEF MarkFinal, Rest, TypeOK
<1>3. \A y \in Executions \ {x} : status'[y] = status[y] /\ age'[y] = age[y]
  BY <1>1 DEF MarkFinal, TypeOK
<1>4. \A h \in Goroutines : pc'[h] = "probing" =>
        /\ pc[h] = "probing" /\ ran'[h] = ran[h] /\ Exec(h)' = Exec(h)
        /\ Exec(h) \in Executions \ {x}
  BY <1>1, <1>2 DEF Exec, TimelyInv, SoleOwner
<1>5. SoleOwner'
  BY <1>1, <1>3, <1>4 DEF SoleOwner, TimelyInv
<1>6. LeaseHeld'
  BY <1>3, <1>4 DEF LeaseHeld, TimelyInv
<1> QED
  BY <1>5, <1>6

LEMMA StepTimely ==
  ASSUME TimelyProbes, TimelyInv, [Next]_vars
  PROVE  TimelyInv'
<1> USE DEF TimelyInv
<1>1. IInv'
  BY StepIInv
<1>2. TypeOK
  BY DEF IInv
<1>3. ASSUME UNCHANGED <<status, owner, age, stream, pc, job, ran>>
      PROVE  SoleOwner' /\ LeaseHeld'
  BY <1>3, LeaseKept
<1>4. SoleOwner' /\ LeaseHeld'
  <2>1. CASE Tick
    BY <2>1, TickLease
  <2>2. CASE \E c \in Consumers : Process(c)
    <3> PICK c \in Consumers : Process(c)
      BY <2>2
    <3>1. CASE Start(c) \/ QueuedBefore(c) \/ ReadGroup(c) \/ \E e \in Entries : AutoClaim(c, e)
      BY <1>3, <3>1 DEF Start, QueuedBefore, ReadGroup, AutoClaim, rows, redis, pool
    <3>2. CASE Crash(c)
      <4>1. \A g \in Goroutines : pc'[g] = "probing" =>
              pc[g] = "probing" /\ job'[g] = job[g] /\ ran'[g] = ran[g]
        BY <3>2 DEF Crash
      <4> QED
        BY <3>2, <4>1, LeaseKept DEF Crash, rows, redis
    <3>3. CASE ScheduleDue(c)
      <4>1. \A x \in Executions : status[x] = "running" => status'[x] = "running"
        BY <1>2, <3>3 DEF ScheduleDue
      <4> QED
        BY <3>3, <4>1, LeaseKept DEF ScheduleDue, redis, pool
    <3>4. CASE \E x \in Executions : Publish(c, x) \/ Republish(c, x)
      <4> PICK x \in Executions : Publish(c, x) \/ Republish(c, x)
        BY <3>4
      <4>1. TryXAdd(x) /\ UNCHANGED <<status, owner, age, pc, job, ran>>
        BY DEF Publish, Republish, rows, pool
      <4>2. \A e \in 1..read : stream'[e] = stream[e]
        <5>1. \A e \in 1..Len(stream) : stream'[e] = stream[e]
          BY <1>2, <4>1, TryXAddKeeps
        <5>2. read \in 0..Len(stream) /\ Len(stream) \in Nat
          BY <1>2 DEF TypeOK
        <5> QED
          BY <5>1, <5>2
      <4> QED
        BY <4>1, <4>2, LeaseKept
    <3> QED
      BY <3>1, <3>2, <3>3, <3>4 DEF Process
  <2>3. CASE \E g \in Goroutines : Worker(g)
    <3> PICK g \in Goroutines : Worker(g)
      BY <2>3
    <3>1. CASE (\E e \in Entries : Receive(g, e)) \/ GetWork(g) \/ Ack(g) \/ GiveUp(g)
      <4>1. UNCHANGED <<status, owner, age, stream>>
        BY <3>1 DEF Receive, GetWork, Ack, GiveUp, rows, redis
      <4>2. \A h \in Goroutines : pc'[h] = "probing" =>
              pc[h] = "probing" /\ job'[h] = job[h] /\ ran'[h] = ran[h]
        BY <1>2, <3>1 DEF Receive, GetWork, Ack, GiveUp, GoTo, Rest, TypeOK
      <4> QED
        BY <4>1, <4>2, LeaseKept
    <3>2. CASE Acquire(g)
      BY <3>2, AcquireLease
    <3>3. CASE MarkFinal(g)
      BY <3>3, MarkFinalLease
    <3> QED
      BY <3>1, <3>2, <3>3 DEF Worker
  <2>4. CASE UNCHANGED vars
    BY <1>3, <2>4 DEF vars, rows, redis, pool
  <2> QED
    BY <2>1, <2>2, <2>3, <2>4 DEF Next
<1> QED
  BY <1>1, <1>4

\* If probes keep to their time limit and clocks are close enough, no two
\* goroutines of any processes probe the same execution at the same time, and the
\* process of a probing goroutine owns the row it will write.
THEOREM SoleProber ==
  ASSUME TimelyProbes
  PROVE  Spec => []SoleOwner
<1>1. Init => TimelyInv
  BY InitIInv DEF Init, TimelyInv, SoleOwner, LeaseHeld
<1>2. TimelyInv /\ [Next]_vars => TimelyInv'
  BY StepTimely
<1>3. TimelyInv => SoleOwner
  BY DEF TimelyInv
<1> QED
  BY <1>1, <1>2, <1>3, PTL DEF Spec
===================================================================================
