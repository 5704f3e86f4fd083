---------------------------- MODULE WorkerProcessProofs ---------------------------
(* Machine-checked proofs about WorkerProcess, for any number of goroutines and *)
(* messages, any capacity of the channel and any counts of reads and claims.    *)
EXTENDS WorkerProcess, FiniteSetTheorems, WellFoundedInduction, TLAPS

----------------------------------------------------------------------------------
(* Sets of messages                                                             *)

\* A set of natural numbers has a smallest one.
LEMMA MinFacts ==
  ASSUME NEW S \in SUBSET Nat, S # {}
  PROVE  Min(S) \in S /\ \A y \in S : Min(S) <= y
<1> DEFINE Less == {p \in Nat \X Nat : p[1] < p[2]}
<1>1. IsWellFoundedOn(Less, Nat)
  BY NatLessThanWellFounded DEF OpToRel
<1>2. PICK x \in S : \A y \in S : <<y, x>> \notin Less
  BY <1>1, WFMin
<1>3. \A y \in S : x <= y
  <2> SUFFICES ASSUME NEW y \in S, y < x PROVE FALSE
    OBVIOUS
  <2>1. <<y, x>> \in Nat \X Nat /\ <<y, x>>[1] < <<y, x>>[2]
    OBVIOUS
  <2> QED
    BY <1>2, <2>1
<1> QED
  BY <1>3 DEF Min

\* The first n of a set have everything smaller than one of them among them.
LEMMA FirstOfFacts ==
  ASSUME NEW n \in Nat, NEW S, S \subseteq Nat, IsFiniteSet(S),
         NEW e \in FirstOf(n, S), NEW d \in S, d <= e
  PROVE  d \in FirstOf(n, S)
<1> DEFINE Below(x) == {y \in S : y < x}
<1>1. e \in S /\ e \in Nat /\ d \in Nat /\ d <= e
  BY DEF FirstOf
<1>2. \A y \in S : y < d => y < e
  BY <1>1
<1>3. Below(e) \subseteq S /\ Below(d) \subseteq Below(e)
  BY <1>2
<1>4. IsFiniteSet(Below(e))
  BY <1>3, FS_Subset
<1>5. Cardinality(Below(d)) <= Cardinality(Below(e))
  BY <1>3, <1>4, FS_Subset
<1>6. Cardinality(Below(d)) \in Nat /\ Cardinality(Below(e)) \in Nat
  BY <1>3, <1>4, FS_Subset, FS_CardinalityType
<1>7. Cardinality(Below(e)) < n
  BY DEF FirstOf
<1>8. Cardinality(Below(d)) < n
  BY <1>5, <1>6, <1>7
<1> QED
  BY <1>8 DEF FirstOf

\* The first of them is the smallest.
LEMMA FirstOfHasMin ==
  ASSUME NEW n \in Nat \ {0}, NEW S \in SUBSET Nat, S # {}
  PROVE  Min(S) \in FirstOf(n, S)
<1>1. Min(S) \in S /\ {d \in S : d < Min(S)} = {}
  <2>1. Min(S) \in S /\ \A y \in S : Min(S) <= y
    BY MinFacts
  <2>2. Min(S) \in Nat /\ \A y \in S : y \in Nat
    BY <2>1
  <2>3. \A y \in S : ~(y < Min(S))
    BY <2>1, <2>2
  <2> QED
    BY <2>1, <2>3
<1>2. Cardinality({d \in S : d < Min(S)}) = 0
  BY <1>1, FS_EmptySet
<1> QED
  BY <1>1, <1>2 DEF FirstOf

\* One XAUTOCLAIM looks at everything from the cursor up to the cursor of its
\* answer, which is further on or the beginning.
LEMMA CursorFacts ==
  ASSUME pel \in SUBSET Entries, start \in Nat
  PROVE  /\ Visited \subseteq pel
         /\ Cursor \in 0..MaxEntries
         /\ Cursor = 0 \/ Cursor > start
         /\ \A e \in pel : e >= start /\ (Cursor = 0 \/ e < Cursor) => e \in Visited
<1> DEFINE from == {e \in pel : e >= start}
           rest == from \ Visited
           near == {e \in from : Cardinality({d \in from \cap old : d < e}) < ReadCount}
<1>1. from \in SUBSET Nat /\ from \subseteq Entries /\ rest \in SUBSET Nat /\ MaxEntries \in Nat
  <2>1. MaxEntries \in Nat /\ Entries \subseteq Nat
    BY WorkerAssumption DEF Entries
  <2>2. from \subseteq Entries /\ rest \subseteq from
    OBVIOUS
  <2> QED
    BY <2>1, <2>2
<1>2. Visited = FirstOf(Scan, from) \cap near
  BY DEF Visited
<1>3. Cursor = IF rest = {} THEN 0 ELSE Min(rest)
  BY DEF Cursor
<1>4. Visited \subseteq pel
  BY <1>2
<1>5. CASE rest = {}
  <2>1. \A e \in from : e \in Visited
    BY <1>5
  <2> QED
    BY <1>1, <1>3, <1>4, <1>5, <2>1
<1>6. CASE rest # {}
  <2>1. Min(rest) \in rest /\ \A e \in rest : Min(rest) <= e
    BY <1>1, <1>6, MinFacts
  <2>2. Min(from) \in Visited
    <3>1. Scan \in Nat \ {0} /\ ReadCount \in Nat \ {0} /\ from # {}
      BY <1>6, WorkerAssumption
    <3>2. Min(from) \in FirstOf(Scan, from)
      BY <1>1, <3>1, FirstOfHasMin
    <3>3. Min(from) \in from /\ {d \in from \cap old : d < Min(from)} = {}
      BY <1>1, <3>1, MinFacts
    <3>4. Cardinality({d \in from \cap old : d < Min(from)}) = 0
      BY <3>3, FS_EmptySet
    <3>5. Min(from) \in near
      BY <3>1, <3>3, <3>4
    <3> QED
      BY <1>2, <3>2, <3>5
  <2>3. Min(rest) > start
    <3>1. Min(from) <= Min(rest) /\ Min(from) # Min(rest) /\ Min(from) \in from
      BY <1>1, <1>6, <2>1, <2>2, MinFacts
    <3> QED
      BY <1>1, <2>1, <3>1
  <2>4. Min(rest) \in 1..MaxEntries
    BY <1>1, <2>1 DEF Entries
  <2>5. \A e \in from : e < Min(rest) => e \in Visited
    BY <1>1, <2>1
  <2> QED
    BY <1>1, <1>3, <1>4, <1>6, <2>3, <2>4, <2>5
<1> QED
  BY <1>5, <1>6

----------------------------------------------------------------------------------
(* The inductive invariant: types, what is handed on, and the channel           *)

LEMMA Bounds ==
  /\ MaxEntries \in Nat /\ MaxStops \in Nat /\ MaxFaults \in Nat
  /\ Capacity \in Nat \ {0} /\ ReadCount \in Nat \ {0} /\ Scan \in Nat \ {0}
  /\ Entries \subseteq 0..MaxEntries /\ Entries \subseteq Nat
BY WorkerAssumption DEF Entries

\* An empty channel.
LEMMA EmptyChannel ==
  /\ <<>> \in Seq(Entries) /\ Len(<<>>) <= Capacity
  /\ [g \in Goroutines |-> 0] \in [Goroutines -> 0..MaxEntries]
BY Bounds

LEMMA InitIInv == Init => IInv
<1> SUFFICES ASSUME Init PROVE IInv
  OBVIOUS
<1>1. /\ jobs \in Seq(Entries) /\ Len(jobs) <= Capacity
      /\ job \in [Goroutines -> 0..MaxEntries]
  BY EmptyChannel DEF Init
<1>2. /\ last \in 0..MaxEntries /\ read \in 0..MaxEntries /\ start \in 0..MaxEntries
      /\ stops \in 0..MaxStops /\ faults \in 0..MaxFaults
  BY Bounds DEF Init
<1>3. /\ at \in [Loops -> {"check", "read", "select", "claim", "send", "gone"}]
      /\ batch \in [Loops -> SUBSET Entries]
      /\ pc \in [Goroutines -> {"receive", "process", "ack", "gone"}]
  BY DEF Init
<1>4. TypeOK
  BY <1>1, <1>2, <1>3 DEF Init, TypeOK
<1> QED
  BY <1>4 DEF Init, IInv, Held, ClosedWithoutSenders, ReceiversStay

\* The steps of Redis, of the context and of the end of Run.
LEMMA OutsideIInv ==
  ASSUME IInv,
         \/ Publish \/ LoseGroup \/ Cancel \/ Close \/ Return
         \/ \E e \in Entries : Age(e)
         \/ UNCHANGED vars
  PROVE  IInv'
<1> USE Bounds DEF IInv
<1>1. CASE Publish
  <2>1. last' \in 0..MaxEntries /\ last + 1 \in Entries /\ stream' = stream \cup {last + 1}
    BY <1>1 DEF Publish, TypeOK, Entries
  <2>2. UNCHANGED <<group, read, pel, old, running, cancelled, at, batch, start, jobs, closed, pc,
                    job, processed, stops, faults>>
    BY <1>1 DEF Publish, loops, pool, bounds
  <2> QED
    BY <2>1, <2>2 DEF TypeOK, Held, ClosedWithoutSenders, ReceiversStay
<1>2. CASE LoseGroup
  <2>1. faults' \in 0..MaxFaults /\ stops' = stops /\ 0 \in 0..MaxEntries
    BY <1>2 DEF LoseGroup, Fault, TypeOK
  <2>2. /\ group' = FALSE /\ stream' = {} /\ read' = 0 /\ pel' = {} /\ old' = {}
        /\ UNCHANGED <<last, running, cancelled, at, batch, start, jobs, closed, pc, job, processed>>
    BY <1>2 DEF LoseGroup, loops, pool
  <2> QED
    BY <2>1, <2>2 DEF TypeOK, Held, ClosedWithoutSenders, ReceiversStay
<1>3. CASE Cancel
  BY <1>3 DEF Cancel, redis, loops, pool, TypeOK, Held, ClosedWithoutSenders, ReceiversStay
<1>4. CASE Close
  BY <1>4 DEF Close, redis, loops, pool, bounds, TypeOK, Held, ClosedWithoutSenders, ReceiversStay,
     Loops
<1>5. CASE Return
  BY <1>5 DEF Return, redis, loops, pool, bounds, TypeOK, Held, ClosedWithoutSenders, ReceiversStay
<1>6. CASE \E e \in Entries : Age(e)
  BY <1>6 DEF Age, loops, pool, bounds, TypeOK, Held, ClosedWithoutSenders, ReceiversStay
<1>7. CASE UNCHANGED vars
  BY <1>7 DEF vars, redis, loops, pool, bounds, TypeOK, Held, ClosedWithoutSenders, ReceiversStay
<1> QED
  BY <1>1, <1>2, <1>3, <1>4, <1>5, <1>6, <1>7

\* A process starts with an empty channel, and with all goroutines there.
LEMMA StartIInv ==
  ASSUME IInv, Start
  PROVE  IInv'
<1>1. CASE UNCHANGED <<group, running, cancelled, loops, jobs, closed, pool>>
  BY <1>1, Bounds DEF Start, Fault, NoFault, bounds, loops, pool, IInv, TypeOK, Held,
     ClosedWithoutSenders, ReceiversStay
<1>2. CASE ~UNCHANGED <<group, running, cancelled, loops, jobs, closed, pool>>
  <2>1. TypeOK'
    <3>1. /\ group' \in BOOLEAN /\ running' \in BOOLEAN /\ cancelled' \in BOOLEAN
          /\ closed' \in BOOLEAN /\ start' = 0 /\ jobs' = <<>>
          /\ job' = [g \in Goroutines |-> 0]
          /\ UNCHANGED <<last, stream, read, pel, old, processed, stops, faults>>
      BY <1>2, Bounds DEF Start, NoFault, bounds
    <3>2. /\ at' \in [Loops -> {"check", "read", "select", "claim", "send", "gone"}]
          /\ batch' \in [Loops -> SUBSET Entries]
          /\ pc' \in [Goroutines -> {"receive", "process", "ack", "gone"}]
      BY <1>2 DEF Start
    <3> QED
      BY <3>1, <3>2, Bounds, EmptyChannel DEF IInv, TypeOK
  <2>2. Held' /\ ClosedWithoutSenders' /\ ReceiversStay'
    BY <1>2 DEF Start, loops, pool, Held, ClosedWithoutSenders, ReceiversStay, Loops
  <2> QED
    BY <2>1, <2>2 DEF IInv
<1> QED
  BY <1>1, <1>2 DEF Start

\* A loop that received a set of messages keeps the invariant, as far as it goes.
LEMMA ReceivedIInv ==
  ASSUME IInv, NEW l \in Loops, at[l] # "gone",
         NEW S \in SUBSET Entries, Received(l, S, Round(l)), closed' = closed
  PROVE  /\ at' \in [Loops -> {"check", "read", "select", "claim", "send", "gone"}]
         /\ batch' \in [Loops -> SUBSET Entries]
         /\ batch'[l] = S
         /\ \A k \in Loops : at'[k] = "send" <=> batch'[k] # {}
         /\ ClosedWithoutSenders' /\ ~closed
<1>1. /\ at \in [Loops -> {"check", "read", "select", "claim", "send", "gone"}]
      /\ batch \in [Loops -> SUBSET Entries]
  BY DEF IInv, TypeOK
<1>2. Round(l) \in {"check", "select"}
  BY DEF Round
<1> QED
  BY <1>1, <1>2 DEF Received, IInv, Held, ClosedWithoutSenders

LEMMA ReadIInv ==
  ASSUME IInv, ReadGroup
  PROVE  IInv'
<1> DEFINE new == {e \in stream : e > read}
           S == FirstOf(ReadCount, new)
<1>1. /\ at["reader"] = "read" /\ "reader" \in Loops /\ Round("reader") = "check"
      /\ UNCHANGED <<last, stream, group, old, running, cancelled, start, jobs, closed, pool, processed>>
  BY DEF ReadGroup, Loops, Round
<1>2. S \subseteq stream /\ stream \subseteq Entries /\ Entries \subseteq 0..MaxEntries
  BY WorkerAssumption DEF FirstOf, IInv, TypeOK, Entries
<1> HIDE DEF S
<1>3. PICK B \in {S, {}} : Received("reader", B, "check")
  BY DEF ReadGroup, S
<1>4. B \in SUBSET Entries
  BY <1>2, <1>3
<1>5. /\ read' \in 0..MaxEntries /\ pel' \in SUBSET Entries /\ old' \in SUBSET pel'
      /\ faults' \in 0..MaxFaults /\ stops' \in 0..MaxStops
  <2>1. \/ pel' = pel \cup S /\ \E e \in S : read' = e
        \/ UNCHANGED <<read, pel>>
    BY DEF ReadGroup, S
  <2>2. /\ faults' \in 0..MaxFaults /\ stops' \in 0..MaxStops
    BY WorkerAssumption DEF ReadGroup, Fault, NoFault, bounds, IInv, TypeOK
  <2> QED
    BY <1>1, <1>2, <2>1, <2>2 DEF IInv, TypeOK
<1>6. TypeOK'
  BY <1>1, <1>3, <1>4, <1>5, ReceivedIInv DEF IInv, TypeOK, pool
<1>7. Held' /\ ClosedWithoutSenders' /\ ReceiversStay'
  BY <1>1, <1>3, <1>4, ReceivedIInv DEF IInv, Held, ReceiversStay, pool
<1> QED
  BY <1>6, <1>7 DEF IInv

LEMMA ClaimIInv ==
  ASSUME IInv, AutoClaim
  PROVE  IInv'
<1> DEFINE S == Visited \cap old
<1>1. /\ at["claimer"] = "claim" /\ "claimer" \in Loops /\ Round("claimer") = "select"
      /\ UNCHANGED <<last, stream, group, read, pel, running, cancelled, jobs, closed, pool, processed>>
  BY DEF AutoClaim, Loops, Round
<1>2. pel \in SUBSET Entries /\ start \in 0..MaxEntries /\ start \in Nat
  BY WorkerAssumption DEF IInv, TypeOK
<1>3. Cursor \in 0..MaxEntries /\ S \subseteq Entries
  BY <1>2, CursorFacts
<1> HIDE DEF S
<1>4. PICK B \in {S, {}} : Received("claimer", B, "select")
  BY DEF AutoClaim, S
<1>5. B \in SUBSET Entries
  BY <1>3, <1>4
<1>6. /\ start' \in 0..MaxEntries /\ old' \in SUBSET pel
      /\ faults' \in 0..MaxFaults /\ stops' \in 0..MaxStops
  <2>1. (start' = Cursor \/ start' = start) /\ (old' = old \ S \/ old' = old)
    BY DEF AutoClaim, S
  <2>2. /\ faults' \in 0..MaxFaults /\ stops' \in 0..MaxStops
    BY WorkerAssumption DEF AutoClaim, Fault, NoFault, bounds, IInv, TypeOK
  <2> QED
    BY <1>2, <1>3, <2>1, <2>2 DEF IInv, TypeOK
<1>7. TypeOK'
  BY <1>1, <1>4, <1>5, <1>6, ReceivedIInv DEF IInv, TypeOK, pool
<1>8. Held' /\ ClosedWithoutSenders' /\ ReceiversStay'
  BY <1>1, <1>4, <1>5, ReceivedIInv DEF IInv, Held, ReceiversStay, pool
<1> QED
  BY <1>7, <1>8 DEF IInv

\* Handing on: the message leaves the batch, for the channel if it has room.
LEMMA SendIInv ==
  ASSUME IInv, NEW l \in Loops, Send(l)
  PROVE  IInv'
<1> DEFINE S == batch[l] \ {Min(batch[l])}
<1>1. /\ at[l] = "send" /\ closed' = closed
      /\ UNCHANGED <<redis, running, cancelled, start, pool, processed, bounds>>
  BY DEF Send, Discard, Enqueue, Forget
<1>2. batch[l] \in SUBSET Entries /\ batch[l] # {}
  BY <1>1 DEF IInv, TypeOK, Held
<1>3. S \in SUBSET Entries /\ Min(batch[l]) \in Entries
  BY <1>2, Bounds, MinFacts
<1> HIDE DEF S
<1>4. ~closed /\ \A g \in Goroutines : pc[g] # "gone"
  BY <1>1 DEF IInv, ClosedWithoutSenders, ReceiversStay
<1>5. jobs \in Seq(Entries) /\ Len(jobs) <= Capacity
  BY DEF IInv, TypeOK
<1>6. jobs' \in Seq(Entries) /\ Len(jobs') <= Capacity
  <2>1. CASE UNCHANGED jobs
    BY <1>5, <2>1
  <2>2. CASE Enqueue(l)
    <3>1. jobs' = Append(jobs, Min(batch[l])) /\ Len(jobs) < Capacity /\ Capacity \in Nat
      BY <2>2, Bounds DEF Enqueue
    <3> QED
      BY <1>3, <1>5, <3>1
  <2> QED
    BY <2>1, <2>2 DEF Send, Discard, Forget
<1>7. CASE Discard(l) \/ Enqueue(l)
  <2>1. Received(l, S, Round(l))
    BY <1>7 DEF Discard, Enqueue, S
  <2>2. TypeOK'
    BY <1>1, <1>3, <1>6, <2>1, ReceivedIInv DEF IInv, TypeOK, redis, pool, bounds
  <2>3. Held' /\ ClosedWithoutSenders' /\ ReceiversStay'
    BY <1>1, <1>3, <1>4, <2>1, ReceivedIInv DEF IInv, Held, ReceiversStay, pool
  <2> QED
    BY <2>2, <2>3 DEF IInv
<1>8. CASE Forget(l)
  <2>1. /\ at' = [at EXCEPT ![l] = "gone"]
        /\ batch' = [batch EXCEPT ![l] = {}]
    BY <1>8 DEF Forget
  <2>2. TypeOK'
    BY <1>1, <1>6, <2>1 DEF IInv, TypeOK, redis, pool, bounds
  <2>3. Held' /\ ClosedWithoutSenders' /\ ReceiversStay'
    <3>1. /\ at \in [Loops -> {"check", "read", "select", "claim", "send", "gone"}]
          /\ batch \in [Loops -> SUBSET Entries]
          /\ \A k \in Loops : at[k] = "send" <=> batch[k] # {}
      BY DEF IInv, TypeOK, Held
    <3>2. \A k \in Loops : at'[k] = "send" <=> batch'[k] # {}
      BY <2>1, <3>1
    <3>3. UNCHANGED <<running, closed, pc, job>>
      BY <1>1 DEF pool
    <3> QED
      BY <1>4, <3>2, <3>3 DEF IInv, Held, ClosedWithoutSenders, ReceiversStay
  <2> QED
    BY <2>2, <2>3 DEF IInv
<1> QED
  BY <1>7, <1>8 DEF Send

\* The heads of both loops only look at the context.
LEMMA HeadIInv ==
  ASSUME IInv, Check \/ Select
  PROVE  IInv'
<1>1. PICK l \in Loops, p \in {"gone", "read", "claim"} :
        at[l] \notin {"gone", "send"} /\ at' = [at EXCEPT ![l] = p]
  BY DEF Check, Select, Loops
<1>2. UNCHANGED <<redis, running, cancelled, batch, start, jobs, closed, pool, processed, bounds>>
  BY DEF Check, Select
<1>3. TypeOK'
  BY <1>1, <1>2 DEF IInv, TypeOK, redis, pool, bounds
<1>4. UNCHANGED <<running, closed, jobs, pc, job, batch>> /\ ~closed
  BY <1>1, <1>2 DEF IInv, ClosedWithoutSenders, pool
<1>5. \A k \in Loops : at'[k] = "send" <=> batch'[k] # {}
  <2>1. \A k \in Loops : at[k] = "send" <=> batch[k] # {}
    BY DEF IInv, Held
  <2> QED
    BY <1>1, <1>4, <2>1 DEF IInv, TypeOK
<1>6. Held' /\ ClosedWithoutSenders' /\ ReceiversStay'
  BY <1>4, <1>5 DEF IInv, Held, ClosedWithoutSenders, ReceiversStay
<1> QED
  BY <1>3, <1>6 DEF IInv

\* A goroutine leaves an open channel alone until it is closed and empty.
LEMMA PoolIInv ==
  ASSUME IInv, NEW g \in Goroutines, Worker(g)
  PROVE  IInv'
<1>1. /\ jobs \in Seq(Entries) /\ Len(jobs) <= Capacity /\ Capacity \in Nat
      /\ pc \in [Goroutines -> {"receive", "process", "ack", "gone"}]
      /\ job \in [Goroutines -> 0..MaxEntries]
  BY Bounds DEF IInv, TypeOK
<1>2. UNCHANGED <<last, stream, group, read, running, cancelled, at, batch, start, closed>>
  BY DEF Worker, Receive, Leave, Process, GiveUp, Ack, redis, loops
<1>3. faults' \in 0..MaxFaults /\ stops' \in 0..MaxStops
  BY Bounds DEF Worker, Receive, Leave, Process, GiveUp, Ack, Fault, NoFault, bounds, IInv, TypeOK
<1>4. pel' \in SUBSET Entries /\ old' \in SUBSET pel'
  BY DEF Worker, Receive, Leave, Process, GiveUp, Ack, redis, IInv, TypeOK
<1>5. CASE Receive(g)
  <2>1. /\ Head(jobs) \in Entries /\ Tail(jobs) \in Seq(Entries) /\ Len(Tail(jobs)) <= Capacity
        /\ jobs # <<>>
    BY <1>1, <1>5 DEF Receive
  <2>2. jobs' = Tail(jobs) /\ GoTo(g, "process", Head(jobs)) /\ processed' = processed
    BY <1>5 DEF Receive
  <2>3. TypeOK'
    <3>1. /\ pc' \in [Goroutines -> {"receive", "process", "ack", "gone"}]
          /\ job' \in [Goroutines -> 0..MaxEntries]
      BY <1>1, <2>1, <2>2, Bounds DEF GoTo
    <3>2. jobs' \in Seq(Entries) /\ Len(jobs') <= Capacity
      BY <2>1, <2>2
    <3> QED
      BY <1>2, <1>3, <1>4, <2>2, <3>1, <3>2 DEF IInv, TypeOK
  <2>4. Held' /\ ClosedWithoutSenders' /\ ReceiversStay'
    BY <1>1, <1>2, <2>1, <2>2 DEF GoTo, IInv, Held, ClosedWithoutSenders, ReceiversStay
  <2> QED
    BY <2>3, <2>4 DEF IInv
<1>6. CASE Leave(g)
  <2>1. GoTo(g, "gone", 0) /\ UNCHANGED <<jobs, processed>> /\ jobs = <<>> /\ closed
    BY <1>6 DEF Leave
  <2>2. TypeOK'
    BY <1>1, <1>2, <1>3, <1>4, <2>1, Bounds DEF GoTo, IInv, TypeOK
  <2>3. Held' /\ ClosedWithoutSenders' /\ ReceiversStay'
    BY <1>1, <1>2, <2>1 DEF GoTo, IInv, Held, ClosedWithoutSenders, ReceiversStay
  <2> QED
    BY <2>2, <2>3 DEF IInv
<1>7. CASE Process(g) \/ GiveUp(g) \/ Ack(g)
  <2>1. jobs' = jobs /\ pc[g] \in {"process", "ack"} /\ job[g] \in Entries
    BY <1>7 DEF Process, GiveUp, Ack, IInv, Held
  <2>2. GoTo(g, "ack", job[g]) \/ GoTo(g, "receive", 0)
    BY <1>7 DEF Process, GiveUp, Ack
  <2>3. processed' \in SUBSET Entries
    BY <1>7, <2>1 DEF Process, GiveUp, Ack, IInv, TypeOK
  <2>4. TypeOK'
    <3>1. job[g] \in 0..MaxEntries /\ 0 \in 0..MaxEntries
      BY <2>1, WorkerAssumption DEF Entries
    <3>2. PICK p \in {"ack", "receive"}, e \in 0..MaxEntries : GoTo(g, p, e)
      BY <2>2, <3>1
    <3>3. /\ pc' \in [Goroutines -> {"receive", "process", "ack", "gone"}]
          /\ job' \in [Goroutines -> 0..MaxEntries]
      BY <1>1, <3>2 DEF GoTo
    <3> QED
      BY <1>1, <1>2, <1>3, <1>4, <2>1, <2>3, <3>3 DEF IInv, TypeOK
  <2>5. Held' /\ ClosedWithoutSenders' /\ ReceiversStay'
    BY <1>1, <1>2, <2>1, <2>2 DEF GoTo, IInv, Held, ClosedWithoutSenders, ReceiversStay
  <2> QED
    BY <2>4, <2>5 DEF IInv
<1> QED
  BY <1>5, <1>6, <1>7 DEF Worker

LEMMA NextIInv ==
  ASSUME IInv, [Next]_vars
  PROVE  IInv'
<1>1. CASE \/ Publish \/ LoseGroup \/ Cancel \/ Close \/ Return
           \/ \E e \in Entries : Age(e)
           \/ UNCHANGED vars
  BY <1>1, OutsideIInv
<1>2. CASE Start
  BY <1>2, StartIInv
<1>3. CASE Check \/ Select
  BY <1>3, HeadIInv
<1>4. CASE ReadGroup
  BY <1>4, ReadIInv
<1>5. CASE AutoClaim
  BY <1>5, ClaimIInv
<1>6. CASE \E l \in Loops : Send(l)
  BY <1>6, SendIInv
<1>7. CASE \E g \in Goroutines : Worker(g)
  BY <1>7, PoolIInv
<1> QED
  BY <1>1, <1>2, <1>3, <1>4, <1>5, <1>6, <1>7 DEF Next, Reader, Claimer, Loops

\* The inductive invariant holds in every state.
THEOREM WorkerInvariant == Spec => []IInv
BY InitIInv, NextIInv, PTL DEF Spec

\* The type invariant, the bound of the channel included.
THEOREM TypeCorrect == Spec => []TypeOK
<1>1. IInv => TypeOK
  BY DEF IInv
<1> QED
  BY WorkerInvariant, <1>1, PTL

\* consumer.go:47-51: the channel is never closed while a loop may still send.
THEOREM NobodySendsOnClosed == Spec => []ClosedWithoutSenders
<1>1. IInv => ClosedWithoutSenders
  BY DEF IInv
<1> QED
  BY WorkerInvariant, <1>1, PTL

\* consumer.go:123: a loop that waits for room always has somebody to make it, and
\* what is in the channel at the end is still received.
THEOREM SendersHaveReceivers == Spec => []ReceiversStay
<1>1. IInv => ReceiversStay
  BY DEF IInv
<1> QED
  BY WorkerInvariant, <1>1, PTL

----------------------------------------------------------------------------------
(* The claimer's cursor                                                         *)

LEMMA ClaimStep ==
  ASSUME IInv, [Next]_vars, at["claimer"] = "claim", start' # start \/ batch'["claimer"] # {}
  PROVE  /\ start' = 0 \/ start' > start
         /\ \A e \in old : e >= start /\ (start' = 0 \/ e < start') => e \in batch'["claimer"]
<1>1. /\ at \in [Loops -> {"check", "read", "select", "claim", "send", "gone"}]
      /\ batch \in [Loops -> SUBSET Entries] /\ "claimer" \in Loops /\ "reader" \in Loops
      /\ pel \in SUBSET Entries /\ old \subseteq pel /\ start \in Nat
  BY Bounds DEF IInv, TypeOK, Loops
<1>2. batch["claimer"] = {} /\ running
  BY <1>1 DEF IInv, Held, ClosedWithoutSenders
<1>3. start' # start \/ batch'["claimer"] # batch["claimer"]
  BY <1>2
<1>4. AutoClaim
  <2>1. ~(UNCHANGED <<batch, start>>)
    BY <1>3
  <2>2. ~(ReadGroup \/ Send("reader"))
    BY <1>1, <1>3 DEF ReadGroup, Send, Discard, Enqueue, Forget, Received
  <2>3. ~Send("claimer")
    BY DEF Send, Discard, Enqueue, Forget
  <2>4. ~Start
    BY <1>2 DEF Start
  <2>5. ~(Check \/ Select \/ Publish \/ LoseGroup \/ Cancel \/ Close \/ Return \/ UNCHANGED vars)
    BY <2>1 DEF Check, Select, Publish, LoseGroup, Cancel, Close, Return, loops, vars
  <2>6. \A e \in Entries : ~Age(e)
    BY <2>1 DEF Age, loops
  <2>7. \A g \in Goroutines : ~Worker(g)
    BY <2>1 DEF Worker, Receive, Leave, Process, GiveUp, Ack, loops
  <2> QED
    BY <2>2, <2>3, <2>4, <2>5, <2>6, <2>7 DEF Next, Reader, Claimer
<1>5. start' = Cursor /\ batch'["claimer"] = Visited \cap old
  <2>1. \/ Received("claimer", Visited \cap old, "select") /\ start' = Cursor
        \/ Received("claimer", {}, "select") /\ start' = start
    BY <1>4 DEF AutoClaim
  <2> QED
    BY <1>1, <1>2, <1>3, <2>1 DEF Received
<1> QED
  BY <1>1, <1>5, CursorFacts

\* consumer.go:99-106: however the scan is cut into calls, no entry that has been
\* idle for long enough is passed over.
THEOREM ClaimsSkipNone == Spec => ClaimSkipsNone
<1>1. ASSUME IInv, [Next]_vars
      PROVE  [at["claimer"] = "claim" /\ (start' # start \/ batch'["claimer"] # {}) =>
                /\ start' = 0 \/ start' > start
                /\ \A e \in old : e >= start /\ (start' = 0 \/ e < start') =>
                     e \in batch'["claimer"]]_vars
  BY <1>1, ClaimStep
<1> QED
  BY WorkerInvariant, <1>1, PTL DEF Spec, ClaimSkipsNone

----------------------------------------------------------------------------------
(* The pending entries                                                          *)

\* The group delivered the messages in their order, only what it delivered is
\* pending, and it acknowledges a message only after it was processed.
PendingInv ==
  /\ pc = [g \in Goroutines |-> pc[g]] /\ job = [g \in Goroutines |-> job[g]]
  /\ last \in Nat /\ read \in Nat /\ read <= last
  /\ stream \subseteq 1 .. last
  /\ pel \subseteq {e \in stream : e <= read}
  /\ \A g \in Goroutines : pc[g] = "ack" => job[g] \in processed
  /\ StoppedStaysPending

\* What one XREADGROUP delivers: the first of what was not delivered, up to the
\* last of them.
LEMMA ReadFacts ==
  ASSUME PendingInv, ReadGroup, ~UNCHANGED <<read, pel>>
  PROVE  LET new == {e \in stream : e > read}
             S == FirstOf(ReadCount, new)
         IN  /\ S # {} /\ S \subseteq new
             /\ pel' = pel \cup S
             /\ read' \in S /\ read' \in Nat /\ read' > read /\ read' <= last
             /\ \A d \in new : d <= read' <=> d \in S
<1> DEFINE new == {e \in stream : e > read}
           S == FirstOf(ReadCount, new)
<1>1. pel' = pel \cup S /\ \E e \in S : (\A d \in S : d <= e) /\ read' = e
  BY DEF ReadGroup
<1>2. PICK e \in S : (\A d \in S : d <= e) /\ read' = e
  BY <1>1
<1>3. new \subseteq Nat /\ S \subseteq new /\ new \subseteq 1 .. last /\ ReadCount \in Nat
  BY WorkerAssumption DEF PendingInv, FirstOf
<1>4. IsFiniteSet(new)
  <2>1. IsFiniteSet(1 .. last)
    BY FS_Interval DEF PendingInv
  <2> QED
    BY <1>3, <2>1, FS_Subset
<1>5. \A d \in new : d <= e => d \in S
  BY <1>2, <1>3, <1>4, FirstOfFacts
<1> HIDE DEF S
<1>6. e \in Nat /\ e > read /\ e <= last
  BY <1>2, <1>3 DEF PendingInv
<1> QED
  BY <1>1, <1>2, <1>3, <1>5, <1>6 DEF S

LEMMA ReadStep ==
  ASSUME PendingInv, ReadGroup
  PROVE  PendingInv'
<1>1. UNCHANGED <<pc, job, last, stream, processed>>
  BY DEF ReadGroup, pool
<1>2. CASE UNCHANGED <<read, pel>>
  BY <1>1, <1>2 DEF PendingInv, StoppedStaysPending
<1>3. CASE ~ UNCHANGED <<read, pel>>
  <2> DEFINE new == {e \in stream : e > read}
             S == FirstOf(ReadCount, new)
  <2>1. /\ S \subseteq new /\ pel' = pel \cup S
        /\ read' \in Nat /\ read' > read /\ read' <= last
        /\ \A d \in new : d <= read' <=> d \in S
    BY <1>3, ReadFacts
  <2> HIDE DEF S
  <2>2. stream \subseteq Nat /\ read \in Nat
    BY DEF PendingInv
  <2>3. pel' \subseteq {e \in stream : e <= read'}
    BY <2>1, <2>2 DEF PendingInv
  <2>4. \A d \in stream : d <= read' => d \in pel' \/ d \in processed
    BY <2>1, <2>2 DEF PendingInv, StoppedStaysPending
  <2> QED
    BY <1>1, <2>1, <2>3, <2>4 DEF PendingInv, StoppedStaysPending
<1> QED
  BY <1>2, <1>3

LEMMA PoolStep ==
  ASSUME PendingInv, NEW g \in Goroutines, Worker(g)
  PROVE  PendingInv'
<1>1. UNCHANGED <<last, stream, read>>
  BY DEF Worker, Receive, Leave, Process, GiveUp, Ack, redis
<1>2. CASE Receive(g) \/ Leave(g) \/ GiveUp(g)
  BY <1>1, <1>2 DEF Receive, Leave, GiveUp, GoTo, redis, PendingInv, StoppedStaysPending
<1>3. CASE Process(g)
  BY <1>1, <1>3 DEF Process, GoTo, redis, PendingInv, StoppedStaysPending
<1>4. CASE Ack(g)
  BY <1>1, <1>4 DEF Ack, GoTo, PendingInv, StoppedStaysPending
<1> QED
  BY <1>2, <1>3, <1>4 DEF Worker

LEMMA PendingStep ==
  ASSUME PendingInv, [Next]_vars
  PROVE  PendingInv'
<1>1. CASE Publish
  BY <1>1 DEF Publish, pool, PendingInv, StoppedStaysPending
<1>2. CASE LoseGroup
  BY <1>2 DEF LoseGroup, pool, PendingInv, StoppedStaysPending
<1>3. CASE Start
  <2>1. UNCHANGED <<last, stream, read, pel, processed>>
    BY <1>3 DEF Start
  <2>2. \/ pc' = [g \in Goroutines |-> "receive"] /\ job' = [g \in Goroutines |-> 0]
        \/ UNCHANGED <<pc, job>>
    BY <1>3 DEF Start, pool
  <2> QED
    BY <2>1, <2>2 DEF PendingInv, StoppedStaysPending
<1>4. CASE ReadGroup
  BY <1>4, ReadStep
<1>5. CASE \E g \in Goroutines : Worker(g)
  BY <1>5, PoolStep
<1>6. CASE \/ Cancel \/ Close \/ Return \/ Check \/ Select \/ AutoClaim
           \/ \E l \in Loops : Send(l)
           \/ \E e \in Entries : Age(e)
           \/ UNCHANGED vars
  <2>1. UNCHANGED <<last, stream, read, pel, pc, job, processed>>
    BY <1>6 DEF Cancel, Close, Return, Check, Select, AutoClaim, Send, Discard, Enqueue, Forget,
       Age, redis, pool, vars
  <2> QED
    BY <2>1 DEF PendingInv, StoppedStaysPending
<1> QED
  BY <1>1, <1>2, <1>3, <1>4, <1>5, <1>6 DEF Next, Reader, Claimer, Loops

LEMMA AlwaysPending == Spec => []PendingInv
<1>1. Init => PendingInv
  BY DEF Init, PendingInv, StoppedStaysPending
<1> QED
  BY <1>1, PendingStep, PTL DEF Spec

(* docs/architecture.md:18: wherever the process is stopped, what the group     *)
(* delivered and is not final is pending, and will be claimed.                  *)
THEOREM DeliveredStaysPending == Spec => []StoppedStaysPending
<1>1. PendingInv => StoppedStaysPending
  BY DEF PendingInv
<1> QED
  BY <1>1, AlwaysPending, PTL

----------------------------------------------------------------------------------
(* WorkerProcess implements MessageDelivery                                     *)

LEMMA InitImplements == Init => Delivery!Init
BY DEF Init, Delivery!Init

LEMMA StutterImplements ==
  ASSUME UNCHANGED <<stream, read, pel, processed>>
  PROVE  [Delivery!Next]_(Delivery!vars)
<1>1. stream' = stream /\ read' = read /\ pel' = pel /\ processed' = processed
  OBVIOUS
<1>2. {e \in stream' : e > read'} = {e \in stream : e > read}
  BY <1>1
<1>3. {e \in stream' : e <= read'} \ pel' = {e \in stream : e <= read} \ pel
  BY <1>1
<1> QED
  BY <1>1, <1>2, <1>3 DEF Delivery!vars

LEMMA StepImplements ==
  ASSUME IInv, PendingInv, [Next]_vars
  PROVE  [Delivery!Next]_(Delivery!vars)
<1>0. /\ pel \subseteq {e \in stream : e <= read} /\ stream \subseteq 1..last
      /\ stream \subseteq Nat /\ read \in Nat /\ last \in Nat /\ read <= last
      /\ stream \subseteq Entries
  BY DEF PendingInv, IInv, TypeOK
<1>1. CASE UNCHANGED <<stream, read, pel, processed>>
  BY <1>1, StutterImplements
<1>2. CASE Publish
  <2>1. /\ last + 1 \in Entries
        /\ stream' = stream \cup {last + 1} /\ UNCHANGED <<read, pel, processed>>
    BY <1>2, Bounds DEF Publish, IInv, TypeOK, Entries
  <2>2. last + 1 \notin stream /\ last + 1 \notin pel /\ last + 1 > read /\ ~(last + 1 <= read)
    BY <1>0
  <2>3. Delivery!Publish(last + 1)
    BY <2>1, <2>2 DEF Delivery!Publish
  <2> QED
    BY <2>1, <2>3 DEF Delivery!Next, Delivery!Publish
<1>3. CASE LoseGroup
  BY <1>3 DEF LoseGroup, Delivery!Lose, Delivery!Next
<1>4. CASE ReadGroup
  <2> DEFINE new == {e \in stream : e > read}
             S == FirstOf(ReadCount, new)
  <2>1. CASE UNCHANGED <<read, pel>>
    BY <1>1, <1>4, <2>1 DEF ReadGroup
  <2>2. CASE ~UNCHANGED <<read, pel>>
    <3>1. /\ S # {} /\ S \subseteq new /\ pel' = pel \cup S
          /\ read' \in S /\ read' \in Nat /\ read' > read
          /\ \A d \in new : d <= read' <=> d \in S
      BY <1>4, <2>2, ReadFacts
    <3>2. UNCHANGED <<stream, processed>>
      BY <1>4 DEF ReadGroup
    <3> HIDE DEF S
    <3>3. {e \in stream : e > read'} = new \ S
      <4>1. \A e \in stream : e > read' => e > read
        BY <1>0, <3>1
      <4>2. \A e \in stream : e > read' <=> ~(e <= read')
        BY <1>0, <3>1
      <4>3. \A e \in stream : e > read' <=> e \in new /\ e \notin S
        BY <3>1, <4>1, <4>2
      <4> QED
        BY <4>3
    <3>4. {e \in stream : e <= read'} \ pel' = {e \in stream : e <= read} \ pel
      <4>1. \A e \in stream : e <= read => e <= read' /\ e \notin new
        BY <1>0, <3>1
      <4>2. \A e \in stream : e <= read' => e <= read \/ e \in S
        BY <1>0, <3>1
      <4>3. \A e \in stream : e <= read' /\ e \notin pel' <=> e <= read /\ e \notin pel
        BY <3>1, <4>1, <4>2
      <4> QED
        BY <4>3
    <3>5. \A e \in S : \A d \in new : d < e => d \in S
      BY <1>0, <3>1
    <3>6. Delivery!Deliver(S)
      BY <3>1, <3>2, <3>3, <3>4, <3>5 DEF Delivery!Deliver
    <3>7. S \in SUBSET Entries
      BY <1>0, <3>1
    <3> QED
      BY <3>6, <3>7 DEF Delivery!Next, Delivery!Deliver
  <2> QED
    BY <2>1, <2>2
<1>5. CASE \E g \in Goroutines : Worker(g)
  <2> PICK g \in Goroutines : Worker(g)
    BY <1>5
  <2>1. CASE Receive(g) \/ Leave(g) \/ GiveUp(g)
    BY <1>1, <2>1 DEF Receive, Leave, GiveUp, redis
  <2>2. CASE Process(g)
    <3>1. /\ processed' = processed \cup {job[g]} /\ UNCHANGED <<stream, read, pel>>
          /\ {job[g]} \in SUBSET Entries
      BY <2>2 DEF Process, redis, IInv, Held
    <3>2. Delivery!Finish({job[g]})
      BY <3>1 DEF Delivery!Finish
    <3> QED
      BY <3>1, <3>2 DEF Delivery!Next
  <2>3. CASE Ack(g)
    <3>1. /\ job[g] \in processed /\ job[g] \in Entries
          /\ UNCHANGED <<stream, read, processed>>
          /\ pel' = pel \ {job[g]} \/ pel' = pel
      BY <2>3 DEF Ack, IInv, Held, PendingInv
    <3>2. CASE pel' = pel
      BY <1>1, <3>1, <3>2
    <3>3. CASE pel' # pel
      <4>1. job[g] \in pel /\ pel' = pel \ {job[g]}
        BY <3>1, <3>3
      <4>2. Delivery!Settle(job[g])
        BY <1>0, <3>1, <4>1 DEF Delivery!Settle
      <4> QED
        BY <3>1, <4>2 DEF Delivery!Next, Delivery!Settle
    <3> QED
      BY <3>2, <3>3
  <2> QED
    BY <2>1, <2>2, <2>3 DEF Worker
<1>6. CASE \/ Start \/ Cancel \/ Close \/ Return \/ Check \/ Select \/ AutoClaim
           \/ \E l \in Loops : Send(l)
           \/ \E e \in Entries : Age(e)
           \/ UNCHANGED vars
  <2>1. UNCHANGED <<stream, read, pel, processed>>
    BY <1>6 DEF Start, Cancel, Close, Return, Check, Select, AutoClaim, Send, Discard, Enqueue,
       Forget, Age, redis, vars
  <2> QED
    BY <1>1, <2>1
<1> QED
  BY <1>2, <1>3, <1>4, <1>5, <1>6 DEF Next, Reader, Claimer, Loops

\* Both loops, the channel, the goroutines and the end of a process keep the
\* promise of the consumer group: delivered in turn, settled only when final.
THEOREM WorkerDelivers == Spec => ImplementsDelivery
<1>1. IInv /\ PendingInv /\ [Next]_vars => [Delivery!Next]_(Delivery!vars)
  BY StepImplements
<1> QED
  BY InitImplements, <1>1, WorkerInvariant, AlwaysPending, PTL
     DEF Spec, ImplementsDelivery, Delivery!Spec
===================================================================================
