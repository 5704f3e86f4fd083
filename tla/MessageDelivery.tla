----------------------------- MODULE MessageDelivery ----------------------------
(* What the stream and its consumer group promise about a message, whatever the *)
(* processes do: it is delivered in its turn, is pending from then on, and is   *)
(* settled (acknowledged) only when the execution it names is final.  That it   *)
(* is delivered again while it is pending changes nothing here, nor does a      *)
(* process that ends.                                                           *)
(*                                                                              *)
(* ProbePipeline implements this with the rows of many processes, WorkerProcess *)
(* with the loops, the channel and the end of one.                              *)
EXTENDS Naturals

CONSTANT Messages   \* numbers, in the order of the stream

VARIABLES
  queue,     \* published and not delivered
  pending,   \* delivered and not acknowledged
  settled,   \* acknowledged
  done       \* the messages whose execution is final

vars == <<queue, pending, settled, done>>

Init == queue = {} /\ pending = {} /\ settled = {} /\ done = {}

\* A message is published, possibly for an execution that is final already.
Publish(e) ==
  /\ e \notin queue \cup pending \cup settled
  /\ queue' = queue \cup {e}
  /\ done' = done \/ done' = done \cup {e}
  /\ UNCHANGED <<pending, settled>>

\* Messages are delivered for the first time, in the order of the stream.
Deliver(S) ==
  /\ S # {} /\ S \subseteq queue
  /\ \A e \in S : \A d \in queue : d < e => d \in S
  /\ queue' = queue \ S
  /\ pending' = pending \cup S
  /\ UNCHANGED <<settled, done>>

\* The execution that these messages name is final.
Finish(S) ==
  /\ done' = done \cup S
  /\ UNCHANGED <<queue, pending, settled>>

\* A message is acknowledged.
Settle(e) ==
  /\ e \in pending \cap done
  /\ pending' = pending \ {e}
  /\ settled' = settled \cup {e}
  /\ UNCHANGED <<queue, done>>

\* The broker comes back empty.
Lose ==
  /\ queue' = {} /\ pending' = {} /\ settled' = {}
  /\ UNCHANGED done

Next ==
  \/ \E e \in Messages : Publish(e) \/ Settle(e)
  \/ \E S \in SUBSET Messages : Deliver(S) \/ Finish(S)
  \/ Lose

Spec == Init /\ [][Next]_vars
=================================================================================
