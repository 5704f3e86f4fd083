--------------------------- MODULE ExecutionLifecycle ---------------------------
(* What the probe subsystem promises about one row of probe_results, whatever   *)
(* the workers, Redis and the clocks do: an execution is created queued, is     *)
(* run by one consumer at a time, possibly taken over, gets exactly one final   *)
(* result, and is confirmed to the message broker only afterwards.              *)
(* ProbePipeline implements this specification.                                 *)
CONSTANTS Executions, Consumers, NoConsumer

VARIABLES
  status,   \* probe_results.status, "absent" while there is no row
  owner,    \* probe_results.worker_consumer
  settled   \* executions with a stream message that was acknowledged

vars == <<status, owner, settled>>

FinalStates == {"succeeded", "failed"}
States == {"absent", "queued", "running"} \cup FinalStates

Init ==
  /\ status = [x \in Executions |-> "absent"]
  /\ owner = [x \in Executions |-> NoConsumer]
  /\ settled = {}

\* The scheduler's transaction creates a batch of rows.
Create(S) ==
  /\ S # {}
  /\ \A x \in S : status[x] = "absent"
  /\ status' = [x \in Executions |-> IF x \in S THEN "queued" ELSE status[x]]
  /\ UNCHANGED <<owner, settled>>

\* A consumer takes the execution, from the queue or from another consumer.
Take(x, c) ==
  /\ status[x] \in {"queued", "running"}
  /\ status' = [status EXCEPT ![x] = "running"]
  /\ owner' = [owner EXCEPT ![x] = c]
  /\ UNCHANGED settled

\* The result of a running execution is recorded; the row never changes again.
Finish(x, s) ==
  /\ status[x] = "running"
  /\ status' = [status EXCEPT ![x] = s]
  /\ UNCHANGED <<owner, settled>>

\* A message of the execution is acknowledged: only for a finished execution.
Settle(x) ==
  /\ status[x] \in FinalStates
  /\ settled' = settled \cup {x}
  /\ UNCHANGED <<status, owner>>

Next ==
  \/ \E S \in SUBSET Executions : Create(S)
  \/ \E x \in Executions :
       \/ \E c \in Consumers : Take(x, c)
       \/ \E s \in FinalStates : Finish(x, s)
       \/ Settle(x)

Spec == Init /\ [][Next]_vars
=================================================================================
