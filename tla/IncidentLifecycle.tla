---------------------------- MODULE IncidentLifecycle ----------------------------
(* The life of an incident as docs/api.md promises it: users acknowledge,       *)
(* process and close, the resolution of the alert reaches every active state,   *)
(* and every step of a user leaves exactly one entry in the audit log.          *)
EXTENDS Sequences

CONSTANTS Events, Users

VARIABLES
  state,   \* the status of the incident of an event, "absent" before there is one
  trail    \* what users did to it, in order

Active == {"firing", "acknowledged", "processing"}

Init ==
  /\ state = [e \in Events |-> "absent"]
  /\ trail = [e \in Events |-> <<>>]

\* The first notification of an event, or its resolution if that comes first.
Open(e) ==
  /\ state[e] = "absent"
  /\ \E s \in {"firing", "resolved"} : state' = [state EXCEPT ![e] = s]
  /\ UNCHANGED trail

Resolve(e) ==
  /\ state[e] \in Active
  /\ state' = [state EXCEPT ![e] = "resolved"]
  /\ UNCHANGED trail

\* A user's action, allowed in the states from.
Act(e, u, what, from, to) ==
  /\ state[e] \in from
  /\ state' = [state EXCEPT ![e] = to]
  /\ trail' = [trail EXCEPT ![e] = Append(@, <<what, u>>)]

Next ==
  \E e \in Events :
    \/ Open(e)
    \/ Resolve(e)
    \/ \E u \in Users :
         \/ Act(e, u, "incident.acknowledge", {"firing"}, "acknowledged")
         \/ Act(e, u, "incident.process", {"firing", "acknowledged"}, "processing")
         \/ Act(e, u, "incident.close", {"resolved"}, "closed")

vars == <<state, trail>>
Spec == Init /\ [][Next]_vars
===================================================================================
