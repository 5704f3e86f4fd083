--------------------------------- MODULE Incident ---------------------------------
(* Incidents (internal/incident): Alertmanager posts the alerts of a group to   *)
(* the webhook, the API writes a row per event, users act on the rows.          *)
(*                                                                              *)
(* Every worker process exports the result of a probe, so a group has an alert  *)
(* per process.  An event is made of the stable labels and startsAt (event_key),*)
(* which alerts that begin at the same evaluation have in common.               *)
(* A webhook request is handled statement by statement, its alerts one after    *)
(* the other; it may fail half-way, and what it wrote stays.  Alertmanager may  *)
(* stop waiting for a request that still goes on, and sends the group again:    *)
(* requests overtake one another.                                               *)
EXTENDS Integers, Sequences, FiniteSets, Functions

CONSTANTS
  Alerts,     \* the alerts of one group
  Events,     \* their event keys
  Keys,       \* which alert may have which, as functions
  Users,
  NoUser,     \* acknowledged_by, processing_by or closed_by IS NULL
  Requests,   \* webhook requests the API serves at a time
  MaxCount,   \* bound: where occurrence_count saturates
  MaxFaults   \* bound: errors in one behaviour

ASSUME IncidentAssumption ==
  /\ NoUser \notin Users
  /\ IsFiniteSet(Alerts)
  /\ Keys \subseteq [Alerts -> Events]
  /\ MaxCount \in Nat \ {0}
  /\ MaxFaults \in Nat

VARIABLES
  incident,   \* the incidents row of an event
  audit,      \* its entries in audit_logs
  request,    \* the webhook requests in the API
  \* Prometheus and Alertmanager
  key,        \* the event key that an alert has, as it begins when it does
  alert,      \* "inactive", "firing", "over", and "told" once the receiver knows
  awaited,    \* the request it waits for, as a set
  logged,     \* the firing alerts of the last notification that succeeded
  accepted,   \* how many successful notifications said that an event fires
  faults      \* errors so far

api == <<incident, audit>>
alertmanager == <<key, alert, awaited, logged, accepted>>
vars == <<api, request, alertmanager, faults>>

Active == {"firing", "acknowledged", "processing"}
NoRow == [status |-> "absent", resolved |-> FALSE, count |-> 0,
          acknowledgedBy |-> NoUser, processingBy |-> NoUser, closedBy |-> NoUser]
NewRow == [NoRow EXCEPT !.count = 1]

\* A request: the alerts of its payload, how many are ingested, and whether the
\* UPDATE of Resolve found no row for the current one.
NoRequest == [alerts |-> <<>>, done |-> 0, missing |-> FALSE]
Busy(r) == request[r] # NoRequest

\* Faulty variant: the status of the first alert is taken for that of the group.
CurrentAsFirst(r) ==
  [request[r].alerts[request[r].done + 1] EXCEPT !.status = request[r].alerts[1].status]

Current(r) == request[r].alerts[request[r].done + 1]
Pending(r) == request[r].done < Len(request[r].alerts)

Plus1(n) == IF n < MaxCount THEN n + 1 ELSE n

Init ==
  /\ incident = [e \in Events |-> NoRow]
  /\ audit = [e \in Events |-> <<>>]
  /\ request = [r \in Requests |-> NoRequest]
  /\ key \in Keys
  /\ alert = [a \in Alerts |-> "inactive"]
  /\ awaited = {}
  /\ logged = {}
  /\ accepted = [e \in Events |-> 0]
  /\ faults = 0

Fault == faults < MaxFaults /\ faults' = faults + 1

----------------------------------------------------------------------------------
(* Prometheus and Alertmanager                                                  *)

\* An event: what all its alerts are about began at one evaluation.
Fire(e) ==
  LET begins == {a \in Alerts : key[a] = e}
  IN /\ begins # {}
     /\ \A a \in begins : alert[a] = "inactive"
     /\ alert' = [a \in Alerts |-> IF a \in begins THEN "firing" ELSE alert[a]]
     /\ UNCHANGED <<api, request, key, awaited, logged, accepted, faults>>

End(a) ==
  /\ alert[a] = "firing"
  /\ alert' = [alert EXCEPT ![a] = "over"]
  /\ UNCHANGED <<api, request, key, awaited, logged, accepted, faults>>

\* The alerts of the group: those that fire and those whose end is news.
Group == {a \in Alerts : alert[a] \in {"firing", "over"}}

Payload(a) == [alert |-> a, event |-> key[a],
               status |-> IF alert[a] = "firing" THEN "firing" ELSE "resolved"]

\* The group is posted, in any order, and posted again at every repeat_interval.
\* A group that only ended is posted if the last notification said it fires.
Notify(r) ==
  /\ awaited = {}
  /\ ~Busy(r)
  /\ Group # {}
  /\ logged # {} \/ \E a \in Group : alert[a] = "firing"
  /\ \E order \in [1..Cardinality(Group) -> Group] :
       /\ \A a \in Group : \E k \in DOMAIN order : order[k] = a
       /\ request' = [request EXCEPT ![r].alerts = [k \in DOMAIN order |-> Payload(order[k])]]
  /\ awaited' = {r}
  /\ UNCHANGED <<api, key, alert, logged, accepted, faults>>

\* No answer in time; the API may not notice.
StopWaiting(r) ==
  /\ r \in awaited
  /\ Fault
  /\ awaited' = {}
  /\ UNCHANGED <<api, request, key, alert, logged, accepted>>

----------------------------------------------------------------------------------
(* Service.Ingest                                                               *)

\* The current alert is ingested; on to the next.
Ingested(r) ==
  request' = [request EXCEPT ![r].done = @ + 1, ![r].missing = FALSE]

\* The request ends without success (400, or no answer at all).
Abort(r) ==
  /\ request' = [request EXCEPT ![r] = NoRequest]
  /\ awaited' = awaited \ {r}
  /\ UNCHANGED <<key, alert, logged, accepted>>

\* Faulty variant: INSERT IGNORE, a repeated notification is not counted.
FiringRowIgnored(row) ==
  IF row.status = "absent" THEN [NewRow EXCEPT !.status = "firing"] ELSE row

\* INSERT ... ON DUPLICATE KEY UPDATE: a repeated notification changes no status.
FiringRow(row) ==
  IF row.status = "absent" THEN [NewRow EXCEPT !.status = "firing"]
  ELSE [row EXCEPT !.count = Plus1(@)]

\* Repository.UpsertFiring.
UpsertFiring(r) ==
  LET e == Current(r).event
  IN /\ Busy(r) /\ Pending(r)
     /\ Current(r).status = "firing"
     /\ incident' = [incident EXCEPT ![e] = FiringRow(@)]
     /\ Ingested(r)
     /\ UNCHANGED <<audit, alertmanager, faults>>

\* Faulty variants: only what nobody acted on is resolved; a closed incident is
\* resolved once more.
ResolvedRowFiring(row) ==
  [row EXCEPT !.status = IF @ = "firing" THEN "resolved" ELSE @, !.resolved = TRUE]

ResolvedRowAlways(row) == [row EXCEPT !.status = "resolved", !.resolved = TRUE]

\* The UPDATE of Repository.Resolve: a closed incident stays closed.
ResolvedRow(row) ==
  [row EXCEPT !.status = IF @ = "closed" THEN @ ELSE "resolved", !.resolved = TRUE]

\* Repository.Resolve.  MySQL counts changed rows: an update that changes nothing
\* within the clock's millisecond looks like a missing row.
Resolve(r) ==
  LET e == Current(r).event
  IN /\ Busy(r) /\ Pending(r) /\ ~request[r].missing
     /\ Current(r).status = "resolved"
     /\ \/ /\ incident[e].status # "absent"
           /\ incident' = [incident EXCEPT ![e] = ResolvedRow(@)]
           /\ Ingested(r)
           /\ UNCHANGED faults
        \/ /\ \/ incident[e].status = "absent" /\ UNCHANGED faults
              \/ incident[e] = ResolvedRow(incident[e]) /\ incident[e].status # "absent" /\ Fault
           /\ request' = [request EXCEPT ![r].missing = TRUE]
           /\ UNCHANGED incident
     /\ UNCHANGED <<audit, alertmanager>>

\* Faulty variant: the resolution of an unknown event is dropped.
ResolveCreateNothing(r) ==
  /\ request[r].missing
  /\ Ingested(r)
  /\ UNCHANGED <<api, alertmanager, faults>>

\* ... else it inserts the row; one that is there by now is a duplicate key.
ResolveCreate(r) ==
  LET e == Current(r).event
  IN /\ request[r].missing
     /\ \/ /\ incident[e].status = "absent"
           /\ incident' = [incident EXCEPT ![e] =
                [NewRow EXCEPT !.status = "resolved", !.resolved = TRUE]]
           /\ Ingested(r)
           /\ UNCHANGED alertmanager
        \/ /\ incident[e].status # "absent"
           /\ Abort(r)
           /\ UNCHANGED incident
     /\ UNCHANGED <<audit, faults>>

\* A statement fails, the request is cancelled, or the API process dies; the
\* alerts before it stay ingested.
Fail(r) ==
  /\ Busy(r)
  /\ Fault
  /\ Abort(r)
  /\ UNCHANGED api

\* Handler.Webhook answers 200.  Alertmanager, if it still waits, drops the
\* alerts it reported as resolved.
Succeed(r) ==
  LET said(status) == {p \in Range(request[r].alerts) : p.status = status}
  IN /\ Busy(r) /\ ~Pending(r)
     /\ request' = [request EXCEPT ![r] = NoRequest]
     /\ IF r \in awaited
        THEN /\ alert' = [a \in Alerts |-> IF \E p \in said("resolved") : p.alert = a
                                           THEN "told" ELSE alert[a]]
             /\ logged' = {p.alert : p \in said("firing")}
             /\ accepted' = [e \in Events |-> IF \E p \in said("firing") : p.event = e
                                              THEN Plus1(accepted[e]) ELSE accepted[e]]
             /\ awaited' = {}
             /\ UNCHANGED key
        ELSE UNCHANGED alertmanager
     /\ UNCHANGED <<api, faults>>

----------------------------------------------------------------------------------
(* Users.  The page a user looks at may be out of date: the action is offered   *)
(* for any incident, and Transition changes it only in the right state.         *)

\* Repository.Transition: the conditional UPDATE and the audit entry commit
\* together, or nothing happens (ErrConflict).
Transition(e, from, row, entry) ==
  /\ incident[e].status \in from
  /\ incident' = [incident EXCEPT ![e] = row]
  /\ audit' = [audit EXCEPT ![e] = Append(@, entry)]
  /\ UNCHANGED <<request, alertmanager, faults>>

Acknowledge(e, u) ==
  Transition(e, {"firing"},
    [incident[e] EXCEPT !.status = "acknowledged", !.acknowledgedBy = u],
    <<"incident.acknowledge", u>>)

Process(e, u) ==
  Transition(e, {"firing", "acknowledged"},
    [incident[e] EXCEPT !.status = "processing", !.processingBy = u],
    <<"incident.process", u>>)

Close(e, u) ==
  Transition(e, {"resolved"},
    [incident[e] EXCEPT !.status = "closed", !.closedBy = u],
    <<"incident.close", u>>)

----------------------------------------------------------------------------------
Serve(r) ==
  \/ UpsertFiring(r)
  \/ Resolve(r)
  \/ ResolveCreate(r)
  \/ Succeed(r)

Next ==
  \/ \E e \in Events : Fire(e) \/ \E u \in Users : Acknowledge(e, u) \/ Process(e, u) \/ Close(e, u)
  \/ \E a \in Alerts : End(a)
  \/ \E r \in Requests : Notify(r) \/ StopWaiting(r) \/ Serve(r) \/ Fail(r)

Spec == Init /\ [][Next]_vars

(* A request that can go on does, and Alertmanager repeats its notifications    *)
(* (repeat_interval, group_interval).  Errors end; alerts and users owe nothing.*)
Fairness ==
  /\ \A r \in Requests : WF_vars(Serve(r))
  /\ WF_vars(\E r \in Requests : Notify(r))

FairSpec == Spec /\ Fairness

----------------------------------------------------------------------------------
(* Properties                                                                   *)

Row == [status : {"absent", "resolved", "closed"} \cup Active, resolved : BOOLEAN,
        count : 0..MaxCount, acknowledgedBy : Users \cup {NoUser},
        processingBy : Users \cup {NoUser}, closedBy : Users \cup {NoUser}]
Entry == {"incident.acknowledge", "incident.process", "incident.close"} \X Users

\* The domain of every variable.
TypeOK ==
  /\ incident \in [Events -> Row]
  /\ audit \in [Events -> Seq(Entry)]
  /\ \A r \in Requests :
       /\ request[r].alerts \in Seq([alert : Alerts, event : Events, status : {"firing", "resolved"}])
       /\ request[r].done \in 0..Len(request[r].alerts)
       /\ request[r].missing \in BOOLEAN
  /\ key \in [Alerts -> Events]
  /\ alert \in [Alerts -> {"inactive", "firing", "over", "told"}]
  /\ awaited \in SUBSET Requests
  /\ logged \in SUBSET Alerts
  /\ accepted \in [Events -> 0..MaxCount]
  /\ faults \in 0..MaxFaults

\* A resolution that Alertmanager was told is known, so that it will not repeat
\* it, is in the database: no partial failure answers 200, and no notification
\* that was overtaken undoes it.
ToldIsResolved ==
  \A a \in Alerts : alert[a] = "told" => incident[key[a]].status \in {"resolved", "closed"}

\* docs/demo.md:38, :52: an incident is there because an alert of this key fired, and
\* is resolved because one of them ended, however requests overtake one another.
\* Others of the key may go on firing: Resolve does not ask, UpsertFiring does not reopen.
RestsOnAlerts ==
  \A e \in Events :
    /\ incident[e].status # "absent" => \E a \in Alerts : key[a] = e /\ alert[a] # "inactive"
    /\ incident[e].resolved => \E a \in Alerts : key[a] = e /\ alert[a] \in {"over", "told"}

\* docs/demo.md:38: a repeated notification counts on the same incident.  Every
\* one that was answered with 200 is counted.
AcceptedIsCounted == \A e \in Events : accepted[e] <= incident[e].count

\* The columns of a row and its audit entries tell the same story, whoever raced
\* with whom: who acted last in each role, and that each acted only once.
AuditTellsWho ==
  \A e \in Events :
    LET by(what, u) == \E k \in 1..Len(audit[e]) : audit[e][k] = <<what, u>>
        row == incident[e]
    IN /\ \A j, k \in 1..Len(audit[e]) : audit[e][j][1] = audit[e][k][1] => j = k
       /\ \A u \in Users :
            /\ by("incident.acknowledge", u) <=> row.acknowledgedBy = u
            /\ by("incident.process", u) <=> row.processingBy = u
            /\ by("incident.close", u) <=> row.closedBy = u
       /\ row.closedBy # NoUser => row.resolved /\ row.status = "closed"

\* docs/api.md:26, as an abstract specification.
state == [e \in Events |-> incident[e].status]
Lifecycle == INSTANCE IncidentLifecycle WITH trail <- audit
ImplementsLifecycle == Lifecycle!Spec

\* An alert that Alertmanager reported as firing, and that ended, resolves its
\* incident, whatever requests failed, were lost or overtook each other.
EventuallyResolved ==
  \A a \in Alerts :
    (alert[a] = "over" /\ a \in logged) ~> incident[key[a]].status \in {"resolved", "closed"}
===================================================================================
