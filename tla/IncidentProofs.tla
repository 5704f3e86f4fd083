------------------------------ MODULE IncidentProofs ------------------------------
(* The safety properties of Incident, for any number of alerts, users, requests *)
(* and errors, and that it implements IncidentLifecycle.                        *)
EXTENDS Incident, FiniteSetTheorems, SequenceTheorems, TLAPS

Alert == [alert : Alerts, event : Events, status : {"firing", "resolved"}]
RequestType == [alerts : Seq(Alert), done : Nat, missing : BOOLEAN]
Over == {"resolved", "closed"}

\* A request is a record of its alerts; it looks for a missing row only while it
\* ingests a resolved alert.
Typed ==
  /\ TypeOK
  /\ request \in [Requests -> RequestType]
  /\ \A r \in Requests :
       request[r].missing => Pending(r) /\ Current(r).status = "resolved"

\* What a row and its audit entries say of each other.  It adds to AuditTellsWho
\* how far the status is, as that is what keeps a user from acting twice.
By(trail, what, u) == \E k \in 1..Len(trail) : trail[k] = <<what, u>>

Agree(row, trail) ==
  /\ row.status = "absent" => row = NoRow /\ trail = <<>>
  /\ row.status \in Over => row.resolved
  /\ row.acknowledgedBy # NoUser => row.status \notin {"absent", "firing"}
  /\ row.processingBy # NoUser => row.status \notin {"absent", "firing", "acknowledged"}
  /\ row.closedBy # NoUser => row.status = "closed"
  /\ \A j, k \in 1..Len(trail) : trail[j][1] = trail[k][1] => j = k
  /\ \A u \in Users :
       /\ By(trail, "incident.acknowledge", u) <=> row.acknowledgedBy = u
       /\ By(trail, "incident.process", u) <=> row.processingBy = u
       /\ By(trail, "incident.close", u) <=> row.closedBy = u

RowsAgree == \A e \in Events : Agree(incident[e], audit[e])

\* Alertmanager waits for one request; what any request ingested as resolved is
\* over, and what the awaited one ingested as firing is counted once more than
\* Alertmanager knows of.
Ingestion ==
  /\ \A r, s \in awaited : r = s
  /\ \A r \in Requests : \A k \in 1..request[r].done :
       LET a == request[r].alerts[k]
       IN /\ a.status = "resolved" => incident[a.event].status \in Over
          /\ a.status = "firing" /\ r \in awaited =>
               Plus1(accepted[a.event]) <= incident[a.event].count
  /\ ToldIsResolved
  /\ AcceptedIsCounted

\* A request says of alerts what was so when it was posted, and an alert goes one
\* way: from inactive over firing to its end.
Ended == {"over", "told"}

PayloadTrue(p) ==
  /\ p.event = key[p.alert]
  /\ alert[p.alert] # "inactive"
  /\ p.status = "resolved" => alert[p.alert] \in Ended

PayloadsTrue ==
  \A r \in Requests : \A k \in 1..Len(request[r].alerts) : PayloadTrue(request[r].alerts[k])

IInv == Typed /\ RowsAgree /\ Ingestion /\ PayloadsTrue /\ RestsOnAlerts

----------------------------------------------------------------------------------
(* Types                                                                        *)

LEMMA CurrentType ==
  ASSUME Typed, NEW r \in Requests, Pending(r)
  PROVE  /\ request[r].done + 1 \in 1..Len(request[r].alerts)
         /\ Current(r) \in Alert
<1>1. request[r] \in RequestType
  BY DEF Typed
<1>2. request[r].done \in Nat /\ Len(request[r].alerts) \in Nat /\ request[r].alerts \in Seq(Alert)
  BY <1>1 DEF RequestType
<1>3. request[r].done + 1 \in 1..Len(request[r].alerts)
  BY <1>2 DEF Pending
<1> QED
  BY <1>2, <1>3 DEF Current

\* A request that moves on changes nothing but its place.
LEMMA IngestedFacts ==
  ASSUME Typed, NEW r \in Requests, Pending(r), Ingested(r)
  PROVE  /\ request' \in [Requests -> RequestType]
         /\ \A s \in Requests : s # r => request'[s] = request[s]
         /\ request'[r].alerts = request[r].alerts
         /\ request'[r].done = request[r].done + 1
         /\ ~request'[r].missing
         /\ \A s \in Requests : request'[s].done \in 0..Len(request'[s].alerts)
<1> DEFINE q == [request[r] EXCEPT !.done = @ + 1]
           p == [q EXCEPT !.missing = FALSE]
<1>1. request \in [Requests -> RequestType] /\ request[r] \in RequestType
  BY DEF Typed
<1>2. request' = [request EXCEPT ![r] = p]
  BY <1>1 DEF Ingested
<1>3. q \in RequestType /\ q.alerts = request[r].alerts /\ q.done = request[r].done + 1
  BY <1>1 DEF RequestType
<1> HIDE DEF q
<1>4. p \in RequestType /\ p.alerts = q.alerts /\ p.done = q.done /\ ~p.missing
  BY <1>3 DEF RequestType
<1> HIDE DEF p
<1>5. request' \in [Requests -> RequestType] /\ request'[r] = p
      /\ \A s \in Requests : s # r => request'[s] = request[s]
  BY <1>1, <1>2, <1>4
<1>6. request[r].done + 1 \in 0..Len(request[r].alerts)
  BY CurrentType
<1>7. \A s \in Requests : request[s].done \in 0..Len(request[s].alerts)
  BY DEF Typed, TypeOK
<1> QED
  BY <1>3, <1>4, <1>5, <1>6, <1>7

LEMMA TypedInit ==
  ASSUME Init
  PROVE  Typed
<1>1. NoRow \in Row
  BY IncidentAssumption DEF NoRow, Row
<1>2. NoRequest \in RequestType /\ NoRequest.missing = FALSE /\ NoRequest.done \in 0..Len(NoRequest.alerts)
      /\ NoRequest.alerts \in Seq(Alert)
  BY DEF NoRequest, RequestType
<1>3. \A r \in Requests : request[r] = NoRequest
  BY DEF Init
<1>4. request \in [Requests -> RequestType]
  BY <1>2, <1>3 DEF Init
<1>5. incident \in [Events -> Row] /\ audit \in [Events -> Seq(Entry)]
  BY <1>1 DEF Init
<1>6. TypeOK
  <2>1. 0 \in 0..MaxCount /\ 0 \in 0..MaxFaults
    BY IncidentAssumption
  <2>2. key \in [Alerts -> Events] /\ alert \in [Alerts -> {"inactive", "firing", "over", "told"}]
        /\ awaited \in SUBSET Requests
        /\ logged \in SUBSET Alerts /\ accepted \in [Events -> 0..MaxCount] /\ faults \in 0..MaxFaults
    BY <2>1, IncidentAssumption DEF Init
  <2>3. \A r \in Requests :
          /\ request[r].alerts \in Seq([alert : Alerts, event : Events, status : {"firing", "resolved"}])
          /\ request[r].done \in 0..Len(request[r].alerts)
          /\ request[r].missing \in BOOLEAN
    BY <1>2, <1>3 DEF Alert
  <2> QED
    BY <1>5, <2>2, <2>3 DEF TypeOK
<1> QED
  BY <1>2, <1>3, <1>4, <1>6 DEF Typed

\* The parts of the type invariant that actions disturb on their own.
RequestsTyped ==
  /\ request \in [Requests -> RequestType]
  /\ \A r \in Requests :
       /\ request[r].done \in 0..Len(request[r].alerts)
       /\ request[r].missing => Pending(r) /\ Current(r).status = "resolved"

RowsTyped == incident \in [Events -> Row] /\ audit \in [Events -> Seq(Entry)]

SenderTyped ==
  /\ key \in [Alerts -> Events]
  /\ alert \in [Alerts -> {"inactive", "firing", "over", "told"}]
  /\ awaited \in SUBSET Requests
  /\ logged \in SUBSET Alerts
  /\ accepted \in [Events -> 0..MaxCount]
  /\ faults \in 0..MaxFaults

LEMMA TypedParts == Typed <=> RequestsTyped /\ RowsTyped /\ SenderTyped
<1>1. ASSUME RequestsTyped
      PROVE  \A r \in Requests :
               /\ request[r].alerts \in Seq([alert : Alerts, event : Events, status : {"firing", "resolved"}])
               /\ request[r].missing \in BOOLEAN
  BY <1>1 DEF RequestsTyped, RequestType, Alert
<1> QED
  BY <1>1 DEF Typed, TypeOK, RequestsTyped, RowsTyped, SenderTyped

LEMMA TypedPartsPrime == Typed' <=> RequestsTyped' /\ RowsTyped' /\ SenderTyped'
<1>1. ASSUME RequestsTyped'
      PROVE  \A r \in Requests :
               /\ request'[r].alerts \in Seq([alert : Alerts, event : Events, status : {"firing", "resolved"}])
               /\ request'[r].missing \in BOOLEAN
  BY <1>1 DEF RequestsTyped, RequestType, Alert
<1> QED
  BY <1>1 DEF Typed, TypeOK, RequestsTyped, RowsTyped, SenderTyped

\* What may happen to the requests, and that it keeps their type.
LEMMA RequestsIngested ==
  ASSUME Typed, NEW r \in Requests, Pending(r), Ingested(r)
  PROVE  RequestsTyped'
BY IngestedFacts DEF RequestsTyped, Typed, Pending, Current

LEMMA RequestsReset ==
  ASSUME Typed, NEW r \in Requests, request' = [request EXCEPT ![r] = NoRequest]
  PROVE  RequestsTyped'
<1>1. NoRequest \in RequestType /\ ~NoRequest.missing /\ NoRequest.done \in 0..Len(NoRequest.alerts)
  BY DEF NoRequest, RequestType
<1> QED
  BY <1>1, TypedParts DEF RequestsTyped, Pending, Current

LEMMA RequestsMissing ==
  ASSUME Typed, NEW r \in Requests, Pending(r), Current(r).status = "resolved",
         request' = [request EXCEPT ![r].missing = TRUE]
  PROVE  /\ RequestsTyped'
         /\ \A s \in Requests : request'[s].done = request[s].done
                                /\ request'[s].alerts = request[s].alerts
<1> DEFINE p == [request[r] EXCEPT !.missing = TRUE]
<1>1. request \in [Requests -> RequestType] /\ request[r] \in RequestType
  BY DEF Typed
<1>2. p \in RequestType /\ p.alerts = request[r].alerts /\ p.done = request[r].done
  BY <1>1 DEF RequestType
<1>3. request' = [request EXCEPT ![r] = p]
  BY <1>1
<1> HIDE DEF p
<1>4. request' \in [Requests -> RequestType] /\ request'[r] = p
      /\ \A s \in Requests : s # r => request'[s] = request[s]
  BY <1>1, <1>2, <1>3
<1> QED
  BY <1>2, <1>4, TypedParts DEF RequestsTyped, Pending, Current

LEMMA RequestsNotified ==
  ASSUME Typed, NEW r \in Requests, Notify(r)
  PROVE  /\ RequestsTyped'
         /\ request'[r].done = 0
         /\ \A s \in Requests : s # r => request'[s] = request[s]
<1>1. request \in [Requests -> RequestType] /\ request[r] = NoRequest
  BY DEF Typed, Notify, Busy
<1>2. IsFiniteSet(Group) /\ Cardinality(Group) \in Nat
  BY IncidentAssumption, FS_Subset, FS_CardinalityType DEF Group
<1>3. PICK order \in [1..Cardinality(Group) -> Group] :
        request' = [request EXCEPT ![r].alerts = [k \in DOMAIN order |-> Payload(order[k])]]
  BY DEF Notify
<1> DEFINE list == [k \in DOMAIN order |-> Payload(order[k])]
           p == [NoRequest EXCEPT !.alerts = list]
<1>4. DOMAIN order = 1..Cardinality(Group) /\ \A k \in DOMAIN order : order[k] \in Alerts
  BY DEF Group
<1>5. list \in [1..Cardinality(Group) -> Alert]
  BY <1>4, TypedParts DEF Alert, Payload, SenderTyped
<1>6. list \in Seq(Alert) /\ Len(list) \in Nat
  BY <1>2, <1>5
<1>7. request' = [request EXCEPT ![r] = p]
  BY <1>1, <1>3
<1> HIDE DEF list
<1>8. p \in RequestType /\ p.alerts = list /\ p.done = 0 /\ ~p.missing
  BY <1>6 DEF NoRequest, RequestType
<1> HIDE DEF p
<1>9. request' \in [Requests -> RequestType] /\ request'[r] = p
      /\ \A s \in Requests : s # r => request'[s] = request[s]
  BY <1>1, <1>7, <1>8
<1>10. p.done \in 0..Len(p.alerts)
  BY <1>6, <1>8
<1> QED
  BY ONLY <1>8, <1>9, <1>10, Typed, TypedParts, r \in Requests DEF RequestsTyped, Pending, Current

----------------------------------------------------------------------------------
(* Rows                                                                         *)

\* A row only gets further: it stays over, and its count does not decrease.
Forward(row, new) ==
  /\ new \in Row
  /\ row.status \in Over => new.status \in Over
  /\ row.count <= new.count

\* What every action does to a row and its trail.
RowOK(row, trail, new, trail2) ==
  /\ trail2 \in Seq(Entry)
  /\ Forward(row, new)
  /\ Agree(new, trail2)

LEMMA RowSame ==
  ASSUME NEW row \in Row, NEW trail \in Seq(Entry), Agree(row, trail)
  PROVE  RowOK(row, trail, row, trail)
BY IncidentAssumption DEF RowOK, Forward, Row

LEMMA RowOpened ==
  ASSUME NEW row \in Row, NEW trail \in Seq(Entry), Agree(row, trail), row.status = "absent",
         NEW new \in {[NewRow EXCEPT !.status = "firing"],
                      [NewRow EXCEPT !.status = "resolved", !.resolved = TRUE]}
  PROVE  RowOK(row, trail, new, trail) /\ new.count = 1 /\ new.status \in {"firing", "resolved"}
<1>1. trail = <<>> /\ row = NoRow
  BY DEF Agree
<1>2. NewRow \in Row /\ NewRow.count = 1 /\ NewRow.acknowledgedBy = NoUser
      /\ NewRow.processingBy = NoUser /\ NewRow.closedBy = NoUser
  <2>1. NoRow \in Row /\ NoRow.acknowledgedBy = NoUser
        /\ NoRow.processingBy = NoUser /\ NoRow.closedBy = NoUser
    BY IncidentAssumption DEF NoRow, Row
  <2> HIDE DEF NoRow
  <2> QED
    BY <2>1, IncidentAssumption DEF NewRow, Row
<1> HIDE DEF NewRow
<1>3. new.status \in {"firing", "resolved"} /\ new.count = 1 /\ new.acknowledgedBy = NoUser
      /\ new.processingBy = NoUser /\ new.closedBy = NoUser
      /\ (new.status = "resolved" => new.resolved) /\ new \in Row
  <2>1. CASE new = [NewRow EXCEPT !.status = "firing"]
    BY <1>2, <2>1 DEF Row, Active
  <2>2. CASE new = [NewRow EXCEPT !.status = "resolved", !.resolved = TRUE]
    <3> DEFINE mid == [NewRow EXCEPT !.status = "resolved"]
    <3>1. mid \in Row /\ mid.status = "resolved" /\ mid.count = 1 /\ mid.acknowledgedBy = NoUser
          /\ mid.processingBy = NoUser /\ mid.closedBy = NoUser
      BY <1>2 DEF Row
    <3>2. new = [mid EXCEPT !.resolved = TRUE]
      BY <2>2
    <3> HIDE DEF mid
    <3> QED
      BY <3>1, <3>2 DEF Row
  <2> QED
    BY <2>1, <2>2
<1>4. Forward(row, new)
  BY <1>1, <1>3 DEF Forward, NoRow, Over
<1>5. Len(trail) = 0 /\ \A what, u : ~By(trail, what, u)
  BY <1>1 DEF By
<1>6. Agree(new, trail)
  BY <1>3, <1>5, IncidentAssumption DEF Agree, Over
<1> QED
  BY <1>3, <1>4, <1>6 DEF RowOK

LEMMA RowCounted ==
  ASSUME NEW row \in Row, NEW trail \in Seq(Entry), Agree(row, trail), row.status # "absent"
  PROVE  LET new == [row EXCEPT !.count = Plus1(@)]
         IN  /\ RowOK(row, trail, new, trail)
             /\ new.count = Plus1(row.count)
             /\ new.status = row.status
<1> DEFINE new == [row EXCEPT !.count = Plus1(@)]
<1>1. Plus1(row.count) \in 0..MaxCount /\ row.count <= Plus1(row.count)
  BY IncidentAssumption DEF Row, Plus1
<1>2. new \in Row /\ new.count = Plus1(row.count) /\ new.status = row.status
      /\ (new.resolved <=> row.resolved) /\ new.acknowledgedBy = row.acknowledgedBy
      /\ new.processingBy = row.processingBy /\ new.closedBy = row.closedBy
  BY <1>1 DEF Row
<1> HIDE DEF new
<1>3. Agree(new, trail)
  BY <1>2 DEF Agree
<1>4. Forward(row, new)
  BY <1>1, <1>2 DEF Forward
<1> QED
  BY <1>2, <1>3, <1>4 DEF RowOK, new

LEMMA RowResolved ==
  ASSUME NEW row \in Row, NEW trail \in Seq(Entry), Agree(row, trail), row.status # "absent"
  PROVE  /\ RowOK(row, trail, ResolvedRow(row), trail)
         /\ ResolvedRow(row).status = IF row.status = "closed" THEN "closed" ELSE "resolved"
<1> DEFINE to == IF row.status = "closed" THEN row.status ELSE "resolved"
           mid == [row EXCEPT !.status = to]
           new == [mid EXCEPT !.resolved = TRUE]
<1>1. ResolvedRow(row) = new
  BY DEF ResolvedRow
<1>2. to \in Over
  BY DEF Over
<1> HIDE DEF to
<1>3. mid \in Row /\ mid.count = row.count /\ mid.status = to
      /\ mid.acknowledgedBy = row.acknowledgedBy
      /\ mid.processingBy = row.processingBy /\ mid.closedBy = row.closedBy
  BY <1>2 DEF Row, Over
<1> HIDE DEF mid
<1>4. new \in Row /\ new.count = mid.count /\ new.status = mid.status /\ new.resolved
      /\ new.acknowledgedBy = mid.acknowledgedBy
      /\ new.processingBy = mid.processingBy /\ new.closedBy = mid.closedBy
  BY <1>3 DEF Row
<1> HIDE DEF new
<1>5. Forward(row, new)
  BY <1>2, <1>3, <1>4, IncidentAssumption DEF Forward, Row
<1>6. new.closedBy # NoUser => to = "closed"
  BY <1>3, <1>4 DEF Agree, to
<1>7. Agree(new, trail)
  BY <1>2, <1>3, <1>4, <1>6 DEF Agree, Over
<1> QED
  BY <1>1, <1>3, <1>4, <1>5, <1>7 DEF RowOK, to

\* An entry of a kind that the trail does not have yet.
LEMMA Appended ==
  ASSUME NEW trail \in Seq(Entry), NEW what \in {"incident.acknowledge", "incident.process", "incident.close"},
         NEW u \in Users, \A v \in Users : ~By(trail, what, v),
         \A j, k \in 1..Len(trail) : trail[j][1] = trail[k][1] => j = k
  PROVE  LET new == Append(trail, <<what, u>>)
         IN  /\ new \in Seq(Entry)
             /\ \A j, k \in 1..Len(new) : new[j][1] = new[k][1] => j = k
             /\ \A x, v : By(new, x, v) <=> By(trail, x, v) \/ <<x, v>> = <<what, u>>
<1> DEFINE new == Append(trail, <<what, u>>)
<1>1. <<what, u>> \in Entry
  BY DEF Entry
<1>2. new \in Seq(Entry) /\ Len(new) = Len(trail) + 1 /\ Len(trail) \in Nat
      /\ new[Len(trail) + 1] = <<what, u>>
      /\ \A k \in 1..Len(trail) : new[k] = trail[k]
  BY <1>1, AppendProperties
<1> HIDE DEF new
<1>3. \A k \in 1..Len(trail) : trail[k][1] # what
  <2>1. SUFFICES ASSUME NEW k \in 1..Len(trail), trail[k][1] = what
                 PROVE  FALSE
    OBVIOUS
  <2>2. trail[k] \in Entry
    BY ElementOfSeq
  <2>3. trail[k][2] \in Users /\ trail[k] = <<what, trail[k][2]>>
    BY <2>1, <2>2 DEF Entry
  <2> QED
    BY <2>3 DEF By
<1>4. \A j, k \in 1..Len(new) : new[j][1] = new[k][1] => j = k
  BY <1>2, <1>3
<1>5. \A x, v : By(new, x, v) <=> By(trail, x, v) \/ <<x, v>> = <<what, u>>
  <2> SUFFICES ASSUME NEW x, NEW v
               PROVE  By(new, x, v) <=> By(trail, x, v) \/ <<x, v>> = <<what, u>>
    OBVIOUS
  <2>1. 1..Len(new) = 1..Len(trail) \cup {Len(trail) + 1}
    BY <1>2
  <2>2. ASSUME By(trail, x, v) PROVE By(new, x, v)
    BY <1>2, <2>1, <2>2 DEF By
  <2>3. ASSUME <<x, v>> = <<what, u>> PROVE By(new, x, v)
    <3>1. new[Len(trail) + 1] = <<x, v>>
      BY <1>2, <2>3
    <3> QED
      BY <2>1, <3>1 DEF By
  <2>4. ASSUME By(new, x, v), ~By(trail, x, v) PROVE <<x, v>> = <<what, u>>
    <3>1. PICK k \in 1..Len(new) : new[k] = <<x, v>>
      BY <2>4 DEF By
    <3>2. k \notin 1..Len(trail)
      BY <1>2, <2>4, <3>1 DEF By
    <3> QED
      BY <1>2, <2>1, <3>1, <3>2
  <2> QED
    BY <2>2, <2>3, <2>4
<1> QED
  BY <1>2, <1>4, <1>5 DEF new

LEMMA RowAcknowledged ==
  ASSUME NEW row \in Row, NEW trail \in Seq(Entry), Agree(row, trail), NEW u \in Users,
         row.status \in {"firing"}
  PROVE  RowOK(row, trail, [row EXCEPT !.status = "acknowledged", !.acknowledgedBy = u],
               Append(trail, <<"incident.acknowledge", u>>))
<1> DEFINE mid == [row EXCEPT !.status = "acknowledged"]
           new == [mid EXCEPT !.acknowledgedBy = u]
           trail2 == Append(trail, <<"incident.acknowledge", u>>)
<1>1. row.acknowledgedBy = NoUser /\ row.processingBy = NoUser /\ row.closedBy = NoUser
  BY DEF Agree
<1>2. \A v \in Users : ~By(trail, "incident.acknowledge", v)
  BY <1>1, IncidentAssumption DEF Agree
<1>3. /\ trail2 \in Seq(Entry)
      /\ \A j, k \in 1..Len(trail2) : trail2[j][1] = trail2[k][1] => j = k
      /\ \A x, v : By(trail2, x, v) <=> By(trail, x, v) \/ <<x, v>> = <<"incident.acknowledge", u>>
  BY <1>2, Appended DEF Agree
<1> HIDE DEF trail2
<1>4. mid \in Row /\ mid.count = row.count /\ mid.status = "acknowledged"
      /\ mid.processingBy = NoUser /\ mid.closedBy = NoUser
  BY <1>1 DEF Row, Active
<1> HIDE DEF mid
<1>5. new \in Row /\ new.count = row.count /\ new.status = "acknowledged"
      /\ new.acknowledgedBy = u /\ new.processingBy = NoUser /\ new.closedBy = NoUser
  BY <1>4 DEF Row
<1> HIDE DEF new
<1>6. Agree(new, trail2)
  BY <1>1, <1>2, <1>3, <1>5, IncidentAssumption DEF Agree, Over
<1>7. Forward(row, new)
  BY <1>5, IncidentAssumption DEF Forward, Over, Row
<1> QED
  BY <1>3, <1>6, <1>7 DEF RowOK, new, mid, trail2

LEMMA RowProcessed ==
  ASSUME NEW row \in Row, NEW trail \in Seq(Entry), Agree(row, trail), NEW u \in Users,
         row.status \in {"firing", "acknowledged"}
  PROVE  RowOK(row, trail, [row EXCEPT !.status = "processing", !.processingBy = u],
               Append(trail, <<"incident.process", u>>))
<1> DEFINE mid == [row EXCEPT !.status = "processing"]
           new == [mid EXCEPT !.processingBy = u]
           trail2 == Append(trail, <<"incident.process", u>>)
<1>1. row.processingBy = NoUser /\ row.closedBy = NoUser
  BY DEF Agree
<1>2. \A v \in Users : ~By(trail, "incident.process", v)
  BY <1>1, IncidentAssumption DEF Agree
<1>3. /\ trail2 \in Seq(Entry)
      /\ \A j, k \in 1..Len(trail2) : trail2[j][1] = trail2[k][1] => j = k
      /\ \A x, v : By(trail2, x, v) <=> By(trail, x, v) \/ <<x, v>> = <<"incident.process", u>>
  BY <1>2, Appended DEF Agree
<1> HIDE DEF trail2
<1>4. mid \in Row /\ mid.count = row.count /\ mid.status = "processing"
      /\ mid.acknowledgedBy = row.acknowledgedBy /\ mid.closedBy = NoUser
  BY <1>1 DEF Row, Active
<1> HIDE DEF mid
<1>5. new \in Row /\ new.count = row.count /\ new.status = "processing"
      /\ new.acknowledgedBy = row.acknowledgedBy /\ new.processingBy = u /\ new.closedBy = NoUser
  BY <1>4 DEF Row
<1> HIDE DEF new
<1>6. Agree(new, trail2)
  BY <1>1, <1>2, <1>3, <1>5, IncidentAssumption DEF Agree, Over
<1>7. Forward(row, new)
  BY <1>5, IncidentAssumption DEF Forward, Over, Row
<1> QED
  BY <1>3, <1>6, <1>7 DEF RowOK, new, mid, trail2

LEMMA RowClosed ==
  ASSUME NEW row \in Row, NEW trail \in Seq(Entry), Agree(row, trail), NEW u \in Users,
         row.status \in {"resolved"}
  PROVE  RowOK(row, trail, [row EXCEPT !.status = "closed", !.closedBy = u],
               Append(trail, <<"incident.close", u>>))
<1> DEFINE mid == [row EXCEPT !.status = "closed"]
           new == [mid EXCEPT !.closedBy = u]
           trail2 == Append(trail, <<"incident.close", u>>)
<1>1. row.closedBy = NoUser /\ row.resolved
  BY DEF Agree, Over
<1>2. \A v \in Users : ~By(trail, "incident.close", v)
  BY <1>1, IncidentAssumption DEF Agree
<1>3. /\ trail2 \in Seq(Entry)
      /\ \A j, k \in 1..Len(trail2) : trail2[j][1] = trail2[k][1] => j = k
      /\ \A x, v : By(trail2, x, v) <=> By(trail, x, v) \/ <<x, v>> = <<"incident.close", u>>
  BY <1>2, Appended DEF Agree
<1> HIDE DEF trail2
<1>4. mid \in Row /\ mid.count = row.count /\ mid.status = "closed" /\ mid.resolved
      /\ mid.acknowledgedBy = row.acknowledgedBy /\ mid.processingBy = row.processingBy
  BY <1>1 DEF Row
<1> HIDE DEF mid
<1>5. new \in Row /\ new.count = row.count /\ new.status = "closed" /\ new.resolved
      /\ new.acknowledgedBy = row.acknowledgedBy /\ new.processingBy = row.processingBy
      /\ new.closedBy = u
  BY <1>4 DEF Row
<1> HIDE DEF new
<1>6. Agree(new, trail2)
  BY <1>1, <1>2, <1>3, <1>5, IncidentAssumption DEF Agree, Over
<1>7. Forward(row, new)
  BY <1>5, IncidentAssumption DEF Forward, Over, Row
<1> QED
  BY <1>3, <1>6, <1>7 DEF RowOK, new, mid, trail2

----------------------------------------------------------------------------------
(* Steps                                                                        *)

\* The abstract specification, and one of its steps or a stutter.
LifecycleStep == Lifecycle!Next \/ UNCHANGED <<state, audit>>

\* All rows and trails after a step, and what it means for the life cycle.
RowsAdvance ==
  /\ RowsTyped' /\ RowsAgree'
  /\ \A d \in Events : Forward(incident[d], incident'[d])
  /\ LifecycleStep

LEMMA RowsKept ==
  ASSUME Typed, RowsAgree, UNCHANGED api
  PROVE  RowsAdvance
<1>1. \A d \in Events : Forward(incident[d], incident[d])
  BY RowSame, TypedParts DEF RowsTyped, RowsAgree, RowOK
<1> QED
  BY <1>1, TypedParts DEF RowsAdvance, RowsTyped, RowsAgree, Agree, api, LifecycleStep, state

LEMMA RowsMove ==
  ASSUME Typed, RowsAgree, NEW e \in Events, NEW new, NEW trail2,
         RowOK(incident[e], audit[e], new, trail2),
         incident' = [incident EXCEPT ![e] = new], audit' = [audit EXCEPT ![e] = trail2]
  PROVE  /\ RowsTyped' /\ RowsAgree'
         /\ \A d \in Events : Forward(incident[d], incident'[d])
         /\ state' = [state EXCEPT ![e] = new.status]
<1>1. RowsTyped
  BY TypedParts
<1>2. new \in Row /\ trail2 \in Seq(Entry)
  BY DEF RowOK, Forward
<1>3. incident' \in [Events -> Row] /\ incident'[e] = new
      /\ audit' \in [Events -> Seq(Entry)] /\ audit'[e] = trail2
      /\ \A d \in Events : d # e => incident'[d] = incident[d] /\ audit'[d] = audit[d]
  BY <1>1, <1>2 DEF RowsTyped
<1>4. \A d \in Events : Forward(incident[d], incident'[d]) /\ Agree(incident'[d], audit'[d])
  <2>1. SUFFICES ASSUME NEW d \in Events
                 PROVE  RowOK(incident[d], audit[d], incident'[d], audit'[d])
    BY DEF RowOK
  <2>2. CASE d = e
    BY <1>3, <2>2
  <2>3. CASE d # e
    BY <1>1, <1>3, <2>3, RowSame DEF RowsTyped, RowsAgree
  <2> QED
    BY <2>2, <2>3
<1>5. state' = [state EXCEPT ![e] = new.status]
  BY <1>3 DEF state
<1> QED
  BY <1>3, <1>4, <1>5 DEF RowsTyped, RowsAgree, Agree, By

LEMMA UpsertAdvances ==
  ASSUME Typed, RowsAgree, NEW r \in Requests, UpsertFiring(r)
  PROVE  /\ RowsAdvance
         /\ Plus1(incident[Current(r).event].count) <= incident'[Current(r).event].count
<1> DEFINE e == Current(r).event
           new == FiringRow(incident[e])
<1>1. e \in Events
  BY CurrentType DEF UpsertFiring, Alert
<1>2. incident[e] \in Row /\ audit[e] \in Seq(Entry) /\ Agree(incident[e], audit[e])
  BY <1>1, TypedParts DEF RowsTyped, RowsAgree
<1>3. RowOK(incident[e], audit[e], new, audit[e]) /\ Plus1(incident[e].count) <= new.count
      /\ (incident[e].status = "absent" => new.status \in {"firing", "resolved"})
      /\ (incident[e].status # "absent" => new.status = incident[e].status)
  <2>1. CASE incident[e].status = "absent"
    <3>1. incident[e].count = 0
      BY <1>2, <2>1 DEF Agree, NoRow
    <3>2. Plus1(0) = 1
      BY IncidentAssumption DEF Plus1
    <3>3. RowOK(incident[e], audit[e], new, audit[e]) /\ new.count = 1
          /\ new.status \in {"firing", "resolved"}
      BY <1>2, <2>1, RowOpened DEF FiringRow
    <3> QED
      BY <2>1, <3>1, <3>2, <3>3
  <2>2. CASE incident[e].status # "absent"
    <3>1. Plus1(incident[e].count) \in Nat
      BY <1>2, IncidentAssumption DEF Plus1, Row
    <3> QED
      BY <1>2, <2>2, <3>1, RowCounted DEF FiringRow
  <2> QED
    BY <2>1, <2>2
<1>4. incident' = [incident EXCEPT ![e] = new] /\ audit' = [audit EXCEPT ![e] = audit[e]]
      /\ audit' = audit
  <2>1. incident' = [incident EXCEPT ![e] = new] /\ audit' = audit
    BY DEF UpsertFiring
  <2>2. audit \in [Events -> Seq(Entry)]
    BY TypedParts DEF RowsTyped
  <2> HIDE DEF new
  <2> QED
    BY <2>1, <2>2
<1> HIDE DEF new, e
<1>5. RowsTyped' /\ RowsAgree' /\ (\A d \in Events : Forward(incident[d], incident'[d]))
      /\ state' = [state EXCEPT ![e] = new.status]
  BY <1>1, <1>3, <1>4, RowsMove
<1>6. LifecycleStep
  <2>1. CASE incident[e].status = "absent"
    BY <1>1, <1>3, <1>4, <1>5, <2>1 DEF LifecycleStep, state, Lifecycle!Next, Lifecycle!Open
  <2>2. CASE incident[e].status # "absent"
    BY <1>1, <1>3, <1>4, <1>5, <2>2 DEF LifecycleStep, state
  <2> QED
    BY <2>1, <2>2
<1>7. incident'[e] = new
  BY <1>1, <1>4, TypedParts DEF RowsTyped
<1> QED
  BY <1>3, <1>5, <1>6, <1>7 DEF RowsAdvance, e

LEMMA ResolveAdvances ==
  ASSUME Typed, RowsAgree, NEW r \in Requests, Resolve(r), Ingested(r),
         incident[Current(r).event].status # "absent",
         incident' = [incident EXCEPT ![Current(r).event] = ResolvedRow(@)]
  PROVE  RowsAdvance /\ incident'[Current(r).event].status \in Over
<1> DEFINE e == Current(r).event
           new == ResolvedRow(incident[e])
<1>1. e \in Events
  BY CurrentType DEF Resolve, Alert
<1>2. incident[e] \in Row /\ audit[e] \in Seq(Entry) /\ Agree(incident[e], audit[e])
  BY <1>1, TypedParts DEF RowsTyped, RowsAgree
<1>3. RowOK(incident[e], audit[e], new, audit[e])
      /\ new.status = IF incident[e].status = "closed" THEN "closed" ELSE "resolved"
  BY <1>2, RowResolved
<1>4. incident' = [incident EXCEPT ![e] = new] /\ audit' = [audit EXCEPT ![e] = audit[e]]
      /\ audit' = audit
  <2>1. incident' = [incident EXCEPT ![e] = new] /\ audit' = audit
    BY DEF Resolve
  <2>2. audit \in [Events -> Seq(Entry)]
    BY TypedParts DEF RowsTyped
  <2> HIDE DEF new
  <2> QED
    BY <2>1, <2>2
<1>5. incident[e].status # "absent"
  OBVIOUS
<1> HIDE DEF new, e
<1>6. RowsTyped' /\ RowsAgree' /\ (\A d \in Events : Forward(incident[d], incident'[d]))
      /\ state' = [state EXCEPT ![e] = new.status]
  BY ONLY <1>1, <1>3, <1>4, Typed, RowsAgree, RowsMove
<1>7. LifecycleStep
  <2>1. CASE incident[e].status \in Over
    <3>1. new.status = incident[e].status
      BY <1>3, <2>1 DEF Over
    <3> QED
      BY <1>1, <1>4, <1>6, <3>1 DEF LifecycleStep, state
  <2>2. CASE incident[e].status \in Active
    <3>1. new.status = "resolved"
      BY <1>3, <2>2 DEF Active
    <3> QED
      BY <1>1, <1>4, <1>6, <2>2, <3>1
         DEF LifecycleStep, state, Active, Lifecycle!Next, Lifecycle!Resolve, Lifecycle!Active
  <2> QED
    BY <1>2, <1>5, <2>1, <2>2 DEF Row, Over
<1>8. incident'[e] = new
  BY <1>1, <1>4, TypedParts DEF RowsTyped
<1> QED
  BY <1>3, <1>6, <1>7, <1>8 DEF RowsAdvance, e, Over

LEMMA InsertAdvances ==
  ASSUME Typed, RowsAgree, NEW e \in Events, incident[e].status = "absent", audit' = audit,
         incident' = [incident EXCEPT ![e] = [NewRow EXCEPT !.status = "resolved", !.resolved = TRUE]]
  PROVE  RowsAdvance /\ incident'[e].status \in Over
<1> DEFINE new == [NewRow EXCEPT !.status = "resolved", !.resolved = TRUE]
<1>1. incident[e] \in Row /\ audit[e] \in Seq(Entry) /\ Agree(incident[e], audit[e])
  BY TypedParts DEF RowsTyped, RowsAgree
<1>2. RowOK(incident[e], audit[e], new, audit[e])
  BY <1>1, RowOpened
<1>3. new.status = "resolved"
  <2> DEFINE mid == [NewRow EXCEPT !.status = "resolved"]
  <2>1. mid.status = "resolved" /\ DOMAIN mid = DOMAIN NoRow
    BY DEF NewRow, NoRow
  <2>2. new = [mid EXCEPT !.resolved = TRUE]
    OBVIOUS
  <2>3. "status" \in DOMAIN NoRow
    BY DEF NoRow
  <2> HIDE DEF mid
  <2> QED
    BY <2>1, <2>2, <2>3
<1>4. incident' = [incident EXCEPT ![e] = new]
  OBVIOUS
<1>5. audit' = [audit EXCEPT ![e] = audit[e]]
  BY TypedParts DEF RowsTyped
<1> HIDE DEF new
<1>6. RowsTyped' /\ RowsAgree' /\ (\A d \in Events : Forward(incident[d], incident'[d]))
      /\ state' = [state EXCEPT ![e] = new.status]
  BY ONLY <1>2, <1>4, <1>5, Typed, RowsAgree, e \in Events, RowsMove
<1>7. LifecycleStep
  BY <1>3, <1>6 DEF LifecycleStep, state, Lifecycle!Next, Lifecycle!Open
<1>8. incident'[e] = new
  BY <1>4, TypedParts DEF RowsTyped
<1> QED
  BY <1>3, <1>6, <1>7, <1>8 DEF RowsAdvance, Over

LEMMA UserAdvances ==
  ASSUME Typed, RowsAgree, NEW e \in Events, NEW u \in Users,
         Acknowledge(e, u) \/ Process(e, u) \/ Close(e, u)
  PROVE  RowsAdvance
<1>1. incident[e] \in Row /\ audit[e] \in Seq(Entry) /\ Agree(incident[e], audit[e])
  BY TypedParts DEF RowsTyped, RowsAgree
<1>2. CASE Acknowledge(e, u)
  <2> DEFINE new == [incident[e] EXCEPT !.status = "acknowledged", !.acknowledgedBy = u]
             trail2 == Append(audit[e], <<"incident.acknowledge", u>>)
  <2>1. incident[e].status \in {"firing"} /\ incident' = [incident EXCEPT ![e] = new]
        /\ audit' = [audit EXCEPT ![e] = trail2]
    BY <1>2 DEF Acknowledge, Transition
  <2>2. RowOK(incident[e], audit[e], new, trail2) /\ new.status = "acknowledged"
    BY <1>1, <2>1, RowAcknowledged DEF Row
  <2> HIDE DEF new
  <2>3. RowsTyped' /\ RowsAgree' /\ (\A d \in Events : Forward(incident[d], incident'[d]))
        /\ state' = [state EXCEPT ![e] = new.status]
    BY <2>1, <2>2, RowsMove
  <2> QED
    BY <2>1, <2>2, <2>3
       DEF RowsAdvance, LifecycleStep, state, Lifecycle!Next, Lifecycle!Act
<1>3. CASE Process(e, u)
  <2> DEFINE new == [incident[e] EXCEPT !.status = "processing", !.processingBy = u]
             trail2 == Append(audit[e], <<"incident.process", u>>)
  <2>1. incident[e].status \in {"firing", "acknowledged"} /\ incident' = [incident EXCEPT ![e] = new]
        /\ audit' = [audit EXCEPT ![e] = trail2]
    BY <1>3 DEF Process, Transition
  <2>2. RowOK(incident[e], audit[e], new, trail2) /\ new.status = "processing"
    BY <1>1, <2>1, RowProcessed DEF Row
  <2> HIDE DEF new
  <2>3. RowsTyped' /\ RowsAgree' /\ (\A d \in Events : Forward(incident[d], incident'[d]))
        /\ state' = [state EXCEPT ![e] = new.status]
    BY <2>1, <2>2, RowsMove
  <2> QED
    BY <2>1, <2>2, <2>3
       DEF RowsAdvance, LifecycleStep, state, Lifecycle!Next, Lifecycle!Act
<1>4. CASE Close(e, u)
  <2> DEFINE new == [incident[e] EXCEPT !.status = "closed", !.closedBy = u]
             trail2 == Append(audit[e], <<"incident.close", u>>)
  <2>1. incident[e].status \in {"resolved"} /\ incident' = [incident EXCEPT ![e] = new]
        /\ audit' = [audit EXCEPT ![e] = trail2]
    BY <1>4 DEF Close, Transition
  <2>2. RowOK(incident[e], audit[e], new, trail2) /\ new.status = "closed"
    BY <1>1, <2>1, RowClosed DEF Row
  <2> HIDE DEF new
  <2>3. RowsTyped' /\ RowsAgree' /\ (\A d \in Events : Forward(incident[d], incident'[d]))
        /\ state' = [state EXCEPT ![e] = new.status]
    BY <2>1, <2>2, RowsMove
  <2> QED
    BY <2>1, <2>2, <2>3
       DEF RowsAdvance, LifecycleStep, state, Lifecycle!Next, Lifecycle!Act
<1> QED
  BY <1>2, <1>3, <1>4

----------------------------------------------------------------------------------
(* What was ingested                                                            *)

\* A step that ingests nothing and tells Alertmanager nothing.
IngestsNothing ==
  /\ \A r, s \in awaited' : r = s
  /\ \A r \in awaited' : r \in awaited \/ request'[r].done = 0
  /\ \A r \in Requests : \A k \in 1..request'[r].done :
       k \in 1..request[r].done /\ request'[r].alerts[k] = request[r].alerts[k]
  /\ \A a \in Alerts : alert'[a] = "told" => alert[a] = "told"
  /\ UNCHANGED <<key, accepted>>

LEMMA EventOfIngested ==
  ASSUME Typed, NEW r \in Requests, NEW k \in 1..request[r].done
  PROVE  /\ request[r].alerts[k] \in Alert
         /\ k \in 1..Len(request[r].alerts)
<1>1. request[r].alerts \in Seq(Alert) /\ request[r].done \in 0..Len(request[r].alerts)
      /\ Len(request[r].alerts) \in Nat
  BY TypedParts DEF RequestsTyped, RequestType
<1>2. k \in 1..Len(request[r].alerts)
  BY <1>1
<1> QED
  BY <1>1, <1>2, ElementOfSeq

LEMMA IngestionKept ==
  ASSUME Typed, Ingestion, RowsAdvance, IngestsNothing
  PROVE  Ingestion'
<1>1. ASSUME NEW r \in Requests, NEW k \in 1..request'[r].done
      PROVE  LET a == request'[r].alerts[k]
             IN /\ a.status = "resolved" => incident'[a.event].status \in Over
                /\ a.status = "firing" /\ r \in awaited' =>
                     Plus1(accepted'[a.event]) <= incident'[a.event].count
  <2> DEFINE a == request[r].alerts[k]
  <2>1. k \in 1..request[r].done /\ request'[r].alerts[k] = a
    BY DEF IngestsNothing
  <2>2. a \in Alert /\ a.event \in Events
    BY <2>1, EventOfIngested DEF Alert
  <2>3. Forward(incident[a.event], incident'[a.event]) /\ incident[a.event] \in Row
        /\ accepted[a.event] \in 0..MaxCount
    BY <2>2, TypedParts DEF RowsAdvance, RowsTyped, SenderTyped
  <2>4. a.status = "resolved" => incident'[a.event].status \in Over
    BY <2>1, <2>3 DEF Ingestion, Forward
  <2>5. ASSUME a.status = "firing", r \in awaited'
        PROVE  Plus1(accepted'[a.event]) <= incident'[a.event].count
    <3>1. r \in awaited
      BY <2>5 DEF IngestsNothing
    <3>2. Plus1(accepted[a.event]) <= incident[a.event].count
      BY <2>1, <2>5, <3>1 DEF Ingestion
    <3>3. Plus1(accepted[a.event]) \in Nat /\ incident[a.event].count \in Nat
          /\ incident'[a.event].count \in Nat
      BY <2>3, IncidentAssumption DEF Plus1, Row, Forward
    <3> QED
      BY <2>3, <3>2, <3>3 DEF IngestsNothing, Forward
  <2> QED
    BY <2>1, <2>4, <2>5
<1>2. ToldIsResolved'
  <2> SUFFICES ASSUME NEW a \in Alerts, alert'[a] = "told"
               PROVE  incident'[key'[a]].status \in Over
    BY DEF ToldIsResolved, Over
  <2>1. key[a] \in Events /\ key'[a] = key[a] /\ alert[a] = "told"
    BY TypedParts DEF SenderTyped, IngestsNothing
  <2>2. incident[key[a]].status \in Over
    BY <2>1 DEF Ingestion, ToldIsResolved, Over
  <2> QED
    BY <2>1, <2>2 DEF RowsAdvance, Forward
<1>3. AcceptedIsCounted'
  <2> SUFFICES ASSUME NEW e \in Events PROVE accepted'[e] <= incident'[e].count
    BY DEF AcceptedIsCounted
  <2>1. Forward(incident[e], incident'[e]) /\ incident[e] \in Row /\ accepted[e] \in 0..MaxCount
    BY TypedParts DEF RowsAdvance, RowsTyped, SenderTyped
  <2>2. accepted[e] <= incident[e].count /\ accepted'[e] = accepted[e]
    BY DEF Ingestion, AcceptedIsCounted, IngestsNothing
  <2> QED
    BY <2>1, <2>2, IncidentAssumption DEF Forward, Row
<1> QED
  BY <1>1, <1>2, <1>3 DEF Ingestion, IngestsNothing

LEMMA IngestionGrows ==
  ASSUME Typed, Ingestion, RowsAdvance, UNCHANGED alertmanager,
         NEW r \in Requests, Pending(r), Ingested(r),
         Current(r).status = "resolved" => incident'[Current(r).event].status \in Over,
         Current(r).status = "firing" =>
           Plus1(incident[Current(r).event].count) <= incident'[Current(r).event].count
  PROVE  Ingestion'
<1>1. request[r].done \in Nat /\ request'[r].done = request[r].done + 1
      /\ request'[r].alerts = request[r].alerts /\ Current(r) \in Alert
      /\ \A s \in Requests : s # r => request'[s] = request[s]
  BY IngestedFacts, CurrentType, TypedParts DEF RequestsTyped
<1>2. ASSUME NEW s \in Requests, NEW k \in 1..request'[s].done
      PROVE  LET a == request'[s].alerts[k]
             IN /\ a.status = "resolved" => incident'[a.event].status \in Over
                /\ a.status = "firing" /\ s \in awaited' =>
                     Plus1(accepted'[a.event]) <= incident'[a.event].count
  <2> DEFINE a == request[s].alerts[k]
  <2>1. request'[s].alerts[k] = a
    BY <1>1
  <2>2. CASE s = r /\ k = request[r].done + 1
    <3>1. a = Current(r) /\ a.event \in Events
      BY <1>1, <2>2 DEF Current, Alert
    <3> HIDE DEF a
    <3>2. accepted[a.event] \in 0..MaxCount /\ incident[a.event] \in Row /\ incident'[a.event] \in Row
          /\ accepted[a.event] <= incident[a.event].count
      BY <3>1, TypedParts DEF SenderTyped, RowsTyped, RowsAdvance, Forward, Ingestion, AcceptedIsCounted
    <3>3. Plus1(accepted[a.event]) <= Plus1(incident[a.event].count)
          /\ Plus1(accepted[a.event]) \in Nat /\ Plus1(incident[a.event].count) \in Nat
          /\ incident'[a.event].count \in Nat
      BY ONLY <3>2, IncidentAssumption DEF Plus1, Row
    <3>4. a.status = "firing" =>
            Plus1(incident[a.event].count) <= incident'[a.event].count
      BY <3>1
    <3>5. a.status = "firing" => Plus1(accepted[a.event]) <= incident'[a.event].count
      BY ONLY <3>3, <3>4
    <3> QED
      BY <2>1, <3>1, <3>5 DEF alertmanager
  <2>3. CASE ~(s = r /\ k = request[r].done + 1)
    <3>1. k \in 1..request[s].done
      BY <1>1, <2>3
    <3>2. a \in Alert /\ a.event \in Events
      BY <3>1, EventOfIngested DEF Alert
    <3>3. Forward(incident[a.event], incident'[a.event]) /\ incident[a.event] \in Row
          /\ accepted[a.event] \in 0..MaxCount
      BY <3>2, TypedParts DEF RowsAdvance, RowsTyped, SenderTyped
    <3>4. Plus1(accepted[a.event]) \in Nat /\ incident[a.event].count \in Nat
          /\ incident'[a.event].count \in Nat
      BY ONLY <3>3, IncidentAssumption DEF Plus1, Row, Forward
    <3>5. a.status = "firing" /\ s \in awaited =>
            Plus1(accepted[a.event]) <= incident[a.event].count
      BY <3>1 DEF Ingestion
    <3>6. a.status = "resolved" => incident'[a.event].status \in Over
      BY <3>1, <3>3 DEF Ingestion, Forward
    <3>7. a.status = "firing" /\ s \in awaited' =>
            Plus1(accepted'[a.event]) <= incident'[a.event].count
      BY <3>3, <3>4, <3>5 DEF Forward, alertmanager
    <3> QED
      BY <2>1, <3>6, <3>7
  <2> QED
    BY <2>2, <2>3
<1>3. ToldIsResolved'
  <2> SUFFICES ASSUME NEW a \in Alerts, alert'[a] = "told"
               PROVE  incident'[key'[a]].status \in Over
    BY DEF ToldIsResolved, Over
  <2>1. key[a] \in Events /\ key'[a] = key[a] /\ alert[a] = "told"
    BY TypedParts DEF SenderTyped, alertmanager
  <2>2. incident[key[a]].status \in Over
    BY <2>1 DEF Ingestion, ToldIsResolved, Over
  <2> QED
    BY <2>1, <2>2 DEF RowsAdvance, Forward
<1>4. AcceptedIsCounted'
  <2> SUFFICES ASSUME NEW e \in Events PROVE accepted'[e] <= incident'[e].count
    BY DEF AcceptedIsCounted
  <2>1. Forward(incident[e], incident'[e]) /\ incident[e] \in Row /\ accepted[e] \in 0..MaxCount
    BY TypedParts DEF RowsAdvance, RowsTyped, SenderTyped
  <2>2. accepted[e] <= incident[e].count /\ accepted'[e] = accepted[e]
    BY DEF Ingestion, AcceptedIsCounted, alertmanager
  <2> QED
    BY <2>1, <2>2, IncidentAssumption DEF Forward, Row
<1> QED
  BY <1>2, <1>3, <1>4 DEF Ingestion, alertmanager

----------------------------------------------------------------------------------
(* The actions                                                                  *)

StepOK == RequestsTyped' /\ SenderTyped' /\ RowsAdvance /\ Ingestion'

\* An event begins or an alert ends.
AlertMoves == (\E e \in Events : Fire(e)) \/ (\E a \in Alerts : End(a))

LEMMA AlertFacts ==
  ASSUME SenderTyped, AlertMoves
  PROVE  /\ UNCHANGED <<api, request, key, awaited, logged, accepted, faults>>
         /\ alert' \in [Alerts -> {"inactive", "firing", "over", "told"}]
         /\ \A b \in Alerts : /\ alert[b] # "inactive" => alert'[b] # "inactive"
                              /\ alert[b] \in Ended => alert'[b] \in Ended
                              /\ alert[b] = "told" <=> alert'[b] = "told"
<1>1. ASSUME NEW e \in Events, Fire(e)
      PROVE  /\ UNCHANGED <<api, request, key, awaited, logged, accepted, faults>>
             /\ alert' \in [Alerts -> {"inactive", "firing", "over", "told"}]
             /\ \A b \in Alerts : alert'[b] = alert[b] \/ (alert[b] = "inactive" /\ alert'[b] = "firing")
  BY <1>1 DEF Fire, SenderTyped
<1>2. ASSUME NEW a \in Alerts, End(a)
      PROVE  /\ UNCHANGED <<api, request, key, awaited, logged, accepted, faults>>
             /\ alert' \in [Alerts -> {"inactive", "firing", "over", "told"}]
             /\ \A b \in Alerts : alert'[b] = alert[b] \/ (alert[b] = "firing" /\ alert'[b] = "over")
  BY <1>2 DEF End, SenderTyped
<1> QED
  BY <1>1, <1>2 DEF AlertMoves, Ended

LEMMA AlertStep ==
  ASSUME IInv, AlertMoves
  PROVE  StepOK
<1>1. RequestsTyped /\ SenderTyped
  BY TypedParts DEF IInv
<1>2. /\ UNCHANGED <<api, request, key, awaited, logged, accepted, faults>>
      /\ alert' \in [Alerts -> {"inactive", "firing", "over", "told"}]
      /\ \A b \in Alerts : alert[b] = "told" <=> alert'[b] = "told"
  BY <1>1, AlertFacts
<1>3. RequestsTyped' /\ SenderTyped'
  BY <1>1, <1>2 DEF RequestsTyped, SenderTyped, Pending, Current
<1>4. RowsAdvance
  BY <1>2, RowsKept DEF IInv
<1>5. IngestsNothing
  BY <1>2 DEF IInv, Ingestion, IngestsNothing
<1> QED
  BY <1>3, <1>4, <1>5, IngestionKept DEF StepOK, IInv

LEMMA UserStep ==
  ASSUME IInv, NEW e \in Events, NEW u \in Users,
         Acknowledge(e, u) \/ Process(e, u) \/ Close(e, u)
  PROVE  StepOK
<1>1. RequestsTyped /\ SenderTyped /\ UNCHANGED <<request, alertmanager, faults>>
  BY TypedParts DEF IInv, Acknowledge, Process, Close, Transition
<1>2. RequestsTyped' /\ SenderTyped'
  BY <1>1 DEF alertmanager, RequestsTyped, SenderTyped, Pending, Current
<1>3. RowsAdvance
  BY UserAdvances DEF IInv
<1>4. IngestsNothing
  BY <1>1 DEF IInv, Ingestion, IngestsNothing, alertmanager
<1> QED
  BY <1>2, <1>3, <1>4, IngestionKept DEF StepOK, IInv

LEMMA NotifyStep ==
  ASSUME IInv, NEW r \in Requests, Notify(r)
  PROVE  StepOK
<1>1. SenderTyped /\ UNCHANGED <<api, key, alert, logged, accepted, faults>> /\ awaited' = {r}
  BY TypedParts DEF IInv, Notify
<1>2. RequestsTyped' /\ request'[r].done = 0 /\ \A s \in Requests : s # r => request'[s] = request[s]
  BY RequestsNotified DEF IInv
<1>3. SenderTyped'
  BY <1>1 DEF SenderTyped
<1>4. RowsAdvance
  BY <1>1, RowsKept DEF IInv
<1>5. IngestsNothing
  BY <1>1, <1>2 DEF IngestsNothing
<1> QED
  BY <1>2, <1>3, <1>4, <1>5, IngestionKept DEF StepOK, IInv

LEMMA StopWaitingStep ==
  ASSUME IInv, NEW r \in Requests, StopWaiting(r)
  PROVE  StepOK
<1>1. RequestsTyped /\ SenderTyped /\ UNCHANGED <<api, request, key, alert, logged, accepted>>
      /\ awaited' = {} /\ faults < MaxFaults /\ faults' = faults + 1
  BY TypedParts DEF IInv, StopWaiting, Fault
<1>2. RequestsTyped' /\ SenderTyped'
  BY <1>1, IncidentAssumption DEF RequestsTyped, SenderTyped, Pending, Current
<1>3. RowsAdvance
  BY <1>1, RowsKept DEF IInv
<1>4. IngestsNothing
  BY <1>1 DEF IngestsNothing
<1> QED
  BY <1>2, <1>3, <1>4, IngestionKept DEF StepOK, IInv

LEMMA UpsertStep ==
  ASSUME IInv, NEW r \in Requests, UpsertFiring(r)
  PROVE  StepOK
<1>1. SenderTyped /\ UNCHANGED <<alertmanager, faults>> /\ Pending(r) /\ Ingested(r)
      /\ Current(r).status = "firing"
  BY TypedParts DEF IInv, UpsertFiring
<1>2. RequestsTyped'
  BY <1>1, RequestsIngested DEF IInv
<1>3. SenderTyped'
  BY <1>1 DEF SenderTyped, alertmanager
<1>4. RowsAdvance /\ Plus1(incident[Current(r).event].count) <= incident'[Current(r).event].count
  BY UpsertAdvances DEF IInv
<1>5. Ingestion'
  BY <1>1, <1>4, IngestionGrows DEF IInv
<1> QED
  BY <1>2, <1>3, <1>4, <1>5 DEF StepOK

LEMMA ResolveStep ==
  ASSUME IInv, NEW r \in Requests, Resolve(r)
  PROVE  StepOK
<1>1. SenderTyped /\ UNCHANGED <<audit, alertmanager>> /\ Pending(r) /\ Current(r).status = "resolved"
  BY TypedParts DEF IInv, Resolve
<1>2. CASE /\ incident[Current(r).event].status # "absent"
           /\ incident' = [incident EXCEPT ![Current(r).event] = ResolvedRow(@)]
           /\ Ingested(r)
           /\ UNCHANGED faults
  <2>1. RequestsTyped'
    BY <1>1, <1>2, RequestsIngested DEF IInv
  <2>2. SenderTyped'
    BY <1>1, <1>2 DEF SenderTyped, alertmanager
  <2>3. RowsAdvance /\ incident'[Current(r).event].status \in Over
    BY <1>2, ResolveAdvances DEF IInv
  <2>4. Ingestion'
    BY <1>1, <1>2, <2>3, IngestionGrows DEF IInv
  <2> QED
    BY <2>1, <2>2, <2>3, <2>4 DEF StepOK
<1>3. CASE /\ UNCHANGED faults \/ Fault
           /\ request' = [request EXCEPT ![r].missing = TRUE]
           /\ UNCHANGED incident
  <2>1. RequestsTyped' /\ \A s \in Requests : request'[s].done = request[s].done
                                              /\ request'[s].alerts = request[s].alerts
    BY <1>1, <1>3, RequestsMissing DEF IInv
  <2>2. SenderTyped'
    BY <1>1, <1>3, IncidentAssumption DEF SenderTyped, alertmanager, Fault
  <2>3. RowsAdvance
    BY <1>1, <1>3, RowsKept DEF IInv, api
  <2>4. IngestsNothing
    BY <1>1, <2>1 DEF IInv, Ingestion, IngestsNothing, alertmanager
  <2> QED
    BY <2>1, <2>2, <2>3, <2>4, IngestionKept DEF StepOK, IInv
<1> QED
  BY <1>2, <1>3 DEF Resolve

\* A request that ends tells Alertmanager nothing, unless it succeeds.
LEMMA AbortStep ==
  ASSUME IInv, NEW r \in Requests, Abort(r), UNCHANGED api, UNCHANGED faults \/ Fault
  PROVE  StepOK
<1>1. SenderTyped /\ UNCHANGED <<key, alert, logged, accepted>> /\ awaited' \subseteq awaited
      /\ request' = [request EXCEPT ![r] = NoRequest] /\ request \in [Requests -> RequestType]
  BY TypedParts DEF IInv, Abort, Typed
<1>2. RequestsTyped'
  BY <1>1, RequestsReset DEF IInv
<1>3. SenderTyped'
  BY <1>1, IncidentAssumption DEF SenderTyped, Fault
<1>4. RowsAdvance
  BY RowsKept DEF IInv
<1>5. IngestsNothing
  BY <1>1 DEF IInv, Ingestion, IngestsNothing, NoRequest
<1> QED
  BY <1>2, <1>3, <1>4, <1>5, IngestionKept DEF StepOK, IInv

LEMMA ResolveCreateStep ==
  ASSUME IInv, NEW r \in Requests, ResolveCreate(r)
  PROVE  StepOK
<1>1. SenderTyped /\ UNCHANGED <<audit, faults>> /\ Pending(r) /\ Current(r).status = "resolved"
      /\ Current(r).event \in Events
  BY TypedParts, CurrentType DEF IInv, ResolveCreate, Typed, Alert
<1>2. CASE /\ incident[Current(r).event].status = "absent"
           /\ incident' = [incident EXCEPT ![Current(r).event] =
                [NewRow EXCEPT !.status = "resolved", !.resolved = TRUE]]
           /\ Ingested(r)
           /\ UNCHANGED alertmanager
  <2>1. RequestsTyped'
    BY <1>1, <1>2, RequestsIngested DEF IInv
  <2>2. SenderTyped'
    BY <1>1, <1>2 DEF SenderTyped, alertmanager
  <2>3. RowsAdvance /\ incident'[Current(r).event].status \in Over
    BY <1>1, <1>2, InsertAdvances DEF IInv
  <2>4. Ingestion'
    BY <1>1, <1>2, <2>3, IngestionGrows DEF IInv
  <2> QED
    BY <2>1, <2>2, <2>3, <2>4 DEF StepOK
<1>3. CASE Abort(r) /\ UNCHANGED incident
  BY <1>1, <1>3, AbortStep DEF api
<1> QED
  BY <1>2, <1>3 DEF ResolveCreate

LEMMA SucceedStep ==
  ASSUME IInv, NEW r \in Requests, Succeed(r)
  PROVE  StepOK
<1> DEFINE said(status) ==
             {p \in Range(request[r].alerts) : p.status = status}
<1>1. RequestsTyped /\ SenderTyped /\ UNCHANGED <<api, faults>> /\ ~Pending(r)
      /\ request' = [request EXCEPT ![r] = NoRequest] /\ request \in [Requests -> RequestType]
  BY TypedParts DEF IInv, Succeed, Typed
<1>2. RequestsTyped'
  BY <1>1, RequestsReset DEF IInv
<1>3. RowsAdvance
  BY <1>1, RowsKept DEF IInv
<1>4. CASE r \notin awaited
  <2>1. UNCHANGED alertmanager
    BY <1>4 DEF Succeed
  <2>2. SenderTyped'
    BY <1>1, <2>1 DEF SenderTyped, alertmanager
  <2>3. IngestsNothing
    BY <1>1, <2>1 DEF IInv, Ingestion, IngestsNothing, NoRequest, alertmanager
  <2> QED
    BY <1>2, <1>3, <2>2, <2>3, IngestionKept DEF StepOK, IInv
<1>5. CASE r \in awaited
  <2>1. /\ alert' = [a \in Alerts |-> IF \E p \in said("resolved") : p.alert = a
                                      THEN "told" ELSE alert[a]]
        /\ logged' = {p.alert : p \in said("firing")}
        /\ accepted' = [e \in Events |-> IF \E p \in said("firing") : p.event = e
                                         THEN Plus1(accepted[e]) ELSE accepted[e]]
        /\ awaited' = {}
        /\ key' = key
    BY <1>5 DEF Succeed
  <2>2. \A n \in 0..MaxCount : Plus1(n) \in 0..MaxCount
    BY IncidentAssumption DEF Plus1
  <2>3. /\ DOMAIN request[r].alerts = 1..request[r].done
        /\ Len(request[r].alerts) = request[r].done
    BY <1>1 DEF RequestsTyped, RequestType, Pending
  <2>4. ASSUME NEW status, NEW p \in said(status)
        PROVE  /\ p \in Alert /\ p.status = status
               /\ \E k \in 1..request[r].done : p = request[r].alerts[k]
    <3>1. PICK k \in DOMAIN request[r].alerts : p = request[r].alerts[k]
      BY DEF Range
    <3>2. p \in Alert
      BY <2>3, <3>1, EventOfIngested DEF IInv
    <3> QED
      BY <2>3, <3>1, <3>2
  <2>5. ASSUME NEW p \in said("resolved")
        PROVE  incident[key[p.alert]].status \in Over
    <3>1. PICK k \in 1..request[r].done : p = request[r].alerts[k]
      BY <2>4
    <3>2. p.status = "resolved" /\ p.event = key[p.alert]
      BY <2>3, <2>4, <3>1 DEF IInv, PayloadsTrue, PayloadTrue
    <3> QED
      BY <3>1, <3>2 DEF IInv, Ingestion
  <2>6. ASSUME NEW p \in said("firing")
        PROVE  Plus1(accepted[p.event]) <= incident[p.event].count
    <3>1. PICK k \in 1..request[r].done : p = request[r].alerts[k]
      BY <2>4
    <3> QED
      BY <1>5, <2>4, <3>1 DEF IInv, Ingestion
  <2> HIDE DEF said
  <2>7. SenderTyped'
    <3>1. logged' \in SUBSET Alerts
      BY <2>1, <2>4 DEF Alert
    <3> QED
      BY <1>1, <2>1, <2>2, <3>1 DEF SenderTyped
  <2>8. ToldIsResolved' /\ AcceptedIsCounted'
    <3>1. ToldIsResolved'
      BY <1>1, <2>1, <2>5 DEF IInv, Ingestion, ToldIsResolved, Over, api
    <3>2. AcceptedIsCounted'
      BY <1>1, <2>1, <2>6 DEF IInv, Ingestion, AcceptedIsCounted, api
    <3> QED
      BY <3>1, <3>2
  <2>9. \A s \in Requests : \A k \in 1..request'[s].done :
          k \in 1..request[s].done /\ request'[s].alerts[k] = request[s].alerts[k]
    BY <1>1 DEF NoRequest
  <2>10. Ingestion'
    BY <1>1, <2>1, <2>8, <2>9 DEF IInv, Ingestion, api
  <2> QED
    BY <1>2, <1>3, <2>7, <2>10 DEF StepOK
<1> QED
  BY <1>4, <1>5

----------------------------------------------------------------------------------
(* What incidents rest on                                                       *)

\* Alerts go on, requests forget or keep what they say.
SaysNothingNew ==
  /\ key' = key
  /\ \A a \in Alerts : alert[a] # "inactive" => alert'[a] # "inactive"
  /\ \A a \in Alerts : alert[a] \in Ended => alert'[a] \in Ended
  /\ \A r \in Requests : request'[r].alerts = request[r].alerts \/ request'[r].alerts = <<>>

LEMMA PayloadsKept ==
  ASSUME Typed, PayloadsTrue, SaysNothingNew
  PROVE  PayloadsTrue'
<1>1. ASSUME NEW p \in Alert, PayloadTrue(p)
      PROVE  PayloadTrue(p)'
  BY <1>1 DEF PayloadTrue, SaysNothingNew, Alert
<1>2. ASSUME NEW r \in Requests, NEW k \in 1..Len(request'[r].alerts)
      PROVE  /\ request'[r].alerts[k] \in Alert
             /\ PayloadTrue(request'[r].alerts[k])
  <2>1. request'[r].alerts = request[r].alerts
    BY DEF SaysNothingNew
  <2>2. k \in 1..Len(request[r].alerts) /\ request[r].alerts \in Seq(Alert)
    BY <2>1, TypedParts DEF RequestsTyped, RequestType
  <2> QED
    BY <2>1, <2>2, ElementOfSeq DEF PayloadsTrue
<1> QED
  BY <1>1, <1>2 DEF PayloadsTrue, PayloadTrue

\* A row appears, or is resolved, on behalf of an alert that some request is about
\* to ingest.
Cause(d) ==
  /\ incident'[d].status # "absent" =>
       \/ incident[d].status # "absent"
       \/ \E r \in Requests : Pending(r) /\ Current(r).event = d
  /\ incident'[d].resolved =>
       \/ incident[d].resolved
       \/ \E r \in Requests : Pending(r) /\ Current(r).event = d /\ Current(r).status = "resolved"

LEMMA CausesSuffice ==
  ASSUME Typed, PayloadsTrue, RestsOnAlerts, SaysNothingNew, \A d \in Events : Cause(d)
  PROVE  RestsOnAlerts'
<1>1. ASSUME NEW r \in Requests, Pending(r)
      PROVE  /\ Current(r).alert \in Alerts /\ key[Current(r).alert] = Current(r).event
             /\ alert[Current(r).alert] # "inactive"
             /\ Current(r).status = "resolved" => alert[Current(r).alert] \in Ended
  BY <1>1, CurrentType DEF PayloadsTrue, PayloadTrue, Current, Alert
<1> SUFFICES ASSUME NEW d \in Events
             PROVE  /\ incident'[d].status # "absent" =>
                          \E a \in Alerts : key'[a] = d /\ alert'[a] # "inactive"
                    /\ incident'[d].resolved =>
                          \E a \in Alerts : key'[a] = d /\ alert'[a] \in Ended
  BY DEF RestsOnAlerts, Ended
<1>2. ASSUME incident'[d].status # "absent"
      PROVE  \E a \in Alerts : key[a] = d /\ alert[a] # "inactive"
  BY <1>1, <1>2 DEF Cause, RestsOnAlerts
<1>3. ASSUME incident'[d].resolved
      PROVE  \E a \in Alerts : key[a] = d /\ alert[a] \in Ended
  BY <1>1, <1>3 DEF Cause, RestsOnAlerts, Ended
<1> QED
  BY <1>2, <1>3 DEF SaysNothingNew

LEMMA SourcesKept ==
  ASSUME IInv, SaysNothingNew, UNCHANGED incident
  PROVE  PayloadsTrue' /\ RestsOnAlerts'
<1>1. \A d \in Events : Cause(d)
  BY DEF Cause
<1> QED
  BY <1>1, PayloadsKept, CausesSuffice DEF IInv

\* A statement of a request writes the row of its current alert.
LEMMA SourcesWritten ==
  ASSUME IInv, NEW r \in Requests, Pending(r), Ingested(r), UNCHANGED alertmanager, NEW new,
         incident' = [incident EXCEPT ![Current(r).event] = new],
         new.resolved => incident[Current(r).event].resolved \/ Current(r).status = "resolved"
  PROVE  PayloadsTrue' /\ RestsOnAlerts'
<1> DEFINE e == Current(r).event
<1>1. SaysNothingNew
  <2>1. \A s \in Requests : request'[s].alerts = request[s].alerts
    BY IngestedFacts DEF IInv
  <2> QED
    BY <2>1 DEF SaysNothingNew, alertmanager
<1>2. incident'[e] = new /\ \A d \in Events : d # e => incident'[d] = incident[d]
  BY TypedParts, CurrentType DEF IInv, RowsTyped, Alert
<1>3. ASSUME NEW d \in Events PROVE Cause(d)
  BY <1>2 DEF Cause
<1> QED
  BY <1>1, <1>3, PayloadsKept, CausesSuffice DEF IInv

LEMMA FiringRowUnresolved ==
  ASSUME NEW row \in Row, FiringRow(row).resolved
  PROVE  row.resolved
<1>1. CASE row.status = "absent"
  <2>1. NewRow.status = "absent" /\ ~NewRow.resolved
        /\ DOMAIN NewRow = {"status", "resolved", "count", "acknowledgedBy", "processingBy", "closedBy"}
    BY DEF NewRow, NoRow
  <2> QED
    BY <1>1, <2>1 DEF FiringRow
<1>2. CASE row.status # "absent"
  BY <1>2 DEF FiringRow, Row
<1> QED
  BY <1>1, <1>2

LEMMA UserSources ==
  ASSUME IInv, NEW e \in Events, NEW u \in Users,
         Acknowledge(e, u) \/ Process(e, u) \/ Close(e, u)
  PROVE  PayloadsTrue' /\ RestsOnAlerts'
<1>1. UNCHANGED <<request, alertmanager>> /\ incident[e].status # "absent"
  BY DEF Acknowledge, Process, Close, Transition
<1>2. SaysNothingNew
  BY <1>1 DEF SaysNothingNew, alertmanager
<1>3. PICK new : incident' = [incident EXCEPT ![e] = new] /\ new.resolved = incident[e].resolved
  <2>1. incident[e] \in Row
    BY TypedParts DEF IInv, RowsTyped
  <2>2. ASSUME NEW s, NEW row \in Row
        PROVE  /\ [row EXCEPT !.status = s, !.acknowledgedBy = u].resolved = row.resolved
               /\ [row EXCEPT !.status = s, !.processingBy = u].resolved = row.resolved
               /\ [row EXCEPT !.status = s, !.closedBy = u].resolved = row.resolved
    BY DEF Row
  <2> DEFINE one == [incident[e] EXCEPT !.status = "acknowledged", !.acknowledgedBy = u]
             two == [incident[e] EXCEPT !.status = "processing", !.processingBy = u]
             three == [incident[e] EXCEPT !.status = "closed", !.closedBy = u]
  <2>3. one.resolved = incident[e].resolved /\ two.resolved = incident[e].resolved
        /\ three.resolved = incident[e].resolved
    BY <2>1, <2>2
  <2>4. \E new \in {one, two, three} : incident' = [incident EXCEPT ![e] = new]
    BY DEF Acknowledge, Process, Close, Transition
  <2> HIDE DEF one, two, three
  <2> QED
    BY <2>3, <2>4
<1>4. incident'[e] = new /\ \A d \in Events : d # e => incident'[d] = incident[d]
  BY <1>3, TypedParts DEF IInv, RowsTyped
<1>5. \A d \in Events : Cause(d)
  BY <1>1, <1>3, <1>4 DEF Cause
<1> QED
  BY <1>2, <1>5, PayloadsKept, CausesSuffice DEF IInv

LEMMA NotifySources ==
  ASSUME IInv, NEW r \in Requests, Notify(r)
  PROVE  PayloadsTrue' /\ RestsOnAlerts'
<1>1. UNCHANGED <<incident, key, alert>> /\ \A s \in Requests : s # r => request'[s] = request[s]
  BY RequestsNotified DEF IInv, Notify, api
<1>2. RestsOnAlerts'
  BY <1>1 DEF IInv, RestsOnAlerts
<1>3. PICK order \in [1..Cardinality(Group) -> Group] :
        request' = [request EXCEPT ![r].alerts = [k \in DOMAIN order |-> Payload(order[k])]]
  BY DEF Notify
<1> DEFINE list == [k \in DOMAIN order |-> Payload(order[k])]
<1>4. ASSUME NEW k \in DOMAIN list PROVE PayloadTrue(list[k])
  <2>1. order[k] \in Group /\ list[k] = Payload(order[k])
    OBVIOUS
  <2> HIDE DEF list
  <2> QED
    BY <2>1 DEF PayloadTrue, Payload, Group, Ended
<1>5. Cardinality(Group) \in Nat
  BY IncidentAssumption, FS_Subset, FS_CardinalityType DEF Group
<1>6. Len(list) = Cardinality(Group) /\ DOMAIN list = 1..Cardinality(Group)
  BY <1>5
<1>7. request'[r].alerts = list
  BY <1>3, TypedParts DEF IInv, RequestsTyped, RequestType
<1> HIDE DEF list
<1>8. ASSUME NEW s \in Requests, NEW k \in 1..Len(request'[s].alerts)
      PROVE  PayloadTrue(request'[s].alerts[k])
  <2>1. CASE s = r
    BY <1>4, <1>6, <1>7, <1>8, <2>1
  <2>2. CASE s # r
    BY <1>1, <1>8, <2>2 DEF IInv, PayloadsTrue
  <2> QED
    BY <2>1, <2>2
<1>9. PayloadsTrue'
  BY <1>1, <1>8 DEF PayloadsTrue, PayloadTrue
<1> QED
  BY <1>2, <1>9

LEMMA ServeSources ==
  ASSUME IInv, NEW r \in Requests, Serve(r) \/ Fail(r)
  PROVE  PayloadsTrue' /\ RestsOnAlerts'
<1> DEFINE e == Current(r).event
<1>1. CASE UpsertFiring(r)
  <2>1. incident[e] \in Row
    BY <1>1, CurrentType, TypedParts DEF IInv, UpsertFiring, RowsTyped, Alert
  <2>2. incident' = [incident EXCEPT ![e] = FiringRow(incident[e])]
        /\ Pending(r) /\ Ingested(r) /\ UNCHANGED alertmanager
    BY <1>1 DEF UpsertFiring
  <2> HIDE DEF e
  <2> QED
    BY <2>1, <2>2, FiringRowUnresolved, SourcesWritten DEF e
<1>2. CASE Resolve(r)
  <2>1. Pending(r) /\ UNCHANGED alertmanager /\ Current(r).status = "resolved"
    BY <1>2 DEF Resolve
  <2>2. CASE incident' = [incident EXCEPT ![e] = ResolvedRow(incident[e])] /\ Ingested(r)
    BY <2>1, <2>2, SourcesWritten
  <2>3. CASE request' = [request EXCEPT ![r].missing = TRUE] /\ UNCHANGED incident
    <3>1. SaysNothingNew
      BY <2>1, <2>3, RequestsMissing DEF IInv, SaysNothingNew, alertmanager
    <3> QED
      BY <2>3, <3>1, SourcesKept
  <2> QED
    BY <1>2, <2>2, <2>3 DEF Resolve
<1>3. CASE Abort(r) /\ UNCHANGED incident
  <2>1. request \in [Requests -> RequestType]
    BY DEF IInv, Typed
  <2>2. SaysNothingNew
    BY <1>3, <2>1 DEF SaysNothingNew, Abort, NoRequest
  <2> QED
    BY <1>3, <2>2, SourcesKept
<1>4. CASE ResolveCreate(r) /\ Ingested(r)
  <2> DEFINE new == [NewRow EXCEPT !.status = "resolved", !.resolved = TRUE]
  <2>1. request[r].missing
    BY <1>4 DEF ResolveCreate
  <2>2. Pending(r) /\ Current(r).status = "resolved"
    BY <2>1 DEF IInv, Typed
  <2>3. CASE incident' = [incident EXCEPT ![e] = new] /\ UNCHANGED alertmanager
    <3> HIDE DEF new
    <3> QED
      BY <1>4, <2>2, <2>3, SourcesWritten
  <2>4. CASE Abort(r) /\ UNCHANGED incident
    BY <1>3, <2>4
  <2> QED
    BY <1>4, <2>3, <2>4 DEF ResolveCreate
<1>5. CASE Succeed(r)
  <2>1. request \in [Requests -> RequestType] /\ alert \in [Alerts -> {"inactive", "firing", "over", "told"}]
    BY TypedParts DEF IInv, Typed, SenderTyped
  <2>2. request' = [request EXCEPT ![r] = NoRequest] /\ UNCHANGED <<incident, key>>
    BY <1>5 DEF Succeed, api, alertmanager
  <2>3. \A a \in Alerts : alert'[a] = alert[a] \/ alert'[a] = "told"
    BY <1>5 DEF Succeed, alertmanager
  <2>4. \A s \in Requests : request'[s].alerts = request[s].alerts \/ request'[s].alerts = <<>>
    BY <2>1, <2>2 DEF NoRequest
  <2> QED
    BY <2>2, <2>3, <2>4, SourcesKept DEF SaysNothingNew, Ended
<1> QED
  BY <1>1, <1>2, <1>3, <1>4, <1>5 DEF Serve, Fail, ResolveCreate, api

LEMMA SourceStep ==
  ASSUME IInv, Next
  PROVE  PayloadsTrue' /\ RestsOnAlerts'
<1>1. ASSUME AlertMoves PROVE PayloadsTrue' /\ RestsOnAlerts'
  <2>1. /\ UNCHANGED <<incident, request, key>>
        /\ \A b \in Alerts : /\ alert[b] # "inactive" => alert'[b] # "inactive"
                             /\ alert[b] \in Ended => alert'[b] \in Ended
    BY <1>1, TypedParts, AlertFacts DEF IInv, api
  <2> QED
    BY <2>1, SourcesKept DEF SaysNothingNew
<1>2. ASSUME NEW r \in Requests, StopWaiting(r) PROVE PayloadsTrue' /\ RestsOnAlerts'
  BY <1>2, SourcesKept DEF StopWaiting, SaysNothingNew, api
<1> QED
  BY <1>1, <1>2, UserSources, NotifySources, ServeSources DEF Next, AlertMoves

LEMMA Step ==
  ASSUME IInv, Next
  PROVE  IInv' /\ LifecycleStep
<1>1. StepOK
  <2>1. CASE AlertMoves
    BY <2>1, AlertStep
  <2>2. ASSUME NEW e \in Events, NEW u \in Users,
               Acknowledge(e, u) \/ Process(e, u) \/ Close(e, u)
        PROVE  StepOK
    BY <2>2, UserStep
  <2>3. ASSUME NEW r \in Requests, Notify(r) \/ StopWaiting(r) PROVE StepOK
    BY <2>3, NotifyStep, StopWaitingStep
  <2>4. ASSUME NEW r \in Requests, Serve(r) PROVE StepOK
    BY <2>4, UpsertStep, ResolveStep, ResolveCreateStep, SucceedStep DEF Serve
  <2>5. ASSUME NEW r \in Requests, Fail(r) PROVE StepOK
    BY <2>5, AbortStep DEF Fail
  <2> QED
    BY <2>1, <2>2, <2>3, <2>4, <2>5 DEF Next, AlertMoves
<1>2. PayloadsTrue' /\ RestsOnAlerts'
  BY SourceStep
<1> QED
  BY <1>1, <1>2, TypedPartsPrime DEF StepOK, RowsAdvance, IInv

LEMMA Stutter ==
  ASSUME IInv, UNCHANGED vars
  PROVE  IInv' /\ UNCHANGED <<state, audit>>
<1>1. UNCHANGED <<incident, audit, request, key, alert, awaited, logged, accepted, faults>>
  BY DEF vars, api, alertmanager
<1>2. RequestsTyped' /\ RowsTyped' /\ SenderTyped'
  BY <1>1, TypedParts DEF IInv, RequestsTyped, RowsTyped, SenderTyped, Pending, Current
<1>3. RowsAgree'
  BY <1>1 DEF IInv, RowsAgree, Agree
<1>4. Ingestion'
  BY <1>1 DEF IInv, Ingestion, ToldIsResolved, AcceptedIsCounted
<1>5. PayloadsTrue' /\ RestsOnAlerts'
  BY <1>1 DEF IInv, PayloadsTrue, PayloadTrue, RestsOnAlerts
<1> QED
  BY <1>1, <1>2, <1>3, <1>4, <1>5, TypedPartsPrime DEF IInv, state

LEMMA Start ==
  ASSUME Init
  PROVE  IInv /\ Lifecycle!Init
<1>1. Typed
  BY TypedInit
<1>2. \A e \in Events : incident[e] = NoRow /\ audit[e] = <<>>
  BY DEF Init
<1>3. \A r \in Requests : request[r].done = 0
  BY DEF Init, NoRequest
<1>4. NoRow.status = "absent" /\ NoRow.acknowledgedBy = NoUser /\ NoRow.processingBy = NoUser
      /\ NoRow.closedBy = NoUser /\ NoRow.count = 0
  BY DEF NoRow
<1>5. \A e \in Events : Agree(incident[e], audit[e])
  <2>1. \A what, u : ~By(<<>>, what, u)
    BY DEF By
  <2> HIDE DEF NoRow
  <2> QED
    BY <1>2, <1>4, <2>1, IncidentAssumption DEF Agree, Over
<1>6. Ingestion
  BY <1>2, <1>3, <1>4 DEF Init, Ingestion, ToldIsResolved, AcceptedIsCounted
<1>7. Lifecycle!Init
  BY <1>2, <1>4 DEF Init, Lifecycle!Init, state
<1>8. PayloadsTrue /\ RestsOnAlerts
  <2>1. ~NoRow.resolved /\ \A r \in Requests : Len(request[r].alerts) = 0
    BY DEF Init, NoRequest, NoRow
  <2> HIDE DEF NoRow
  <2> QED
    BY <1>2, <1>4, <2>1 DEF PayloadsTrue, RestsOnAlerts
<1> QED
  BY <1>1, <1>5, <1>6, <1>7, <1>8 DEF IInv, RowsAgree

LEMMA Invariant == Spec => []IInv
<1>1. IInv /\ [Next]_vars => IInv'
  BY Step, Stutter
<1> QED
  BY <1>1, Start, PTL DEF Spec

----------------------------------------------------------------------------------
(* Results                                                                      *)

(* The domain of every variable of Incident, the requests' included.            *)
THEOREM TypeCorrect == Spec => []TypeOK
<1>1. IInv => TypeOK
  BY DEF IInv, Typed
<1> QED
  BY <1>1, Invariant, PTL

(* Service.Ingest and Handler.Webhook: what Alertmanager was told is resolved   *)
(* is resolved in the database, whichever requests failed or were overtaken.    *)
THEOREM ToldStaysResolved == Spec => []ToldIsResolved
<1>1. IInv => ToldIsResolved
  BY DEF IInv, Ingestion
<1> QED
  BY <1>1, Invariant, PTL

(* Service.Ingest: an incident is there because an alert of its key fired, and  *)
(* is resolved because one ended, whatever requests overtook each other.        *)
THEOREM IncidentsRestOnAlerts == Spec => []RestsOnAlerts
<1>1. IInv => RestsOnAlerts
  BY DEF IInv
<1> QED
  BY <1>1, Invariant, PTL

(* Repository.UpsertFiring: every accepted notification of a firing alert is in *)
(* the count of its incident.                                                   *)
THEOREM AcceptedStaysCounted == Spec => []AcceptedIsCounted
<1>1. IInv => AcceptedIsCounted
  BY DEF IInv, Ingestion
<1> QED
  BY <1>1, Invariant, PTL

(* Repository.Transition: the columns of an incident and its audit entries say  *)
(* the same, and nobody acts twice in a role.                                   *)
THEOREM TrailTellsWho == Spec => []AuditTellsWho
<1>1. ASSUME IInv PROVE AuditTellsWho
  <2>1. \A e \in Events : Agree(incident[e], audit[e])
    BY <1>1 DEF IInv, RowsAgree
  <2> QED
    BY <2>1 DEF Agree, AuditTellsWho, By, Over
<1> QED
  BY <1>1, Invariant, PTL

(* docs/api.md:26: Incident implements IncidentLifecycle.                       *)
THEOREM IncidentImplements == Spec => ImplementsLifecycle
<1>1. IInv /\ [Next]_vars => [Lifecycle!Next]_(Lifecycle!vars)
  BY Step, Stutter DEF LifecycleStep, Lifecycle!vars
<1>2. Init => Lifecycle!Init
  BY Start
<1> QED
  BY <1>1, <1>2, Invariant, PTL DEF Spec, ImplementsLifecycle, Lifecycle!Spec
===================================================================================
