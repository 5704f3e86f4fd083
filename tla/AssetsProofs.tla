------------------------------- MODULE AssetsProofs -------------------------------
(* Machine-checked proofs about Assets, for any number of hosts, services and   *)
(* tasks.                                                                       *)
(*                                                                              *)
(* For any number of requests at a time: rows refer to rows, and a write does no*)
(* harm as long as its request would still find what it has found, which only   *)
(* the write of another request changes.                                        *)
EXTENDS Assets, TLAPS

----------------------------------------------------------------------------------
(* When a request is answered, and when it has written                          *)

\* A request that is answered is over, and one that is not has not written.
AInv ==
  /\ answer \in [Requests -> Answers]
  /\ request = [r \in Requests |-> request[r]]
  /\ \A r \in Requests : request[r] # Idle => answer[r] = "none"
  /\ \A r \in Requests : answer[r] = "none" => r \notin wrote

LEMMA InitAInv == Init => AInv
BY DEF Init, AInv, Answers, Idle

LEMMA EndFacts ==
  ASSUME AInv, NEW r \in Requests,
         \/ \E success \in {"created", "ok"} : Committed(r, success)
         \/ \E why \in {"found", "badRequest", "notFound", "conflict", "error"} :
              answer[r] = "none" /\ Refuse(r, why)
         \/ Reply(r)
         \/ Drop(r)
  PROVE  AInv'
<1>1. CASE \E success \in {"created", "ok"} : Committed(r, success)
  BY <1>1 DEF AInv, Answers, Committed, Done, Idle
<1>2. CASE \E why \in {"found", "badRequest", "notFound", "conflict", "error"} :
             answer[r] = "none" /\ Refuse(r, why)
  BY <1>2 DEF AInv, Answers, Refuse, Done, Idle
<1>3. CASE Reply(r)
  BY <1>3 DEF AInv, Answers, Reply
<1>4. CASE Drop(r)
  BY <1>4 DEF AInv, Drop, Done
<1> QED
  BY <1>1, <1>2, <1>3, <1>4

LEMMA FoundFacts ==
  ASSUME AInv, NEW r \in Requests, answer[r] = "none", NEW op, NEW id, NEW parent,
         Proceed(r, op, id, parent)
  PROVE  AInv'
BY DEF AInv, Proceed

\* Every step of a request commits, refuses, goes on or ends.
LEMMA NextAInv ==
  ASSUME AInv, [Next]_vars
  PROVE  AInv'
<1>1. ASSUME NEW r \in Requests,
             \/ \E h \in Hosts : CreateHost(r, h) \/ UpdateHost(r, h)
             \/ DisableHost(r) \/ CreateService(r) \/ UpdateService(r) \/ DisableService(r)
             \/ \E t \in Tasks : DisableTask(r, t)
             \/ CreateTask(r) \/ UpdateTask(r)
             \/ Reply(r) \/ Drop(r)
      PROVE  AInv'
  BY <1>1, EndFacts DEF CreateHost, UpdateHost, DisableHost, CreateService, UpdateService,
     DisableService, DisableTask, CreateTask, UpdateTask, Begins
<1>2. ASSUME NEW r \in Requests,
             \/ \E h \in Hosts : CheckDisableHost(r, h)
             \/ \E s \in Services, h \in Hosts :
                  CheckCreateService(r, s, h) \/ CheckUpdateService(r, s, h)
             \/ \E s \in Services : CheckDisableService(r, s)
             \/ \E t \in Tasks, s \in Services : CheckCreateTask(r, t, s) \/ GetTaskToUpdate(r, t, s)
             \/ CheckUpdateTask(r)
      PROVE  AInv'
  <2>1. answer[r] = "none"
    BY <1>2 DEF CheckDisableHost, CheckCreateService, CheckUpdateService, CheckDisableService,
       CheckCreateTask, GetTaskToUpdate, CheckUpdateTask, Begins, Asked, AInv, Idle
  <2>2. \/ \E why \in {"notFound", "conflict"} : Refuse(r, why)
        \/ \E op, id, parent : Proceed(r, op, id, parent)
    BY <1>2 DEF CheckDisableHost, CheckCreateService, CheckUpdateService, CheckDisableService,
       CheckCreateTask, GetTaskToUpdate, CheckUpdateTask
  <2> QED
    BY <2>1, <2>2, EndFacts, FoundFacts
<1>3. ASSUME NEW r \in Requests,
             \/ List(r) \/ \E status : Get(r, status)
             \/ BadInput(r) \/ Duplicate(r) \/ NothingChanged(r) \/ Fail(r)
      PROVE  AInv'
  <2>1. answer[r] = "none"
    BY <1>3 DEF List, Get, BadInput, Duplicate, NothingChanged, Fail, Begins, Asked, AInv, Idle
  <2>2. \E why \in {"found", "badRequest", "notFound", "conflict", "error"} : Refuse(r, why)
    BY <1>3 DEF List, Get, BadInput, Duplicate, NothingChanged, Fail
  <2> QED
    BY <2>1, <2>2, EndFacts
<1>4. CASE UNCHANGED vars
  BY <1>4 DEF vars, tables, AInv
<1> QED
  <2>1. CASE UNCHANGED vars
    BY <2>1, <1>4
  <2>2. ASSUME NEW r \in Requests, HostRequest(r)
        PROVE  AInv'
    BY <2>2, <1>1, <1>2, <1>3, Zenon DEF HostRequest
  <2>3. ASSUME NEW r \in Requests, ServiceRequest(r)
        PROVE  AInv'
    BY <2>3, <1>1, <1>2, <1>3, Zenon DEF ServiceRequest
  <2>4. ASSUME NEW r \in Requests, TaskRequest(r)
        PROVE  AInv'
    BY <2>4, <1>1, <1>2, <1>3, Zenon DEF TaskRequest
  <2> QED
    BY <2>1, <2>2, <2>3, <2>4, <1>1, <1>3, Zenon DEF Next

----------------------------------------------------------------------------------
(* The rows, for any number of requests at a time                               *)

RowsInv == TypeOK /\ Referred

\* The writes, and what else a step may do.
Write(r) ==
  \/ \E h \in Hosts : CreateHost(r, h)
  \/ DisableHost(r)
  \/ CreateService(r) \/ UpdateService(r) \/ DisableService(r)
  \/ CreateTask(r) \/ UpdateTask(r)
  \/ \E t \in Tasks : ~Refuse(r, "notFound") /\ DisableTask(r, t)

Ends(r) ==
  /\ Done(r)
  /\ answer' \in [Requests -> Answers] /\ wrote' \in SUBSET Requests
  /\ UNCHANGED tables

\* What a request that goes on has found about the rows it names.
GoesOn(r) ==
  \E op, id, parent :
    /\ [op |-> op, id |-> id, parent |-> parent] \in RequestType
    /\ Proceed(r, op, id, parent)
    /\ op = "disableHost" => ActiveServices(id) = {}
    /\ op = "disableService" => ActiveTasks(id) = {}
    /\ op \in {"createService", "updateService"} => host[parent] = "active"
    /\ op \in {"createTask", "updateTask"} => service[parent].status = "active"
    /\ op \in {"updateService", "disableService"} => service[id].status # "absent"
    /\ op \in {"checkUpdateTask", "updateTask"} => task[id].status # "absent"

\* A write is a committed transaction.
LEMMA WriteCommits ==
  ASSUME RowsInv, NEW r \in Requests, Write(r)
  PROVE  /\ Done(r) /\ wrote' = wrote \cup {r}
         /\ answer' \in [Requests -> Answers]
<1>1. PICK success \in {"created", "ok"} : Committed(r, success)
  BY DEF Write, CreateHost, DisableHost, CreateService, UpdateService, DisableService,
     CreateTask, UpdateTask, DisableTask
<1> QED
  BY <1>1 DEF Committed, Answers, RowsInv, TypeOK

\* A step of a request writes, ends, goes on or answers.
LEMMA StepCases ==
  ASSUME RowsInv, NEW r \in Requests,
         \/ HostRequest(r) \/ ServiceRequest(r) \/ TaskRequest(r)
         \/ BadInput(r) \/ Duplicate(r) \/ NothingChanged(r) \/ Fail(r)
         \/ Reply(r) \/ Drop(r)
  PROVE  Write(r) \/ Ends(r) \/ GoesOn(r) \/ Reply(r)
<1>1. ASSUME NEW why \in Answers, Refuse(r, why) PROVE Ends(r)
  BY <1>1 DEF Refuse, Ends, Answers, RowsInv, TypeOK
<1>2. CASE \/ List(r) \/ \E status : Get(r, status)
           \/ BadInput(r) \/ Duplicate(r) \/ NothingChanged(r) \/ Fail(r)
  <2>1. \E why \in Answers : Refuse(r, why)
    BY <1>2 DEF List, Get, BadInput, Duplicate, NothingChanged, Fail, Answers
  <2> QED
    BY <1>1, <2>1
<1>3. CASE Drop(r)
  BY <1>3 DEF Drop, Ends, RowsInv, TypeOK
<1>4. CASE \E h \in Hosts : UpdateHost(r, h)
  <2>1. \/ Refuse(r, "notFound")
        \/ Committed(r, "ok") /\ UNCHANGED tables
    BY <1>4 DEF UpdateHost
  <2>2. CASE Refuse(r, "notFound")
    BY <1>1, <2>2 DEF Answers
  <2>3. CASE Committed(r, "ok") /\ UNCHANGED tables
    BY <2>3 DEF Committed, Ends, Answers, RowsInv, TypeOK
  <2> QED
    BY <2>1, <2>2, <2>3
<1>5. CASE \E t \in Tasks : DisableTask(r, t)
  <2>1. CASE Refuse(r, "notFound")
    BY <1>1, <2>1 DEF Answers
  <2>2. CASE ~Refuse(r, "notFound")
    BY <1>5, <2>2 DEF Write
  <2> QED
    BY <2>1, <2>2
<1>6. CASE \/ \E h \in Hosts : CreateHost(r, h)
           \/ DisableHost(r)
           \/ CreateService(r) \/ UpdateService(r) \/ DisableService(r)
           \/ CreateTask(r) \/ UpdateTask(r)
  BY <1>6 DEF Write
<1>7. CASE \E h \in Hosts : CheckDisableHost(r, h)
  <2> PICK h \in Hosts : CheckDisableHost(r, h)
    BY <1>7
  <2>1. [op |-> "disableHost", id |-> h, parent |-> None] \in RequestType
    BY DEF RequestType
  <2>2. CASE Proceed(r, "disableHost", h, None) /\ ActiveServices(h) = {}
    BY <2>1, <2>2 DEF GoesOn
  <2>3. CASE \E why \in Answers : Refuse(r, why)
    BY <1>1, <2>3
  <2> QED
    BY <2>2, <2>3 DEF CheckDisableHost, Answers
<1>8. CASE \E s \in Services, h \in Hosts : CheckCreateService(r, s, h)
  <2> PICK s \in Services, h \in Hosts : CheckCreateService(r, s, h)
    BY <1>8
  <2>1. [op |-> "createService", id |-> s, parent |-> h] \in RequestType
    BY DEF RequestType
  <2>2. CASE Proceed(r, "createService", s, h) /\ host[h] = "active"
    BY <2>1, <2>2 DEF GoesOn
  <2>3. CASE \E why \in Answers : Refuse(r, why)
    BY <1>1, <2>3
  <2> QED
    BY <2>2, <2>3 DEF CheckCreateService, Answers
<1>9. CASE \E s \in Services, h \in Hosts : CheckUpdateService(r, s, h)
  <2> PICK s \in Services, h \in Hosts : CheckUpdateService(r, s, h)
    BY <1>9
  <2>1. [op |-> "updateService", id |-> s, parent |-> h] \in RequestType
    BY DEF RequestType
  <2>2. CASE /\ Proceed(r, "updateService", s, h)
             /\ host[h] = "active" /\ service[s].status # "absent"
    BY <2>1, <2>2 DEF GoesOn
  <2>3. CASE \E why \in Answers : Refuse(r, why)
    BY <1>1, <2>3
  <2> QED
    BY <2>2, <2>3 DEF CheckUpdateService, Answers
<1>10. CASE \E s \in Services : CheckDisableService(r, s)
  <2> PICK s \in Services : CheckDisableService(r, s)
    BY <1>10
  <2>1. [op |-> "disableService", id |-> s, parent |-> None] \in RequestType
    BY DEF RequestType
  <2>2. CASE /\ Proceed(r, "disableService", s, None)
             /\ ActiveTasks(s) = {} /\ service[s].status # "absent"
    BY <2>1, <2>2 DEF GoesOn
  <2>3. CASE \E why \in Answers : Refuse(r, why)
    BY <1>1, <2>3
  <2> QED
    BY <2>2, <2>3 DEF CheckDisableService, Answers
<1>11. CASE \E t \in Tasks, s \in Services : CheckCreateTask(r, t, s)
  <2> PICK t \in Tasks, s \in Services : CheckCreateTask(r, t, s)
    BY <1>11
  <2>1. [op |-> "createTask", id |-> t, parent |-> s] \in RequestType
    BY DEF RequestType
  <2>2. CASE Proceed(r, "createTask", t, s) /\ service[s].status = "active"
    BY <2>1, <2>2 DEF GoesOn
  <2>3. CASE \E why \in Answers : Refuse(r, why)
    BY <1>1, <2>3
  <2> QED
    BY <2>2, <2>3 DEF CheckCreateTask, Answers
<1>12. CASE \E t \in Tasks, s \in Services : GetTaskToUpdate(r, t, s)
  <2> PICK t \in Tasks, s \in Services : GetTaskToUpdate(r, t, s)
    BY <1>12
  <2>1. [op |-> "checkUpdateTask", id |-> t, parent |-> s] \in RequestType
    BY DEF RequestType
  <2>2. CASE Proceed(r, "checkUpdateTask", t, s) /\ task[t].status # "absent"
    BY <2>1, <2>2 DEF GoesOn
  <2>3. CASE \E why \in Answers : Refuse(r, why)
    BY <1>1, <2>3
  <2> QED
    BY <2>2, <2>3 DEF GetTaskToUpdate, Answers
<1>13. CASE CheckUpdateTask(r)
  <2>1. [op |-> "updateTask", id |-> Id(r), parent |-> Parent(r)] \in RequestType
    BY <1>13 DEF CheckUpdateTask, Asked, Id, Parent, RowsInv, TypeOK, RequestType
  <2>2. CASE /\ Proceed(r, "updateTask", Id(r), Parent(r))
             /\ service[Parent(r)].status = "active"
    <3>1. task[Id(r)].status # "absent"
      BY <1>13 DEF CheckUpdateTask, RowsInv, Referred
    <3> QED
      BY <2>1, <2>2, <3>1 DEF GoesOn
  <2>3. CASE \E why \in Answers : Refuse(r, why)
    BY <1>1, <2>3
  <2> QED
    BY <1>13, <2>2, <2>3 DEF CheckUpdateTask, Answers
<1>14. CASE HostRequest(r)
  BY <1>14, <1>2, <1>4, <1>6, <1>7, Zenon DEF HostRequest
<1>15. CASE ServiceRequest(r)
  BY <1>15, <1>2, <1>6, <1>8, <1>9, <1>10, Zenon DEF ServiceRequest
<1>16. CASE TaskRequest(r)
  BY <1>16, <1>2, <1>5, <1>6, <1>11, <1>12, <1>13, Zenon DEF TaskRequest
<1> QED
  BY <1>2, <1>3, <1>14, <1>15, <1>16, Zenon

\* The rows a waiting write is about.
LEMMA WriteAbout ==
  ASSUME RowsInv, NEW r \in Requests
  PROVE  /\ DisableHost(r) => Id(r) \in Hosts
         /\ CreateService(r) \/ UpdateService(r) => Id(r) \in Services /\ Parent(r) \in Hosts
         /\ DisableService(r) => Id(r) \in Services
         /\ CreateTask(r) \/ UpdateTask(r) => Id(r) \in Tasks /\ Parent(r) \in Services
<1>1. request[r] \in RequestType
  BY DEF RowsInv, TypeOK
<1> QED
  BY <1>1 DEF DisableHost, CreateService, UpdateService, DisableService, CreateTask, UpdateTask,
     Asked, Id, Parent, RequestType

\* No row goes away, and each still refers to one.
LEMMA WriteRows ==
  ASSUME RowsInv, NEW r \in Requests, Write(r)
  PROVE  /\ host' \in [Hosts -> {"absent", "active", "disabled"}]
         /\ service' \in [Services -> [status : {"absent", "active", "disabled"},
                                      host : Hosts \cup {None}]]
         /\ task' \in [Tasks -> [status : {"absent", "active", "disabled"},
                                service : Services \cup {None}]]
         /\ \A s \in Services : service'[s].status # "absent" => service'[s].host \in Hosts
         /\ \A t \in Tasks : task'[t].status # "absent" => task'[t].service \in Services
         /\ \A s \in Services : service[s].status # "absent" => service'[s].status # "absent"
         /\ \A t \in Tasks : task[t].status # "absent" => task'[t].status # "absent"
<1> USE DEF RowsInv, TypeOK, Referred
<1>1. CASE (\E h \in Hosts : CreateHost(r, h)) \/ DisableHost(r)
  BY <1>1, WriteAbout DEF CreateHost, DisableHost
<1>2. CASE CreateService(r)
  BY <1>2, WriteAbout DEF CreateService
<1>3. CASE UpdateService(r)
  <2>1. /\ Id(r) \in Services /\ Parent(r) \in Hosts /\ UNCHANGED <<host, task>>
        /\ service' = [service EXCEPT ![Id(r)].host = Parent(r)]
    BY <1>3, WriteAbout DEF UpdateService
  <2>2. \A s \in Services :
          /\ service'[s] \in [status : {"absent", "active", "disabled"}, host : Hosts \cup {None}]
          /\ service'[s].status = service[s].status
          /\ service'[s].host = service[s].host \/ service'[s].host \in Hosts
    BY <2>1
  <2>3. service' = [s \in Services |-> service'[s]]
    BY <2>1
  <2> QED
    BY <2>1, <2>2, <2>3
<1>4. CASE DisableService(r)
  <2>1. /\ service[Id(r)].status # "absent" /\ Id(r) \in Services
        /\ UNCHANGED <<host, task>>
        /\ service' = [service EXCEPT ![Id(r)].status = "disabled"]
    BY <1>4, WriteAbout DEF DisableService
  <2>2. \A s \in Services :
          /\ service'[s] \in [status : {"absent", "active", "disabled"}, host : Hosts \cup {None}]
          /\ service'[s].host = service[s].host
          /\ service'[s].status # "absent" <=> service[s].status # "absent"
    BY <2>1
  <2>3. service' = [s \in Services |-> service'[s]]
    BY <2>1
  <2> QED
    BY <2>1, <2>2, <2>3
<1>5. CASE CreateTask(r)
  BY <1>5, WriteAbout DEF CreateTask
<1>6. CASE UpdateTask(r)
  BY <1>6, WriteAbout DEF UpdateTask
<1>7. CASE \E t \in Tasks : ~Refuse(r, "notFound") /\ DisableTask(r, t)
  <2> PICK k \in Tasks : ~Refuse(r, "notFound") /\ DisableTask(r, k)
    BY <1>7
  <2>1. /\ task[k].status # "absent" /\ UNCHANGED <<host, service>>
        /\ task' = [task EXCEPT ![k].status = "disabled"]
    BY DEF DisableTask
  <2>2. \A t \in Tasks :
          /\ task'[t] \in [status : {"absent", "active", "disabled"}, service : Services \cup {None}]
          /\ task'[t].service = task[t].service
          /\ task'[t].status # "absent" <=> task[t].status # "absent"
    BY <2>1
  <2>3. task' = [t \in Tasks |-> task'[t]]
    BY <2>1
  <2> QED
    BY <2>1, <2>2, <2>3
<1> QED
  BY <1>1, <1>2, <1>3, <1>4, <1>5, <1>6, <1>7 DEF Write

LEMMA RowsInit == Init => RowsInv
BY DEF Init, RowsInv, TypeOK, Answers, RequestType, Referred, Idle, Asked

\* A request that is done wants nothing of the rows.
LEMMA RowsStep ==
  ASSUME RowsInv, [Next]_vars
  PROVE  RowsInv'
<1>1. ASSUME NEW r \in Requests, Write(r) PROVE RowsInv'
  <2>1. /\ Done(r) /\ wrote' \in SUBSET Requests /\ answer' \in [Requests -> Answers]
    BY <1>1, WriteCommits DEF RowsInv, TypeOK
  <2>2. request' \in [Requests -> RequestType]
    BY <2>1 DEF Done, Idle, RequestType, RowsInv, TypeOK
  <2>3. TypeOK'
    BY <1>1, <2>1, <2>2, WriteRows DEF TypeOK
  <2>4. \A q \in Requests : request'[q].op = "none" \/ request'[q] = request[q]
    BY <2>1 DEF Done, Idle, RowsInv, TypeOK
  <2>5. \A q \in Requests :
          /\ Asked(q, "updateService") \/ Asked(q, "disableService") => Id(q) \in Services
          /\ Asked(q, "checkUpdateTask") \/ Asked(q, "updateTask") => Id(q) \in Tasks
    BY DEF RowsInv, TypeOK, RequestType, Asked, Id
  <2>6. Referred'
    BY <1>1, <2>4, <2>5, WriteRows DEF RowsInv, Referred, Asked, Id
  <2> QED
    BY <2>3, <2>6 DEF RowsInv
<1>2. ASSUME NEW r \in Requests, Ends(r) PROVE RowsInv'
  <2>1. /\ request' \in [Requests -> RequestType]
        /\ \A q \in Requests : request'[q].op = "none" \/ request'[q] = request[q]
    BY <1>2 DEF Ends, Done, Idle, RequestType, RowsInv, TypeOK
  <2> QED
    BY <1>2, <2>1 DEF Ends, tables, RowsInv, TypeOK, Referred, Asked, Id
<1>3. ASSUME NEW r \in Requests, GoesOn(r) PROVE RowsInv'
  <2>1. PICK op, id, parent :
          /\ [op |-> op, id |-> id, parent |-> parent] \in RequestType
          /\ Proceed(r, op, id, parent)
          /\ op \in {"updateService", "disableService"} => service[id].status # "absent"
          /\ op \in {"checkUpdateTask", "updateTask"} => task[id].status # "absent"
    BY <1>3 DEF GoesOn
  <2>2. /\ request' \in [Requests -> RequestType]
        /\ request'[r] = [op |-> op, id |-> id, parent |-> parent]
        /\ \A q \in Requests \ {r} : request'[q] = request[q]
    BY <2>1 DEF Proceed, RowsInv, TypeOK
  <2>3. UNCHANGED <<host, service, task, answer, wrote>>
    BY <2>1 DEF Proceed, tables
  <2>4. TypeOK'
    BY <2>2, <2>3 DEF RowsInv, TypeOK
  <2>5. Referred'
    BY <2>1, <2>2, <2>3 DEF RowsInv, Referred, Asked, Id
  <2> QED
    BY <2>4, <2>5 DEF RowsInv
<1>4. ASSUME NEW r \in Requests, Reply(r) PROVE RowsInv'
  BY <1>4 DEF Reply, tables, Answers, RowsInv, TypeOK, Referred, Asked, Id
<1>5. CASE UNCHANGED vars
  BY <1>5 DEF vars, tables, RowsInv, TypeOK, Referred, Asked, Id
<1>6. CASE Next
  <2> PICK r \in Requests : Write(r) \/ Ends(r) \/ GoesOn(r) \/ Reply(r)
    BY <1>6, StepCases DEF Next
  <2> QED
    BY <1>1, <1>2, <1>3, <1>4
<1> QED
  BY <1>5, <1>6

\* However many requests run at a time: the types, and rows refer to rows.
THEOREM RowsReferToRows == Spec => [](TypeOK /\ Referred)
<1>1. RowsInv <=> TypeOK /\ Referred
  BY DEF RowsInv
<1> QED
  BY RowsInit, RowsStep, <1>1, PTL DEF Spec

----------------------------------------------------------------------------------
(* What a write does to the rows that depend on each other                      *)

\* A write whose request would still find what it has found.
LEMMA FreshWrite ==
  ASSUME RowsInv, ActiveOnActive, NEW r \in Requests, Write(r), Found(r)
  PROVE  ActiveOnActive'
<1> USE DEF RowsInv, TypeOK, Referred, ActiveOnActive
<1>1. CASE \E h \in Hosts : CreateHost(r, h)
  BY <1>1 DEF CreateHost
<1>2. CASE DisableHost(r)
  <2>1. \A s \in Services : service[s].status = "active" => service[s].host # Id(r)
    BY <1>2, WriteAbout DEF DisableHost, Found, ActiveServices
  <2> QED
    BY <1>2, <2>1, WriteAbout DEF DisableHost
<1>3. CASE CreateService(r) \/ UpdateService(r)
  <2>1. host[Parent(r)] = "active" /\ Id(r) \in Services /\ Parent(r) \in Hosts
    BY <1>3, WriteAbout DEF CreateService, UpdateService, Found
  <2>2. UNCHANGED <<host, task>>
    BY <1>3 DEF CreateService, UpdateService
  <2>3. \A s \in Services : /\ service[s].status = "active" => service'[s].status = "active"
                            /\ service'[s].status = "active" => host[service'[s].host] = "active"
    <3>1. CASE CreateService(r)
      BY <2>1, <3>1 DEF CreateService
    <3>2. CASE UpdateService(r)
      BY <2>1, <3>2 DEF UpdateService
    <3> QED
      BY <1>3, <3>1, <3>2
  <2> QED
    BY <2>2, <2>3
<1>4. CASE DisableService(r)
  <2>1. \A t \in Tasks : task[t].status = "active" => task[t].service # Id(r)
    BY <1>4, WriteAbout DEF DisableService, Found, ActiveTasks
  <2> QED
    BY <1>4, <2>1, WriteAbout DEF DisableService
<1>5. CASE CreateTask(r) \/ UpdateTask(r)
  <2>1. service[Parent(r)].status = "active" /\ Id(r) \in Tasks /\ Parent(r) \in Services
    BY <1>5, WriteAbout DEF CreateTask, UpdateTask, Found
  <2>2. UNCHANGED <<host, service>>
    BY <1>5 DEF CreateTask, UpdateTask
  <2>3. \A t \in Tasks : task'[t].status = "active" => service[task'[t].service].status = "active"
    <3>1. CASE CreateTask(r)
      BY <2>1, <3>1 DEF CreateTask
    <3>2. CASE UpdateTask(r)
      BY <2>1, <3>2 DEF UpdateTask
    <3> QED
      BY <1>5, <3>1, <3>2
  <2> QED
    BY <2>2, <2>3
<1>6. CASE \E t \in Tasks : ~Refuse(r, "notFound") /\ DisableTask(r, t)
  BY <1>6 DEF DisableTask
<1> QED
  BY <1>1, <1>2, <1>3, <1>4, <1>5, <1>6 DEF Write

\* A step that changes rows is a write.
LEMMA OnlyWritesWrite ==
  ASSUME RowsInv, [Next]_vars, ~UNCHANGED tables
  PROVE  \E r \in Requests : Write(r)
<1>1. PICK r \in Requests : Write(r) \/ Ends(r) \/ GoesOn(r) \/ Reply(r)
  BY StepCases DEF Next, vars, tables
<1> QED
  BY <1>1 DEF Ends, GoesOn, Proceed, Reply

\* What disables a host or a service in use.
LEMMA FreshDisable ==
  ASSUME RowsInv, NEW r \in Requests, Write(r), Found(r)
  PROVE  /\ \A h \in Hosts : host[h] = "active" /\ host'[h] = "disabled" => ActiveServices(h) = {}
         /\ \A s \in Services :
              service[s].status = "active" /\ service'[s].status = "disabled" => ActiveTasks(s) = {}
<1> USE DEF RowsInv, TypeOK
<1>1. CASE \E h \in Hosts : CreateHost(r, h)
  BY <1>1 DEF CreateHost
<1>2. CASE DisableHost(r)
  BY <1>2, WriteAbout DEF DisableHost, Found
<1>3. CASE CreateService(r)
  BY <1>3, WriteAbout DEF CreateService
<1>4. CASE UpdateService(r)
  BY <1>4, WriteAbout DEF UpdateService
<1>5. CASE DisableService(r)
  BY <1>5, WriteAbout DEF DisableService, Found
<1>6. CASE CreateTask(r) \/ UpdateTask(r) \/ \E t \in Tasks : ~Refuse(r, "notFound") /\ DisableTask(r, t)
  BY <1>6 DEF CreateTask, UpdateTask, DisableTask
<1> QED
  BY <1>1, <1>2, <1>3, <1>4, <1>5, <1>6 DEF Write

\* Who has found something keeps it while the rows do not change, whoever goes on.
LEMMA FoundStays ==
  ASSUME RowsInv, NEW q \in Requests, Found(q), UNCHANGED tables,
         request'[q] = request[q]
  PROVE  Found(q)'
BY DEF tables, Found, Asked, Id, Parent, ActiveServices, ActiveTasks

\* A request that ends needs nothing any more.
LEMMA DoneFound ==
  ASSUME RowsInv, NEW r \in Requests, Done(r)
  PROVE  /\ Found(r)'
         /\ \A q \in Requests : q # r => request'[q] = request[q]
<1>1. /\ request'[r].op = "none"
      /\ \A q \in Requests : q # r => request'[q] = request[q]
  BY DEF Done, Idle, RowsInv, TypeOK
<1> QED
  BY <1>1 DEF Found, Asked

\* A request that goes on has found what it goes on with.
LEMMA GoesOnFound ==
  ASSUME RowsInv, NEW r \in Requests, GoesOn(r)
  PROVE  /\ Found(r)' /\ UNCHANGED tables
         /\ \A q \in Requests : q # r => request'[q] = request[q]
<1>1. PICK op, id, parent :
        /\ Proceed(r, op, id, parent)
        /\ op = "disableHost" => ActiveServices(id) = {}
        /\ op = "disableService" => ActiveTasks(id) = {}
        /\ op \in {"createService", "updateService"} => host[parent] = "active"
        /\ op \in {"createTask", "updateTask"} => service[parent].status = "active"
  BY DEF GoesOn
<1>2. /\ request'[r] = [op |-> op, id |-> id, parent |-> parent]
      /\ \A q \in Requests : q # r => request'[q] = request[q]
  BY <1>1 DEF RowsInv, TypeOK, Proceed
<1>3. host' = host /\ service' = service /\ task' = task
  BY <1>1 DEF Proceed, tables
<1> QED
  BY <1>1, <1>2, <1>3 DEF tables, Found, Asked, Id, Parent, ActiveServices, ActiveTasks

\* What a request has found stops being true only by the write of another one.
LEMMA FoundStep ==
  ASSUME RowsInv, [Next]_vars, NEW q \in Requests, Found(q), ~Found(q)'
  PROVE  \E r \in Requests : r # q /\ Write(r)
<1>1. CASE UNCHANGED <<tables, request>>
  BY <1>1, FoundStays
<1>2. ASSUME NEW r \in Requests, Ends(r) PROVE FALSE
  <2>1. CASE r = q
    BY <1>2, <2>1, DoneFound DEF Ends
  <2>2. CASE r # q
    BY <1>2, <2>2, DoneFound, FoundStays DEF Ends
  <2> QED
    BY <2>1, <2>2
<1>3. ASSUME NEW r \in Requests, GoesOn(r) PROVE FALSE
  <2>1. CASE r = q
    BY <1>3, <2>1, GoesOnFound
  <2>2. CASE r # q
    BY <1>3, <2>2, GoesOnFound, FoundStays
  <2> QED
    BY <2>1, <2>2
<1>4. ASSUME NEW r \in Requests, Write(r) PROVE r # q
  BY <1>4, WriteCommits, DoneFound
<1>5. CASE \E r \in Requests : Write(r) \/ Ends(r) \/ GoesOn(r) \/ Reply(r)
  BY <1>1, <1>2, <1>3, <1>4, <1>5 DEF Reply
<1> QED
  BY <1>1, <1>5, StepCases DEF Next, vars

\* A write is counted when it is made.
LEMMA WriteCounts ==
  ASSUME RowsInv, AInv, NEW r \in Requests, Write(r)
  PROVE  r \in wrote' /\ r \notin wrote
<1>1. wrote' = wrote \cup {r}
  BY WriteCommits
<1>2. answer[r] = "none"
  BY DEF Write, CreateHost, DisableHost, CreateService, UpdateService, DisableService,
     CreateTask, UpdateTask, DisableTask, Begins, Asked, AInv, Idle
<1> QED
  BY <1>1, <1>2 DEF AInv

\* However many requests run at a time: the write that makes something active
\* depend on a disabled row, or disables a row in use, is that of a request whose
\* checks have been overtaken.
THEOREM OnlyStaleWritesBreak == Spec => OnlyStaleWrites
<1>1. ASSUME RowsInv, AInv, [Next]_vars
      PROVE  [\/ ActiveOnActive /\ ~ActiveOnActive'
              \/ \E h \in Hosts : host[h] = "active" /\ host'[h] = "disabled" /\ ActiveServices(h) # {}
              \/ \E s \in Services : /\ service[s].status = "active" /\ service'[s].status = "disabled"
                                     /\ ActiveTasks(s) # {}
              => \E r \in wrote' \ wrote : ~Found(r)]_vars
  <2>1. CASE UNCHANGED tables
    <3>1. host' = host /\ service' = service /\ task' = task
      BY <2>1 DEF tables
    <3> QED
      BY <3>1 DEF ActiveOnActive
  <2>2. CASE ~UNCHANGED tables
    <3> PICK r \in Requests : Write(r)
      BY <1>1, <2>2, OnlyWritesWrite
    <3>1. r \in wrote' /\ r \notin wrote
      BY <1>1, WriteCounts
    <3>2. CASE Found(r)
      BY <1>1, <3>2, FreshWrite, FreshDisable
    <3>3. CASE ~Found(r)
      BY <3>1, <3>3
    <3> QED
      BY <3>2, <3>3
  <2> QED
    BY <2>1, <2>2
<1> QED
  BY RowsInit, RowsStep, InitAInv, NextAInv, <1>1, PTL DEF Spec, OnlyStaleWrites

\* However many requests run at a time: no request overtakes its own checks.
THEOREM OnlyOthersMakeStale == Spec => OthersMakeStale
<1>1. ASSUME RowsInv, AInv, [Next]_vars
      PROVE  [\A r \in Requests : Found(r) /\ ~Found(r)' => \E q \in wrote' \ wrote : q # r]_vars
  BY <1>1, FoundStep, WriteCounts
<1> QED
  BY RowsInit, RowsStep, InitAInv, NextAInv, <1>1, PTL DEF Spec, OthersMakeStale

===================================================================================
