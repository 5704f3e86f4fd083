---------------------------------- MODULE Assets ----------------------------------
(* Hosts, monitored services and probe tasks as the API changes them            *)
(* (internal/asset, internal/probe TaskService).                                *)
(*                                                                              *)
(* A request first reads what its checks need, one query after the other, and   *)
(* then writes in a transaction of its own that does not check again; the audit *)
(* entry of the change is part of that transaction.  The API serves several     *)
(* requests at a time, in several processes.  Rows are disabled, never enabled  *)
(* again or deleted.                                                            *)
EXTENDS Naturals

CONSTANTS
  Hosts, Services, Tasks,
  None,       \* no row
  Requests    \* the requests the API serves at a time

ASSUME AssetsAssumption == None \notin Hosts \cup Services \cup Tasks

VARIABLES
  host,      \* hosts: status, "absent" while there is no row
  service,   \* monitored_services: status and host_id
  task,      \* probe_tasks: status and service_id
  request,   \* what a request has found it may do
  answer,    \* what it is answered, "none" while it is not
  wrote      \* the requests whose transaction committed

tables == <<host, service, task>>
vars == <<tables, request, answer, wrote>>

Idle == [op |-> "none", id |-> None, parent |-> None]

Init ==
  /\ host = [h \in Hosts |-> "absent"]
  /\ service = [s \in Services |-> [status |-> "absent", host |-> None]]
  /\ task = [t \in Tasks |-> [status |-> "absent", service |-> None]]
  /\ request = [r \in Requests |-> Idle]
  /\ answer = [r \in Requests |-> "none"]
  /\ wrote = {}

\* A request passes a check; what it will do next, on which rows.
Proceed(r, op, id, parent) ==
  /\ request' = [request EXCEPT ![r] = [op |-> op, id |-> id, parent |-> parent]]
  /\ UNCHANGED <<tables, answer, wrote>>

Done(r) == request' = [request EXCEPT ![r] = Idle]

\* A request ends without a change, and why (200 after reading, 400, 404, 409 or 500).
Refuse(r, why) ==
  /\ Done(r)
  /\ answer' = [answer EXCEPT ![r] = why]
  /\ UNCHANGED <<tables, wrote>>

\* The transaction commits.  The reply may get lost, and an update still reads
\* the row it changed: either error is answered with 500.
Committed(r, success) ==
  /\ Done(r)
  /\ wrote' = wrote \cup {r}
  /\ \E a \in {success, "error"} : answer' = [answer EXCEPT ![r] = a]

Begins(r) == request[r] = Idle /\ answer[r] = "none"
Asked(r, op) == request[r].op = op

\* A request that reads a row, and one that reads a page of them, changes nothing.
Get(r, status) ==
  Begins(r) /\ Refuse(r, IF status = "absent" THEN "notFound" ELSE "found")
List(r) == Begins(r) /\ Refuse(r, "found")

\* The rows its write is about.
Id(r) == request[r].id
Parent(r) == request[r].parent

ActiveServices(h) == {s \in Services : service[s] = [status |-> "active", host |-> h]}
ActiveTasks(s) == {t \in Tasks : task[t] = [status |-> "active", service |-> s]}

----------------------------------------------------------------------------------
(* Hosts                                                                        *)

CreateHost(r, h) ==
  /\ Begins(r)
  /\ host[h] = "absent"
  /\ host' = [host EXCEPT ![h] = "active"]
  /\ Committed(r, "created")
  /\ UNCHANGED <<service, task>>

\* Faulty variant: the status is written with the other columns.
UpdateHostStatus(r, h) ==
  /\ Begins(r)
  /\ host[h] # "absent"
  /\ \E status \in {"active", "disabled"} : host' = [host EXCEPT ![h] = status]
  /\ Committed(r, "ok")
  /\ UNCHANGED <<service, task>>

\* A host may be changed whatever its status; none of what changes is modelled.
UpdateHost(r, h) ==
  /\ Begins(r)
  /\ \/ host[h] = "absent" /\ Refuse(r, "notFound")
     \/ host[h] # "absent" /\ Committed(r, "ok") /\ UNCHANGED tables

\* DisableHost counts the active services; any is a conflict.
CheckDisableHost(r, h) ==
  /\ Begins(r)
  /\ \/ host[h] = "absent" /\ Refuse(r, "notFound")
     \/ ActiveServices(h) # {} /\ Refuse(r, "conflict")
     \/ /\ host[h] # "absent"
        /\ ActiveServices(h) = {}
        /\ Proceed(r, "disableHost", h, None)

DisableHost(r) ==
  /\ Asked(r, "disableHost")
  /\ host' = [host EXCEPT ![Id(r)] = "disabled"]
  /\ Committed(r, "ok")
  /\ UNCHANGED <<service, task>>

----------------------------------------------------------------------------------
(* Monitored services                                                           *)

\* The host must be there and active.
CheckCreateService(r, s, h) ==
  /\ Begins(r)
  /\ service[s].status = "absent"
  /\ \/ host[h] = "absent" /\ Refuse(r, "notFound")
     \/ host[h] = "disabled" /\ Refuse(r, "conflict")
     \/ host[h] = "active" /\ Proceed(r, "createService", s, h)

CreateService(r) ==
  /\ Asked(r, "createService")
  /\ service[Id(r)].status = "absent"
  /\ service' = [service EXCEPT ![Id(r)] = [status |-> "active", host |-> Parent(r)]]
  /\ Committed(r, "created")
  /\ UNCHANGED <<host, task>>

\* The new host must be active, the service need not be.
CheckUpdateService(r, s, h) ==
  /\ Begins(r)
  /\ \/ /\ service[s].status = "absent" \/ host[h] = "absent"
        /\ Refuse(r, "notFound")
     \/ service[s].status # "absent" /\ host[h] = "disabled" /\ Refuse(r, "conflict")
     \/ /\ service[s].status # "absent"
        /\ host[h] = "active"
        /\ Proceed(r, "updateService", s, h)

UpdateService(r) ==
  /\ Asked(r, "updateService")
  /\ service' = [service EXCEPT ![Id(r)].host = Parent(r)]
  /\ Committed(r, "ok")
  /\ UNCHANGED <<host, task>>

\* DisableMonitoredService counts the active tasks; any is a conflict.
CheckDisableService(r, s) ==
  /\ Begins(r)
  /\ \/ service[s].status = "absent" /\ Refuse(r, "notFound")
     \/ ActiveTasks(s) # {} /\ Refuse(r, "conflict")
     \/ /\ service[s].status # "absent"
        /\ ActiveTasks(s) = {}
        /\ Proceed(r, "disableService", s, None)

DisableService(r) ==
  /\ Asked(r, "disableService")
  /\ service' = [service EXCEPT ![Id(r)].status = "disabled"]
  /\ Committed(r, "ok")
  /\ UNCHANGED <<host, task>>

----------------------------------------------------------------------------------
(* Probe tasks                                                                  *)

\* The service must be there and active.
CheckCreateTask(r, t, s) ==
  /\ Begins(r)
  /\ task[t].status = "absent"
  /\ \/ service[s].status = "absent" /\ Refuse(r, "notFound")
     \/ service[s].status = "disabled" /\ Refuse(r, "conflict")
     \/ service[s].status = "active" /\ Proceed(r, "createTask", t, s)

CreateTask(r) ==
  /\ Asked(r, "createTask")
  /\ task[Id(r)].status = "absent"
  /\ task' = [task EXCEPT ![Id(r)] = [status |-> "active", service |-> Parent(r)]]
  /\ Committed(r, "created")
  /\ UNCHANGED <<host, service>>

\* Update reads the task first and the service then; both must be active.  A task
\* once disabled stays so: its request is refused whatever the service is.
GetTaskToUpdate(r, t, s) ==
  /\ Begins(r)
  /\ \/ task[t].status = "absent" /\ Refuse(r, "notFound")
     \/ task[t].status = "disabled" /\ \E why \in {"notFound", "conflict"} : Refuse(r, why)
     \/ task[t].status = "active" /\ Proceed(r, "checkUpdateTask", t, s)

\* Faulty variant: only the task has to be active.
CheckUpdateTaskAnyService(r) ==
  /\ Asked(r, "checkUpdateTask")
  /\ Proceed(r, "updateTask", Id(r), Parent(r))

CheckUpdateTask(r) ==
  /\ Asked(r, "checkUpdateTask")
  /\ \/ service[Parent(r)].status = "absent" /\ Refuse(r, "notFound")
     \/ service[Parent(r)].status = "disabled" /\ Refuse(r, "conflict")
     \/ service[Parent(r)].status = "active" /\ Proceed(r, "updateTask", Id(r), Parent(r))

UpdateTask(r) ==
  /\ Asked(r, "updateTask")
  /\ task' = [task EXCEPT ![Id(r)].service = Parent(r)]
  /\ Committed(r, "ok")
  /\ UNCHANGED <<host, service>>

\* Disable checks nothing but that the task exists.
DisableTask(r, t) ==
  /\ Begins(r)
  /\ \/ task[t].status = "absent" /\ Refuse(r, "notFound")
     \/ /\ task[t].status # "absent"
        /\ task' = [task EXCEPT ![t].status = "disabled"]
        /\ Committed(r, "ok")
        /\ UNCHANGED <<host, service>>

----------------------------------------------------------------------------------
(* How a request ends otherwise                                                 *)

\* The identifier, the body or a value in it is not valid.
BadInput(r) == Begins(r) /\ Refuse(r, "badRequest")

\* A unique name is taken.
Duplicate(r) ==
  /\ \/ Begins(r)
     \/ request[r].op \in {"createService", "updateService", "createTask", "updateTask"}
  /\ Refuse(r, "conflict")

\* MySQL counts changed rows: what changes nothing within the millisecond of
\* updated_at looks like a missing row.
NothingChanged(r) ==
  /\ \/ Begins(r) /\ \E h \in Hosts : host[h] # "absent"
     \/ Begins(r) /\ \E t \in Tasks : task[t].status = "disabled"
     \/ Asked(r, "disableHost") /\ host[Id(r)] = "disabled"
     \/ Asked(r, "updateService") /\ service[Id(r)].host = Parent(r)
     \/ Asked(r, "disableService") /\ service[Id(r)].status = "disabled"
     \/ Asked(r, "updateTask") /\ task[Id(r)].service = Parent(r)
  /\ Refuse(r, "notFound")

\* A query fails, or the transaction does and is rolled back, its audit entry
\* with it.
Fail(r) == answer[r] = "none" /\ Refuse(r, "error")

\* The handler answers.
Reply(r) ==
  /\ answer[r] # "none"
  /\ answer' = [answer EXCEPT ![r] = "none"]
  /\ wrote' = wrote \ {r}
  /\ UNCHANGED <<tables, request>>

\* The process dies between two statements.
Drop(r) ==
  /\ request[r] # Idle
  /\ Done(r)
  /\ UNCHANGED <<tables, answer, wrote>>

\* What the handlers of each kind of row do.
HostRequest(r) ==
  \/ List(r)
  \/ \E h \in Hosts :
       Get(r, host[h]) \/ CreateHost(r, h) \/ UpdateHost(r, h) \/ CheckDisableHost(r, h)
  \/ DisableHost(r)

ServiceRequest(r) ==
  \/ List(r)
  \/ \E s \in Services :
       \/ Get(r, service[s].status)
       \/ \E h \in Hosts : CheckCreateService(r, s, h) \/ CheckUpdateService(r, s, h)
       \/ CheckDisableService(r, s)
  \/ CreateService(r) \/ UpdateService(r) \/ DisableService(r)

TaskRequest(r) ==
  \/ List(r)
  \/ \E t \in Tasks :
       \/ Get(r, task[t].status)
       \/ \E s \in Services : CheckCreateTask(r, t, s) \/ GetTaskToUpdate(r, t, s)
       \/ DisableTask(r, t)
  \/ CreateTask(r) \/ CheckUpdateTask(r) \/ UpdateTask(r)

Next ==
  \E r \in Requests :
    \/ HostRequest(r) \/ ServiceRequest(r) \/ TaskRequest(r)
    \/ BadInput(r) \/ Duplicate(r) \/ NothingChanged(r) \/ Fail(r)
    \/ Reply(r) \/ Drop(r)

Spec == Init /\ [][Next]_vars

----------------------------------------------------------------------------------
(* Properties                                                                   *)

\* What is active depends on active rows only, so that every active task is
\* scheduled and every disabled host is left alone.  Requests that overtake each
\* other break it; OnlyStaleWrites says which.
ActiveOnActive ==
  /\ \A s \in Services : service[s].status = "active" => host[service[s].host] = "active"
  /\ \A t \in Tasks : task[t].status = "active" => service[task[t].service].status = "active"

\* HostsPage.tsx:34 and ServicesPage.tsx:26: a host with an active service, or a
\* service with an active task, is not disabled.
DisableRefusedInUse ==
  [][/\ \A h \in Hosts : host'[h] = "disabled" /\ host[h] = "active" => ActiveServices(h) = {}
     /\ \A s \in Services :
          service'[s].status = "disabled" /\ service[s].status = "active" => ActiveTasks(s) = {}
    ]_vars

----------------------------------------------------------------------------------
(* Why the properties hold                                                      *)

Answers == {"none", "created", "ok", "found", "badRequest", "notFound", "conflict", "error"}

RequestType ==
  [op : {"none"}, id : {None}, parent : {None}]
  \cup [op : {"disableHost"}, id : Hosts, parent : {None}]
  \cup [op : {"createService", "updateService"}, id : Services, parent : Hosts]
  \cup [op : {"disableService"}, id : Services, parent : {None}]
  \cup [op : {"createTask", "checkUpdateTask", "updateTask"}, id : Tasks, parent : Services]

TypeOK ==
  /\ host \in [Hosts -> {"absent", "active", "disabled"}]
  /\ service \in [Services -> [status : {"absent", "active", "disabled"}, host : Hosts \cup {None}]]
  /\ task \in [Tasks -> [status : {"absent", "active", "disabled"},
                         service : Services \cup {None}]]
  /\ request \in [Requests -> RequestType]
  /\ answer \in [Requests -> Answers]
  /\ wrote \in SUBSET Requests

\* A row that exists refers to a row, and a row that a request has found is never
\* deleted.
Referred ==
  /\ \A s \in Services : service[s].status # "absent" => service[s].host \in Hosts
  /\ \A t \in Tasks : task[t].status # "absent" => task[t].service \in Services
  /\ \A r \in Requests :
       /\ Asked(r, "updateService") \/ Asked(r, "disableService") =>
            service[Id(r)].status # "absent"
       /\ Asked(r, "checkUpdateTask") \/ Asked(r, "updateTask") => task[Id(r)].status # "absent"

\* What a request has found still holds.  Nothing but the other requests can
\* change that.
Found(r) ==
  /\ Asked(r, "disableHost") => ActiveServices(Id(r)) = {}
  /\ Asked(r, "disableService") => ActiveTasks(Id(r)) = {}
  /\ Asked(r, "createService") \/ Asked(r, "updateService") => host[Parent(r)] = "active"
  /\ Asked(r, "createTask") \/ Asked(r, "updateTask") => service[Parent(r)].status = "active"

\* Of any number of requests: what is active comes to depend on a disabled row, or
\* a row in use is disabled, only by the write of a request that has not found
\* what it would find now.
OnlyStaleWrites ==
  [][\/ ActiveOnActive /\ ~ActiveOnActive'
     \/ \E h \in Hosts : host[h] = "active" /\ host'[h] = "disabled" /\ ActiveServices(h) # {}
     \/ \E s \in Services : /\ service[s].status = "active" /\ service'[s].status = "disabled"
                            /\ ActiveTasks(s) # {}
     => \E r \in wrote' \ wrote : ~Found(r)]_vars

\* What a request has found stops being true only by the write of another one: no
\* request goes on with less than its own checks, and none undoes them itself.
OthersMakeStale ==
  [][\A r \in Requests : Found(r) /\ ~Found(r)' => \E q \in wrote' \ wrote : q # r]_vars
===================================================================================
