# CloudSentinel: formal models

TLA+ models of CloudSentinel (Go API and worker processes, MySQL, Redis Streams,
Alertmanager), the TLC configurations that check them and TLAPS proofs about
them. Source paths are relative to the repository.

## 1. The system

Two kinds of stateless processes share MySQL, the source of truth, and a Redis
stream that delivers at least once. The API changes assets, tasks and incidents.
Each worker process runs a scheduler, a recovery dispatcher, a stream reader, a
claimer and a pool of goroutines that probe targets. Prometheus reads the results
as a gauge; Alertmanager posts alerts back to the API, which turns them into
incidents.

```
 API --tasks, services--> MySQL <--ScheduleDue-- scheduler --XADD--> Redis stream
                            ^                    dispatcher --XADD-->   |
                            |                                           v
                            +-- Acquire, MarkFinal -- goroutines <-- reader, claimer
                            |
 worker gauge --> Prometheus --> Alertmanager --webhook--> API --> incidents
```

| Component | State | Operations | Hard part |
|---|---|---|---|
| Probe pipeline (`internal/probe`: scheduler, stream, consumer, processor) | rows of `probe_results`; stream, consumer group, pending entries; channel and goroutines of each process | publish, republish, read, claim, acquire, finish, acknowledge | two stores without a common transaction; crashes; duplicates; takeover by clock |
| Schedule and tasks (`repository.go`, `task_service.go`) | `probe_tasks`, `services.status`, row locks | ScheduleDue; create, update, disable | concurrent schedulers, clocks that differ, rollbacks |
| Probe execution (`execution.go`, `*_probe.go`, `network_policy.go`) | loop variable, last outcome | attempt, back off, abandon | time spent against the idle timeout; which failures are retried |
| Incidents (`internal/incident`) | `incidents`, audit entries | ingest a group, resolve, acknowledge, process, close | partly written notifications, repeats that overtake each other, alerts that share an event, users who act at once |
| Assets (`internal/asset`) | `hosts`, `services`, `probe_tasks` status and references | create, update, disable | checks and write are separate statements |
| Authentication (`internal/auth`) | users, audit entries of logins; tokens are signed and kept by clients only | bootstrap, login, me, every request with a token | replicas that bootstrap at once with different passwords; tokens that outlive the account |
| Metrics and alert rules (`internal/platform/metrics`, `deploy/prometheus`) | gauge of the latest result, alerts | collect, evaluate | executions that finish out of order, lost scrapes, labels that change |
| Web console (`web/src`) | token in sessionStorage, user and loading in memory, the page shown | load, reload, login, logout, timeout | answers that arrive when the tab is another, or never |
| Process start and stop (`cmd`) | contexts, channel, goroutines, requests in progress | start, cancel, drain, end | order of cancellation, a full channel, a deadline |
| GitOps promotion (`scripts`, `.github/workflows`) | image digests per environment | release, promote | overlapping workflows |

What makes each correct:

- *pipeline*: every scheduled execution gets exactly one final result; a message
  is acknowledged only after it; a row in state running can always be recovered.
- *schedule*: a due time runs once, missed ones are skipped, disabled tasks do not
  run, due tasks are eventually scheduled.
- *execution*: a probe ends before another worker may take it over; the attempts it
  made are counted.
- *incidents*: the documented life cycle; what was answered with 200 is stored;
  columns and audit log agree; incidents rest on alerts that fired, and an alert that
  ended resolves its incident.
- *assets*: what is active depends on active rows only, nothing in use is disabled.
- *worker process*: it ends when told to, leaves what it had pending, and sends
  nothing on the closed channel.
- *authentication*: the first user is created once and never reset, losing that race
  is no error, a login is audited before its token leaves, a disabled account has
  access for a bounded time.
- *API replicas*: an orderly stop cuts no request short and ends in any case.
- *console*: nothing in a tab waits for ever; a 401 ends at the login page.
- *alerts*: they rest on the newest finished probe, fire while probes fail, end when
  one succeeds.

## 2. Modules

| Module | Models |
|---|---|
| `ExecutionLifecycle` | abstract: what the pipeline promises about one row of `probe_results` |
| `ProbePipeline` | `Scheduler.cycle`, `RecoveryDispatcher.Run`, `Consumer.readLoop/claimLoop/worker`, `Processor.Process`, the repository methods they call; implements `ExecutionLifecycle` and `MessageDelivery` |
| `MessageDelivery` | abstract: what the stream and its group promise about a message |
| `TaskSchedule` | abstract: a batch of due tasks run in one step |
| `Scheduler` | `ScheduleDue` as a locking transaction beside `TaskService` and `DisableMonitoredService`; implements `TaskSchedule` |
| `ProbeRetry` | `ExecuteWithRetry`, `retryable`, what the HTTP and TCP probes return |
| `WorkerProcess` | `Consumer.Run` from start to end: both loops with their batches, the bounded channel, the pool, undecodable messages, cancellation; implements `MessageDelivery` |
| `IncidentLifecycle` | abstract: docs/api.md:26 with the audit trail |
| `Incident` | `Service.Ingest`, `UpsertFiring`, `Resolve`, `Transition`; Alertmanager and users around them; implements `IncidentLifecycle` |
| `Assets` | the handlers of hosts, services and tasks with `AssetService` and `TaskService`: checks, writes, answers |
| `Account` | abstract: one account, the tokens somebody holds, the requests they let in |
| `Access` | `run` of the API from start to end, `Bootstrap`, `Service.Login`, `Service.Me`, the token middleware |
| `Console` | browser tabs on top of `Access`: `AuthProvider`, `request`, `ProtectedRoute`, `LoginPage`; implements `Account` |
| `FailureAlert` | abstract: an alert counts the evaluations at which the newest result seen is a failure |
| `Alerts` | `latestProbeCollector`, Prometheus' scrapes and the rule `CloudSentinelProbeFailure`; implements `FailureAlert` |
| `MC*` | constants, symmetry and clock functions for TLC |
| `*Proofs` | theorems for TLAPS |

The modules about probes meet at four seams. The scheduler's transaction is one
step of the pipeline (`ScheduleDue`); `Scheduler` implements `TaskSchedule`, where
it is one step too. `MessageDelivery` is what the pipeline of many processes and one
process seen from within (`WorkerProcess`) both implement: delivered in the order of
the stream, pending from then on, acknowledged when final. The pipeline takes
the length of a probe as a constant `MaxRun`; `ProbeRetry` shows that the limits of
the API keep it below `MESSAGE_IDLE_TIMEOUT`. The pipeline assumes that every
pending entry is claimed in its turn (its fairness of `AutoClaim`), whatever else
is pending and however often processes stop; `WorkerProcess` shows it of the
claimer's cursor, the channel and the end of `Consumer.Run` (`Consumed`).
`Console` extends `Access`: its tabs send the requests the replicas answer.
`Alerts` ends where `Incident` begins, at what Alertmanager is told: a series of
`Alerts`, one per worker process, is an alert of the group in `Incident`.

### State and code

*ProbePipeline.* `status`, `owner`, `age` are the columns status, worker_consumer
and the time since updated_at. `stream`, `read`, `pel`, `idle` are the stream, the
group's last delivered id, its pending entries and how long each was not
delivered. `outbox` and `redo` are what a scheduler and a dispatcher still have to
publish; `jobs` the channel; `pc`, `job`, `ran` a goroutine. One action per
statement or Redis call, so that other processes run between any two. Errors
(`Fault`) cover a call that fails without effect and one that fails after it took
effect. A crash forgets what the process held and keeps what MySQL and Redis
hold. Each process has its own clock (`Skew`). A process that starts has a name
never used before, as `consumerName` draws it at random.

*Scheduler.* A transaction is `Select` (reads and locks due rows, skipping locked
ones), then `Commit` or `Rollback`. The API's writes wait for locked rows, a write
with a foreign key for the row it refers to. What an API request saw before its
write may be stale, so the write is not conditional on it.

*ProbeRetry.* `elapsed` adds up attempts (each at most its deadline) and delays.
The outcomes of an attempt are those of `HTTPProbe.Execute`, `TCPProbe.Execute`
and `classified`, each with the kind of its error.

*Incident.* A webhook request is ingested alert by alert, `Resolve` as its UPDATE
and its INSERT. MySQL reports changed rows, so an UPDATE that changes nothing looks
like a missing row. Alertmanager waits for one request of the group, may give up
and send the group again, and drops a resolved alert once it was told 200. Prometheus
scrapes each worker pod for itself
(`deploy/gitops-repository/platform/cloudsentinel-monitoring/overlays/lab/prometheus-config.yaml`,
two pods in
`deploy/gitops-repository/apps/cloudsentinel/base/deployment-worker.yaml:8`), so a group
has an alert of each. `key` is the event key of an alert, made of the time it began and
labels that do not name the pod (`internal/incident/service.go:97`): alerts of two pods
that begin at the same evaluation share it, and with it their incident. `Fire(e)` is
that evaluation: all alerts with key `e` begin at once. Which alerts have a key in
common is open (`Keys`).

*Assets.* `request[r]` is what a request found; its write comes later and does not
check again. `CreateHost` and `DisableTask` need no check of another row and are
one step. `answer[r]` is what the handler answers and `wrote` the requests whose
transaction, audit entry included, committed; a commit whose reply got lost and a
row that cannot be read again after its update are answered with 500.

*WorkerProcess.* `at` and `batch` are where the reader and the claimer are and what
they received and have not handed on, `start` the claimer's cursor, `jobs` and
`closed` the channel, `pc` and `job` the goroutines. `old` are the pending entries
that are idle long enough to be claimed. `Stops` and `Consumed` hold of one
process among others, because processes share nothing but Redis and MySQL, which
other processes' steps change no more than `Publish`, `Age` and `LoseGroup` do.

*Access.* `phase[r]` is where `run` of a replica is, `config[r]` what it was started
with, `excused` the replicas that met an error of MySQL or a timeout in their life:
`RaceIsNoError` lets only those, and misconfigured ones, fail. `req[q]` is a request
with the replica at work on it. `found` in a token, when its login read the row, is
there for `AccessEnds` and is no part of the code. True time is `now`, a replica's
clock runs `Skew` ahead.

*Console.* `stored` is sessionStorage, `shown` and `loading` the state of
`AuthProvider`, `path` the page, `waiting[q]` the continuation of a request. A
reload drops the continuations, not the token.

*Alerts.* `run` are the executions of one task in the order they were scheduled,
`reply` what a worker answered to a scrape, `sample` what Prometheus holds, `shown`
the last execution it was shown, `alert` how many evaluations in a row a series was
failing and on which execution that rests. A series has the labels service_id and
probe_type (`platform/metrics/worker.go:50`), which the scheduler copies into an
execution; `service` and `type` are what it copies. `Move` (`UpdateTask`) and `Retype`
(`UpdateService`) change them, and rename the series with the next result: a firing
alert ends although probes keep failing, and its successor waits `for` anew. In
`FailureAlert` answers on their way, samples, moves and changes of type are gone.

## 3. Runs

| Run | Question | Bounds | Result |
|---|---|---|---|
| `pipeline_slow` | life cycle with probes longer than the idle timeout | 1 execution, 2 processes, 3 goroutines, 2 messages | passes |
| `pipeline_timely` | one prober at a time with timely probes, results despite crashes | 2 processes with clocks 1 tick apart, idle timeout 2, 2 messages | passes |
| `pipeline_error_live` | results despite an error | batch of 2 executions, 1 process, 1 error, the lost reply of a commit included | passes |
| `scheduler` | once, no catch-up, batches of due tasks in one step, due tasks are scheduled | 2 schedulers with different clocks, 2 tasks, 2 ticks, batch 1 | passes |
| `probe_retry` | time and count of attempts | the API's limits in units of 10 s | passes |
| `worker_process` | delivery, claims that skip none, orderly end, everything consumed | 4 messages of which 2 undecodable, 1 goroutine, channel of 1, reads of 2, 1 stop, 1 error | passes |
| `incident` | life cycle, nothing lost, incidents rest on alerts, ended alerts resolve | 2 alerts with an event each or in common, 1 user, 2 requests, 1 error | passes |
| `assets_requests` | no damage but by stale writes | 2 rows per table, 2 requests | passes |
| `assets_concurrent` | nothing in use is disabled, with 2 requests | 2 hosts, 1 service, 1 task | violated |
| `console` | one account, first user, audit, access of a disabled account, orderly stop, nobody waits for ever | 2 replicas with different passwords and clocks, 1 tab, 1 request at a time, 2 ticks, 1 fault | passes |
| `console_unauthorized` | a 401 ends at the login page | 1 replica, 1 tab, 2 requests, 2 ticks | violated |
| `alerts` | the alert follows the newest probe, however it came to be seen, ends for a reason, fires while failures go on | 2 executions, 2 services, 2 types, 1 worker, 2 lost scrapes, alert after 2 evaluations | passes |

Bounds and why they are enough. One execution has every conflict of the pipeline:
executions share no row, and the batch that couples them is run with two. Two
messages are an execution and its duplicate; three goroutines on two processes let
a takeover happen across processes and within one. In `pipeline_timely` the clocks
disagree by as much as the assumption admits. In the schedule, batch 1 of two
tasks makes one task wait for the other. In `Incident`, two alerts are the least
group that can be half ingested, one error and two requests the least by which one
request overtakes another. What two users do to one incident at once is left to the
proofs (`TrailTellsWho`, `IncidentImplements`), as a second one is more than this
instance bears. In
`Assets`, two requests are the least of which one makes the other's checks stale, and
two rows per table let services and tasks move. In
`WorkerProcess` two undecodable messages fill a whole
answer of XAUTOCLAIM, so a claimer that began anew each time would never get past
them, and a channel of one is full while either loop waits. In `Access`, two
replicas are the least that race for the first user; expiry after one tick with
clocks one tick apart makes a token valid at one replica and expired at the other.
Two replicas leave room for one request at a time; that the loading screen always has a
request that ends it, with several under way, is proved (`LoadingEnds`).
Tabs share nothing with one another, and worker processes share no state in
`Alerts`, so one of each is enough. Two executions finish in either order, and
two lost scrapes are one of an alert that fires and one of its successor.
Counters saturate (`MaxCount`) where properties compare only up to the bound.
`MaxCopies`, `MaxEntries`, `MaxHeld`, `MaxFaults`, `MaxStops`, `MaxErrors`,
`MaxRuns` and `MaxNow` cap duplicates, stream length, copies in a channel,
errors, stops, lost scrapes, executions and time.

Deadlock is not checked where a system may stop: `ProbeRetry` returns, and an
alert that ends before it was notified leaves nothing to do in `Incident`.

### Fairness

- `ProbePipeline`: of the processes that run, some one's ticker, dispatcher, reader
  and claimer gets on, each pending entry gets its turn with the claimers, and every
  live goroutine goes on, as each loop is a goroutine of its own and the container
  is restarted. Probes and Redis calls have timeouts; of MySQL only connecting does
  (`platform/database/database.go:29`), so that a statement ends, with a result or an
  error, is an assumption about the server and TCP. That one given process gets on
  is not assumed. ScheduleDue, crashes and errors owe nothing; errors are bounded.
- `Scheduler`: a scheduler keeps running its cycles (the ticker of
  `scheduler.go` never stops while the process lives), a transaction ends one way or
  the other, and not every transaction fails: `Commit` is strongly fair, because
  a selection that is rolled back is selected again, so commit is enabled again and
  again rather than for good. Time and API requests owe nothing.
- `WorkerProcess`: both loops and every goroutine go on when they can, a stopped
  process is started again (`restart` in the deployment), a pending entry ages.
  Publishers, signals and errors owe nothing.
- `Incident`: a request that can go on does; Alertmanager repeats its group
  (`repeat_interval: 1m`). Alerts and users owe nothing.
- `Console`: timers only. SERVER_SHUTDOWN_TIMEOUT and the 15 s of a request pass,
  and `Shutdown` notices that the last request is done. Handlers, the database, the
  network and users owe nothing, so a hanging handler is among the behaviours.
- `Alerts`: Prometheus scrapes, stores and evaluates at its intervals; lost scrapes
  are bounded. Probes owe nothing.

### What was found

`assets_concurrent`: `DisableHost` counts active services and disables the host in
two statements without a common transaction (`internal/asset/service.go:68-75`), so
a service created in between is active on a disabled host, though the console
promises a refusal (`web/src/pages/HostsPage.tsx:34`). The same holds between
services and tasks (`service.go:133-140`). TLC's trace has six steps: a check of
a create request, a check of a disable request that counts none, both writes.
Since the scheduler joins tasks with services and never looks at hosts
(`internal/probe/repository.go:128`), such a service goes on being probed.

`console_unauthorized`: a token expires, a page asks for something and gets 401.
`request` removes the token from sessionStorage (`web/src/lib/api.ts:54`), but the
user in `AuthProvider` stays, and with it the page: `ProtectedRoute` looks at the
user only. docs/frontend.md:36 and :99 say that the console returns to the login
page. It does so at the next reload.

### What the models allow

Three more consequences of the code that readers should know, which no run lists.

Alerts of two worker processes that share an event key share an incident. When one
ends, as when its process is stopped, `Resolve` resolves the incident, and later
notifications of the other, which still fires, count on it but do not reopen it
(`internal/incident/repository.go:20`). `RestsOnAlerts` says exactly what is left: one
alert of the key has ended. The console shows the incident as recovered
(`web/src/lib/format.ts:38`).

A tab restores an old session and its user logs in meanwhile, which `LoginPage` allows.
If `me()` then fails, or its 15 s pass, `AuthProvider` clears the session that is stored
now, that of the login (`web/src/auth/AuthContext.tsx:20`), as `request` does on a late
401; the user stays set, so the pages stand and all they ask for is refused.

An UPDATE that affects no row is taken for a missing row
(`internal/asset/repository.go:151`). MySQL reports changed rows here
(`platform/database/database.go:26-33` does not ask for found ones), so a second equal
write of one user within the millisecond that updated_at resolves is answered with 404
(`NothingChanged`), which docs/api.md:22 says of resources that do not exist.

## 4. Proofs

TLC explores the instances above; the theorems hold for every value of the
constants that the named assumptions admit.

| Theorem | Says |
|---|---|
| `TypeCorrect`, `AckAfterResult`, `RunningRecoverable`, `ResultStands` | the pipeline's type invariant and three safety properties |
| `PipelineImplements` | `ProbePipeline` implements `ExecutionLifecycle` |
| `PipelineDelivers` | `ProbePipeline` implements `MessageDelivery` |
| `SoleProber` | with `TimelyProbes`, no two live goroutines probe one execution |
| `ScheduleInvariant`, `RunsOnce`, `MissedRunsSkipped`, `DisabledNotRun` | the schedule, for any clocks and batch size |
| `SchedulesAtOnce` | `Scheduler` implements `TaskSchedule`, for any schedulers, clocks and batch size |
| `RetryInvariant`, `ProbeEndsWhileOwned`, `AttemptsAreCounted` | the retry loop, for any settings within the limits |
| `RowsReferToRows` | the type invariant and the references of assets, for any number of requests |
| `OnlyStaleWritesBreak`, `OnlyOthersMakeStale` | only a write whose checks no longer hold leaves something active on a disabled row or disables a row in use, and only another's write makes checks stale |
| `TypeCorrect`, `ToldStaysResolved`, `AcceptedStaysCounted`, `TrailTellsWho`, `IncidentsRestOnAlerts` of `IncidentProofs` | incidents, for any alerts, users, requests and errors |
| `IncidentImplements` | `Incident` implements `IncidentLifecycle` |
| `WorkerInvariant`, `TypeCorrect`, `NobodySendsOnClosed`, `SendersHaveReceivers`, `DeliveredStaysPending`, `ClaimsSkipNone` of `WorkerProcessProofs` | one worker process, for any pool, channel and read count |
| `WorkerDelivers` | `WorkerProcess` implements `MessageDelivery` |
| `LosersGoOn`, `PasswordStays` | bootstrap, for any replicas and configurations |
| `AccountIsKept` | `Access` and `Console` implement `Account`, for any replicas, tabs, requests and clocks |
| `LoginsAreAudited`, `AccessIsBounded` | logins and tokens, for any clocks, expiry and errors |
| `TypeCorrect` of `ConsoleProofs`, `RequestsAreFinished`, `LoadingEnds` | orderly stops; tabs that restore a session |
| `AlertsInvariant`, `AlertsRestOnFailures`, `GaugeGoesForward`, `AlertsEndForReason` | alerts, for any executions, services, types and processes |
| `AlertsImplement` | `Alerts` implements `FailureAlert` |

*Pipeline.* `IInv` adds to the type invariant that messages name existing rows, that
what a process holds was delivered, and what a goroutine past each line of `Process`
knows (it acquired the execution; the row is final before the acknowledgement).
Without it `AckedIsFinal` is not inductive: the acknowledgement is a step of its own
and does not look at the row. The refinement maps `settled` to the executions of
delivered entries that are no longer pending. `PipelineDelivers` maps the entries
after the group's last id to the queue; its steps that write rows only are `Finish` or
stutter. `SoleProber` needs `LeaseHeld` as
well: the row is never older, by any clock, than its prober's run plus the skew.

*Schedule.* `ReadsStand` says that what an open transaction read is still true,
because the rows are locked, and `LocksExclusive` that no two transactions hold one
row. `Spaced` keeps the due times of a task increasing: the next one is computed
from the clock that found the last one due. A run is recorded with the clock that found
it due and the task's interval, so that `MissedRunsSkipped` speaks of the interval the
task had then, and not of one that it was given before or since.
`SchedulesAtOnce` leaves the open transactions out of the state: `Select` and
`Rollback` are stutters, and `Commit` runs its batch, because by `ReadsStand` the
rows are due still. `Opened` adds that the clock read at `Select` is one the
scheduler's clock has shown, and that LIMIT bounds the batch. That disabled tasks do
not run (`NoneAfterDisable`) is part of it: `TaskSchedule` runs what is active only.

*Retry.* `Budget` bounds the time before attempt n by n * timeout +
delay * (2^n - 1). The worst case, 6 timeouts and 31 base delays, is 21.5 minutes.
`IdleAssumption` says it is less than MESSAGE_IDLE_TIMEOUT: true of the default
(30 minutes), not enforced by `config.go:220`.

*Assets.* For any number of requests, `RowsInv` is inductive: types, references, and
that rows which were found are never deleted. `Found(r)` says that what a request found
still holds when it writes; that is not inductive, as `assets_concurrent` shows. Two
action properties take its place. `OnlyStaleWritesBreak`: whenever an active row comes
to depend on a disabled one, or a row in use is disabled, that step is the write of a
request whose `Found` has become false. `OnlyOthersMakeStale`: it becomes false only by
the write of another request. Updates of hosts, tasks that are disabled, refusals and
lost replies do no harm.

*Incident.* `Agree` relates a row to its audit entries and its status, because the
status is what keeps a user from acting twice. `Ingestion` says of each request that
what it ingested is in the rows, counts being one ahead of what Alertmanager knows
while a request is awaited; without it `ToldIsResolved` says nothing about the step
that answers. The refinement maps rows and entries as they are: a webhook step opens,
counts, resolves or stutters.
`PayloadsTrue` says that what a request tells of its alerts was so when it was posted
and is so still, as an alert that ended does not begin anew. From it `RestsOnAlerts`
follows: an incident rests on some alert of its key that fired, a resolved one on some
that ended. That no alert of a resolved incident fires does not follow and is not so:
of two alerts with one key, the first to end resolves the incident, and `UpsertFiring`
does not reopen it.

*Worker process.* `IInv` adds to the type invariant `Held`: a loop has messages exactly
while it hands them on, a working goroutine has one, and a process that ended had
closed its channel. `ClosedWithoutSenders` and `ReceiversStay` join it: the one keeps a
loop that is gone from sending, the other a goroutine from leaving while there is
something to receive. `ClaimSkipsNone` rests on what the first entries of a finite
set are (`FirstOfFacts`): the next cursor lies after all that was returned and before
all that was not. `PendingInv` is about Redis alone: only what was delivered is
pending, and who acknowledges has processed. It does not need to know who holds a
message, which is why a stop may drop what the loops, the channel and the goroutines
have. `WorkerDelivers` combines both.

*Access and Console.* `IInv` joins the type invariant and the invariants the run
checks with `TokensStemFromLogins` (every token was issued by a login that found the
account active; without it `AccessEnds` says nothing of a token already stored),
`LosersFindTheRow` (who looks again finds a row or met a fault) and
`ProgressIsSomewhere`. The proof goes by who acts: a replica, a handler, the account
and the clock, a tab. `AccountIsKept` maps the tokens that a tab stores, a login's answer
brings or a request presents to those somebody holds, and the requests behind the
middleware to those let in. Handing out and letting in are one step each of a handler;
stores, reloads, timeouts, kills and lost answers only forget. `LoginsSign` (what a
handler signed is a token of the login it has in hand) and `LoginsAsked` (a tab that
waits for a token asked for one) are needed for that.

*Alerts.* `IInv` follows an execution from the reply over the sample to the alert, and
keeps what is on its way no older than what was shown. Hence what Prometheus holds of a
worker is the newest result it was shown, and `AlertsImplement` can leave the samples
out; a lost scrape is an evaluation at which that worker is not up.

The strengthened invariants that the models define (their `IInv`s, `TimelyInv`,
`RowsInv` and the like) are there for the proofs, which establish them for every value
of the constants; the runs list the properties they imply. Where one property implies
another (`ImplementsSchedule` and `NoneAfterDisable`, `ImplementsDelivery` and
`StoppedStaysPending`, `ImplementsAccount` and `BootstrapNeverResets`,
`ImplementsFailureAlert` and `AlertHasFailure` with `GaugeNeverGoesBack`), the
runs check the stronger and the theorems state both.

Only model-checked: liveness (`EventuallyFinal`, `Drained`, `DueIsScheduled`,
`EventuallyResolved`, `Stops`, `Consumed`, `NothingHangs`, `FailureFires`,
`SuccessResolves`), as TLAPS here proves no temporal formula under fairness and no
ENABLED. Every safety property that a passing run checks is stated by a theorem.

## 5. Not modelled

- Routing, logging, request ids, health endpoints and configuration parsing keep no
  state that another part depends on. The limits of the configuration are constants
  of the models, with the assumptions the code leaves to the operator named.
- What the console's pages show, and `usePagedResource`, where an answer that is late
  may replace a newer one: a page is not part of `Console`.
- What Alertmanager does with an answer other than 200 beyond sending the group again: a
  database error is answered with 400 (`internal/incident/handler.go:25`), though
  docs/api.md:22 promises 500.
- GitOps promotion: `scripts/gitops-images.mjs` rewrites the image entries of one
  file, once per workflow run. What could go wrong is the order of the runs, which
  git's pushes and the workflows' `concurrency` groups decide.
- Request counters, durations, the queue-length, worker and active-incident gauges and
  the worker-down rule: readers look at them, nothing acts on them.
- Migrations and manifests are declarative; the keys the models use come from them.
- Names, addresses, labels and messages are abstracted, and so are the rules of input
  validation (`BadInput` may refuse any request), the contents of lists and the
  network policy's verdict on an address. Entries of failed logins are written at best
  effort and left out.
- Within `ProbePipeline` the channel is a bag without the order of messages and an
  undecodable message does not occur; `WorkerProcess` has both.

## 6. Plan

Done, in this order: `ProbePipeline` and its abstract specification, `Scheduler`,
`Incident`, `Assets`, `ProbeRetry` and their proofs; `WorkerProcess`, `Access` and
`Console`, `Alerts` and theirs; then `MessageDelivery`, `TaskSchedule`, `Account` and
`FailureAlert`, which `ProbePipeline`, `WorkerProcess`, `Scheduler`, `Console` and `Alerts`
are proved to implement, what several requests at a time can do to assets, and what
alerts of several processes can do to an incident.

What would come next:

1. `usePagedResource` and the actions of the incident page: answers out of order, an
   action on a row that changed.
2. `Alerts` composed with `Incident`, so that a failing task is
   followed from its result to its closed incident.
