# Query++: a TLA+ verification project

Query++ (`qs-pro`) lets users of Salesforce Marketing Cloud (MCE) write SQL in a
browser, run it as a *query activity* of their MCE account and see the result.
This directory holds TLA+ models of the parts of it where several processes meet,
TLC configurations that check the models on small instances, and TLAPS proofs of
their main properties for instances of every size. Paths below are relative to
`src/`.

    tlc -workers 2 -config run_life.cfg MCShellQueryRun
    tlapm ShellQueryRun_proofs.tla

- [The system](#the-system)
- [Modules and code](#modules-and-code)
- [What the runs check](#what-the-runs-check)
- [Fairness](#fairness)
- [What is proved](#what-is-proved)
- [Where code and documents part](#where-code-and-documents-part)
- [What is not modelled](#what-is-not-modelled)
- [Plan](#plan)

## The system

Three processes share a PostgreSQL database and a Redis server: the **API**
(`apps/api`, NestJS on Fastify), the **worker** (`apps/worker`, BullMQ consumers)
and, apart from them, the **back office** API (`apps/backoffice-api`). The
**web application** (`apps/web`) talks to the API. MCE, Stripe and the customers'
SIEM endpoints are external services.

### Components

| component | state it keeps | operations that change it | what is hard |
|---|---|---|---|
| query runs, API side (`apps/api/src/shell-query`) | row in `shell_query_runs`; job in the BullMQ queue | `createRun`, `cancelRun` | count, insert and enqueue are three steps; cancel reads and then writes |
| query runs, worker (`apps/worker/src/shell-query`) | the same row; data, attempts and stall count of two jobs; cached last event in Redis | `handleExecute`, `handlePoll`, `markReady`, `markFailed`, `onFailed` | crashes, stalls and retries between any two awaits; MCE's eventual consistency; cancellation at any time |
| run strategies (`strategies/`) | folder, data extension and query definition in MCE; `tenant_settings.qppFolderId` | `execute` of run-to-temp and run-to-target | a query definition's key is shared by all runs of a user |
| asset sweeper (`shell-query.sweeper.ts`) | assets in MCE | hourly deletion of definitions older than a day | deletes by an id it listed before |
| event streams (`shell-query-sse.service.ts`, hook `use-query-execution.ts`) | limit counter and last event in Redis; a subscription per stream; status shown in the tab | `streamRunEvents`, `publishStatusEvent`, opening and closing a stream | cached and live events race; the counter leaks and expires |
| MCE bridge (`packages/backend-shared/src/mce`) | none of its own | requests with retry, second attempt after a rejected token, classification of errors | a repeated request may have been carried out |
| connection pool and row-level security (`packages/backend-shared/src/database`, `configure-app.ts`) | pool of 10 connections, session settings and transaction on each | `runWithUserContext`, `runWithIsolatedTenantContext`, the request hook and its cleanup | hold-and-wait; a reserve that comes after its timeout; statements sent to a connection that was given back; a cleanup that two events ask for |
| audit log (`audit.interceptor.ts`, `audit.service.ts`) | `audit_logs`, a job per entry for the SIEM | `log`, which nobody waits for | it may run on the request's connection or reserve one of its own, during or after the cleanup |
| authentication and tokens (`packages/backend-shared/src/auth`) | credentials row; refresh locks in memory | login, `refreshToken`, `invalidateToken`, `checkSeatLimit` | two processes rotate one refresh token |
| billing (`apps/api/src/billing`, `apps/api/src/trial`) | `stripe_webhook_events`, `org_subscriptions`, `stripe_billing_bindings`, `stripe_checkout_sessions`; a job per event | one handler per Stripe event, checkout and its confirmation, trial | events repeated, reordered, claimed twice, lost by a crash |
| saved queries and versions (`apps/api/src/saved-queries`, `query-versions`) | a row, and a row per version | update, restore, link | the expected hash is compared before the write; restore has no transaction |
| query activities (`apps/api/src/query-activities`) | link of a saved query; publish events; the query text in MCE | link, unlink, publish | two systems updated one after the other |
| editor of a saved query (`apps/web`: `tabs-store.ts`, hooks `use-save-flows.ts`, `use-stale-detection.ts`, `use-publish-flow.ts`, `use-version-history-flow.ts`) | content, what counts as saved, expected hash | type, save, mark as saved, overwrite, reload, restore, publish | an answer that arrives after more was typed; a tab marked as saved without a request |
| members (`apps/api/src/admin`, `gdpr/user-deletion.service.ts`, `seat-limit.service.ts`, the login of `auth.service.ts`) | `users.role` | login, change of role, transfer of ownership, deletion of a member | what was checked is not locked until the write; two transactions may wait for each other's rows |
| SIEM delivery (`apps/worker/src/siem`, `apps/api/src/siem`) | URL, failure counter and enabled flag; a job per event | save, delete, deliver, count, disable | jobs carry a copy of the URL; delivery and counting in one `try`; several jobs count at once |
| folders, snippets, lifecycle cleanup, GDPR export, features, usage, metadata, back office, the rest of the web application, SQL analysis | rows or nothing | CRUD, reads, pure functions | little that interleaves |

### How they interact

`POST /runs` → `createRun`: count the user's active runs, insert a row `queued`,
add the job `execute`. The worker's `handleExecute` moves the row to `running`,
prepares the assets, sends MCE a Perform request, stores the task id and adds the
job `poll`. `handlePoll` asks MCE how the task is, and either ends the run
(`markReady`, `markFailed`) or delays itself for another poll. Every step publishes
an event, which `streamRunEvents` passes on to the browser. `cancelRun` only writes
the row; the jobs notice at their next check. When the last attempt of a job fails,
BullMQ calls the hook `onFailed`, which moves the row to `failed`.

Every call to MCE goes through the bridge, which takes an access token from the
credentials row. A token that has expired is refreshed; one that MCE rejects is
invalidated, refreshed and the call made once more. Jobs and requests run in a
context that keeps a pool connection to their end, and saving tokens takes a second
one.

Stripe posts events to the API, which adds a job per event; the job's handler claims
the event in `stripe_webhook_events`, asks Stripe for the subscription where the
event does not tell enough, writes binding and subscription row and marks the event
completed. A user that comes back from a checkout has the session applied by the same
handler in its own request. `activateTrial` writes the same row at a login.

A request of a session has a connection reserved by a hook, with tenant and business
unit set on it, one after the other; the hook gives it back when the response is
finished or its client has gone. What the handler calls finds it in the asynchronous
context, and handlers that act for their user set that user on it, for the session.
Transactions reserve a connection of their own, and the audit log, which nobody waits
for, writes on whichever there is and queues a job for the SIEM.

Logins, administrators' changes of role, transfers and deletions read and write the
roles of the same rows of `users`, each by several statements, of which only a transfer
and a deletion are transactions.

The API queues a job per audited event with the URL of the enabled SIEM configuration;
the worker posts it, counts failures in the configuration's row and disables it at the
threshold. Saving enables it again.

An editor saves a query's text with the hash of the version it opened; the API
compares it with the latest version, updates the row and adds a version. A linked
query's version is published to a Query Activity of MCE, and that activity's text may
be taken for the query's.

Shared state: the run's row (API and worker), the queue (API, worker and BullMQ's own
stall detection), the last event and the channel in Redis (worker and API), the
limit counter (all streams of a user), the query definition in MCE (all runs of a
user), the pool (all jobs and requests of a process), the credentials row (both
processes), the subscription row and its binding (all webhook workers, checkout and
trial), a saved query's row and versions (all its editors), the connections' session
settings and transactions (all requests of a process), the roles of a tenant's members
(logins and administration), the SIEM configuration (API, and all delivery jobs).

### What makes each component correct

- *Runs*: an accepted run is always in somebody's hands and gets an outcome; the
  outcome is final; "ready" is said only of a query that is over; the query is not
  sent more often than a failure explains; the stream says what the row says; the
  limit of concurrent runs holds up to the requests in flight.
- *Streams*: a tab ends up with the newest event, is told the outcome and keeps it;
  the limit of streams holds; every place in it is given back.
- *Query definition*: a run performs its own query, is ready when that is over, and
  deletes nobody else's definition at its end; leftovers go.
- *Pool*: a connection that is reserved is released, once; not everybody waits for one;
  who has one finds the own tenant's context there, and leaves nothing behind.
- *Audit log*: what was done is in the log and goes to the SIEM, or a named failure
  says why not.
- *Members*: a tenant has an owner; only the entitled change a role; the seats taken
  pass the limit only by requests in flight.
- *Tokens*: the stored refresh token is one that MCE takes; a rejected token is not
  used again.
- *Billing*: every event is applied, by one worker at a time; row, binding and trial
  end as the newest event says, in whatever order the events come.
- *Saved queries*: no text is lost; a guarded save replaces only what its editor saw;
  a tab that says "saved" because of a save shows a text that was saved.
- *Query activities*: what the database says is published is what MCE runs; a linked
  query has its activity.
- *SIEM*: an event is delivered or given up, again only if nobody heard that it was
  taken; an endpoint that keeps refusing is disabled.

`PROJECT.json` lists the hazards one by one, each at its line, with the properties
that cover it or the reason why none does.

## Modules and code

| module | models | extends |
|---|---|---|
| `RunLifecycle` | what a run promises its user: phases and number of requests to MCE | – |
| `ShellQueryRun` | the run across API, queue, worker and MCE; refines `RunLifecycle` | – |
| `RunStream` | the event streams of one user on one run | – |
| `SharedQueryDefinition` | the query definition that all runs of a user share, from execute to clean-up and sweep | – |
| `MceTokens` | one user's tokens: refresh, invalidation, login in two processes, and the pool connections they take | – |
| `BillingWebhook` | Stripe's events of one tenant: claim, handlers, retry, row, binding, trial | – |
| `SavedQuery` | one saved query, its versions, its editors and its Query Activity | – |
| `TenantMembers` | the members of a tenant: seats, roles, ownership, deletion | – |
| `RequestContext` | the connections of an API process, the contexts set on them and the audit log | – |
| `SiemDelivery` | a tenant's SIEM configuration and the jobs that deliver to it | – |
| `AuditTrail` | an audited action from its request to the SIEM endpoint: the two together | `RequestContext`, `SiemDelivery` |
| `MC...` | the instances of each for TLC | the module |
| `..._proofs` | the theorems about each; those about `RequestContext` and `SiemDelivery` are with those about `AuditTrail`, in `AuditTrail_proofs` | the module, `TLAPS` |

A definition whose name starts with `Mutant_` stands before the definition it is a
slip of. It is no part of any specification; replacing the original by it makes the
property that `PROJECT.json` names fail.

### ShellQueryRun

A handler is cut at each `await` whose effect another actor can see; `pc[k][r]`
names the call that job `k` (`"execute"` or `"poll"`) of run `r` is about to make.

| variable | code |
|---|---|
| `status` | `shell_query_runs.status`; `"absent"` before the insert |
| `event` | the cached last event, reduced to its outcome or `"progress"` |
| `api`, `cancel` | how far `createRun` and `cancelRun` of the run are |
| `pc` | place of the jobs in `handleExecute`, `handlePoll`, `onFailed`, or in the queue |
| `tries`, `stalls` | BullMQ's `attemptsMade`, `stalledCounter` |
| `data` | the poll job's data: task id, `pollCount`, confirmations, rowset attempts |
| `clock` | time since `pollStartedAt` as the code tells it apart: fresh, past `STUCK_THRESHOLD_MS`, past `MAX_DURATION_MS` |
| `performs`, `resends` | requests to MCE; those `withRetry` repeated |
| `task`, `streak` | MCE: its tasks; consecutive wrong "not running" answers |

| actions | code |
|---|---|
| `AdmitRun`, `RejectRun`, `InsertRun`, `EnqueueExecute` | `createRun`: `countActiveRuns`, insert, `queue.add` |
| `CancelRead`, `CancelMark` | `cancelRun`, `markCanceled` |
| `Execute...`, `EnqueuePoll`, `Acknowledge` | `handleExecute`, `onCompleted` |
| `PollCheck`, `Ask...`, `Delay` | `handlePoll` with `handleCompletionWithRowsetCheck` and the row probe |
| `SetReady`, `SetFailed`, `Say...`, `Cleanup` | `markReady`, `markFailed`, `cleanupAssetsForPoll` |
| `HookStatus`, `HookEvent` | `onFailed` |
| `Pickup`, `GiveUp`, `Stall`, `FailAttempt` | BullMQ: attempts, backoff, stalled jobs |
| `...Throws`, `...Fails`, `Refuse`, `Resend`, `PerformUnanswered`, `AnswerLost`, `HookDies` | the failures; the constant `Faults` says which kinds happen |
| `TaskEnds`, `Tick` | MCE and time |

Abstractions. SQL, rows, names and messages are left out. The strategies' calls
before Perform are one step, which fails as each of them can. MCE answers a status
request with what its tasks are, except that REST may say "not running" of a
running task, as long as it does not do so `Confirmations` times in a row: the
assumption behind the code's confirmation. Time is a choice between the thresholds
the code compares with. BullMQ is modelled from its documented contract: a job
that is added is not lost, is given to one worker at a time, is tried `attempts`
times and is failed after more than `maxStalledCount` stalls.

Every constant has the code's value in its comment. `MaxPerforms` is the only bound
of the model's own: requests to MCE beyond it are not made.

### RunStream

Events of a run are numbered in the order they are published; `Final` is the
outcome. `count` and `ttl` are the Redis key `sse-limit:<user>`, `published` and
`cached` the channel and the cached last event, and per tab `at` is the place in
`streamRunEvents`, `heard` what its Redis subscription has taken in, `got` the
answer of the cached GET, `shown` what the tab shows. `Miss` is a message that
arrives when no listener is attached; `Attach` is RxJS's `concat` switching from
the cached event to the live ones. `since` is a history variable: the last event
before the listener was attached; `lost` and `forgotten` are others: the places in
the counter that failures left behind, and the streams that were open when the key
last expired, whose ends will be counted below zero. A tab closes its stream at the outcome
(`handleTerminalState`) and reopens a lost one (`EventSource`) as long as it does
not know it; a reloaded page is the same tab.

Faults: `"redis"` (any Redis call throws), `"crash"` (the API process dies),
`"expiry"` (the limit key's hour is over). `MaxCount` bounds how far faults may
drive the counter.

### RunLifecycle

The abstract specification: a run is submitted, begun, sent to MCE once or more,
finished or failed, and may be canceled at any time after it was submitted; a
`ready` or `failed` run changes only to `canceled`. `ShellQueryRun` implements it
under `phase <- status, sent <- performs`.

### SharedQueryDefinition

The modules of the run leave MCE's assets out; this one is about nothing else. A run's
execute and poll jobs are reduced to their calls about the folder and the query
definition, whose key is `QPP_Query_<user>` for every run of the user.

| variable | code |
|---|---|
| `settings`, `folders`, `folder` | `tenant_settings.qppFolderId`; the folders of that name in MCE; the one this execute job found |
| `defs`, `live` | the definitions ever created, with maker, folder, task and age; the one that has the key |
| `exec`, `found`, `mine`, `tries` | place in `RunToTempFlow.execute` and `onFailed`; the id looked up, the id created; failed attempts |
| `poll`, `watched`, `stopped` | place in `handlePoll`; the id it asks about; confirmations |
| `status` | the run's row, as far as `updateStatus` tells it apart |
| `swept` | the id `performSweep` is about to delete |
| `crowded`, `repeated`, `deaf` | history: runs that were beside another, were executed again after their poll job had been added, or overlooked a failed look-up or deletion |

`FindFolder`, `MakeFolder`, `StoreFolder` are `ensureQppFolder`; `Lookup` and `Drop`
`deleteQueryDefinitionIfExists`; `Create` and `Perform` the two requests; `AskById`
and `AskByKey` are `checkIsRunningWithFallback`; `Cleanup`, `HookLookup`/`HookDrop` and
`SweepLists`/`SweepDeletes` the three places that delete. Keys are unique in MCE and a
deletion is by id. `FindFolder` reads the settings and looks the folder up in one
step: what other runs may do between the two changes only which folder it finds.
Bounds: `MaxFailures` failures of the runs and one of the sweep, `MaxFolders` folders.

### MceTokens

| variable | code |
|---|---|
| `wallet` | the `credentials` row: which pair, and whether `expiresAt` is ahead |
| `good`, `live`, `issued` | MCE: refresh and access tokens it would take; pairs issued (a pair has one number) |
| `lock` | `refreshLocks` of each process |
| `pc`, `proc`, `kind`, `force` | a request or job: its place, its process, REST, SOAP or login, first or second attempt |
| `token`, `copy`, `refused` | the access token it calls with, the pair it read, the token it was refused |
| `free`, `late`, `leaked` | pool of each process; reserves whose hook gave up; connections granted to those |
| `lost` | history: how a newer pair failed to stay in the row |

`Reserve` and `End` are the context that keeps a connection; `Ask`, `Read`, `Found`,
`Post`, `ReserveSecond`, `Save`, `Resolve`, `Reject` are `refreshToken` with
`refreshTokenInternal` and `saveTokens`; `Call`, `Expired`, `Look`, `Invalidate` the
bridge's second attempt with `invalidateToken`; `HookTimesOut` and `GrantedLate` the
request hook's race. MCE takes a refresh token once and forgets access tokens from the
oldest (`Revoke`). Bounds: `MaxCalls` calls of a caller, `MaxFailures` failures.

### BillingWebhook

| variable | code |
|---|---|
| `stripe`, `session`, `now` | Stripe: the subscriptions and sessions, and its clock in seconds |
| `stored` | `stripe_checkout_sessions` |
| `info`, `sent`, `job`, `tries` | the events, what they say, and their BullMQ jobs (`"asked"`: the user's own request) |
| `mark` | `stripe_webhook_events.status`; `"stale"` is `processing` for more than five minutes |
| `row`, `binding` | `org_subscriptions`, `stripe_billing_bindings` |
| `pc`, `doing`, `saw`, `kept` | the workers: place, event, what Stripe answered, what they read of the row |
| `orphaned`, `trials`, `drift` | history: claims that outlived their worker; trials given; ways in which row or binding were set back |

`ClaimGranted` and `ClaimRefused` are `markProcessing`; `Retrieve`, `Validate`, `Bind`,
`Write`, `Complete` the handlers' common course (the kinds of event differ in which of
them they need and what they write, see `NewRow`); `Fresh` is the guard of the upsert;
`Confirm` is `confirmCheckout` and the reconciliation in `createCheckoutSession`. The
job of an event may wait for any time, so every order of arrival is there, and an event
is delivered again as long as its job fails. A subscription has a customer of its own;
tiers are free and pro. Bounds: events, seconds, states of a subscription, failures.

### SavedQuery

| variable | code |
|---|---|
| `row`, `linked`, `lock` | `saved_queries`: text, link, and the row lock of an open transaction |
| `versions`, `clock` | `query_versions` with `created_at`; the time of the database |
| `remote`, `published` | the activity's text in MCE; the hash of the last publish event |
| `tab` | per editor: content, `originalContent`, expected hash |
| `pc`, `job` | the editor's request in `update`, `restore`, `publish`, `linkQuery`, `unlinkQuery` or `findById` |
| `seen`, `raced`, `typed`, `strayed`, `astray` | history, named at their declaration |

A text stands for its hash. `Begin` to `Commit` is one transaction at READ COMMITTED: a
statement sees what is committed, the update takes the row's lock, and `now()` is the
time of `Begin`. `Restore` and `RestoreRow` are two transactions. `SaveTab` is the Save
of the tab bar, which marks the tab as saved and sends nothing; `strayed` keeps that,
and a text typed while its save was on its way. A version of the history is published
also from a dirty tab. An editor has one request at a time. Bounds: requests (with the
markings of `SaveTab`), edits, failures.

### TenantMembers

| variable | code |
|---|---|
| `role` | `users.role` of every row; a person has one row at a time and a new one after a deletion |
| `pc`, `call` | a request: its place, kind, the session's row, the row it is about, the role it asks for |
| `held` | rows written by an open transaction, which others wait for |
| `overtaken`, `lost` | history: a request whose rows were changed since it read them; a tenant without owner because of one |

`Login` to `Promote` are `handleCallback` with `checkSeatLimit`, the upsert and
`assignOwnerIfNone`; `Guard` is `RolesGuard`; `ReadActor` to `Write` are `changeRole`
and, with `ReadOwner`, `deleteUser`; `ReadCurrentOwner` to `Commit` the transaction of
`transferOwnership`. `Deadlock` is PostgreSQL ending one of two transactions that wait
for each other, `Fail` any query that fails, with the rollback. Bounds: requests at a
time (each may be followed by another), `MaxJoins` rows of a person.

### RequestContext

| variable | code |
|---|---|
| `free`, `tx`, `broken` | the pool; the request whose transaction is open on a connection; whether that is aborted |
| `session`, `unit`, `user` | `app.tenant_id`, `app.mid` and `app.user_id` of a connection's session; the first two are named by the context (a tenant with a business unit) they are from |
| `carried` | whether the handler still has the hook's asynchronous context (a request whose body is read from the socket loses it) |
| `home`, `own` | connection of the hook; connection of a transaction of the request or of its log |
| `main`, `log`, `clean` | how far the request, its audit log and the hook's cleanup are |
| `acting` | requests whose handler is in the callback of `runWithUserContext` on the hook's connection |
| `gone`, `missed` | clients that left; those that left before the hook listened |
| `pending`, `entries`, `jobs` | audit entries in an open transaction, stored, handed to the SIEM queue |
| `unwanted` | history: logs whose look-up found no enabled SIEM webhook |
| `late`, `disturbed`, `unlucky` | history: statements sent to a connection given back; transactions that got a statement of another request; logs that met a failure |

`Reserve`, `SetMid`, `Leave`, `Clear`, `Release` are the hook of `configure-app.ts` and
its cleanup, which runs once though `finish` and `close` both ask for it. The hook sends
the tenant as soon as it has the connection and the business unit when that is
answered; a client that leaves between the two has the settings cleared before the
second is sent. (The release waits for the answer to the cleanup, which a connection
gives after that to the tenant, so the business unit is sent before it.) `SetUser` is
the `set_config('app.user_id', ..., false)` of `runWithUserContext`, which stays for the
session; `Statement`, `Begin`, `Commit`, `Rollback` are the handler's statements and
`runIsolatedInContext`; `LogReserve` to `LogRollback` are `AuditService.log`. A
statement or a setting may be sent late, to a connection that is in the pool or has
another holder: `Send` marks who sent it and whose transaction it disturbs, and what it
sets is there for whoever comes next. Where tenant and business unit are not of one
context, row-level security shows nothing (`Context`), and where another user is set it
hides the user's own rows (`Statement`). Each request is sent once; the pool has as many
connections as there are requests, so that a request which waits for a second one
meets an empty pool.

### SiemDelivery

| variable | code |
|---|---|
| `url`, `enabled`, `failures`, `deleted` | the tenant's row of the SIEM configuration; `url` counts its saves |
| `job`, `target`, `tries`, `stalls` | the job of each event, the URL in it, BullMQ's counts |
| `taken`, `unheard` | how often the endpoint accepted an event, and how often unheard |
| `streak`, `since`, `spoilt`, `hasty`, `afterEnd` | history: refusals in a row, failures since the save, counts lost or wiped, a disabling before the threshold, a post after the deletion |

`Save`, `Delete`, `Find`, `Queue` are the API; `Process` - `Pickup` to `CountThrows` -
is `SiemWebhookProcessor.process`, cut at the look-up of the host, the request and each
transaction, with the failure of each; `Stall` is a worker that dies. Bounds:
`MaxSaves`, and the threshold, attempts and stalls, which the code has too. The
specification is called `SiemSpec`, and its parts likewise, so that another module can
extend this one together with `RequestContext`.

### AuditTrail

`RequestContext` knows of the SIEM only that a job was queued, and `SiemDelivery` of a
request only that an event was found worth a job. `AuditTrail` puts the two together:
`Events` are the audited requests of one tenant, and two steps are steps of both. In
`Looks` the look-up of a log (`Lookup`) reads the configuration that `Save`, `Delete`
and the worker's `Disable` write (`Find`): a job if it is enabled, none if it is not. In
`Queues` the log adds the job (`Enqueue`) and the worker may take it (`Queue`). All
other steps are of one of the two and leave the other alone (`Serves`, `Delivers`). A
queue that refuses the job (`EnqueueFails`) leaves it where it was, and the log goes on.

## What the runs check

Every run is a configuration that TLC finishes with nothing violated.

| run | constants | properties | shows |
|---|---|---|---|
| `run_life` | one run to a temporary data extension, cancellation, crashes of worker and API, fairness | `ImplementsLifecycle`, `EveryRunSettles`, `CanceledRunGoesQuiet` | the lifecycle through every crash point; runs end, canceled jobs come to rest |
| `run_errors` | one run to a target, cancellation; database, Redis and MCE calls throw | `LiveRunHasCustodian`, `PerformsArePaid`, `OutcomeNotAnnouncedEarly` | custody and requests under partial failures; event never before row |
| `run_results` | one run, three polls, MCE errors; no cancellation | `ReadyHasEvidence`, `PerformedWhileRunning` | confirmations filter out transient answers; no request after the end |
| `run_admission` | three runs, limit 1, two requests at a time, symmetric | `ActiveBounded` | the limit, up to the requests in flight |
| `stream` | two tabs, limit 1, three events, all faults, fairness | `StreamsBounded`, `CatchesUp`, `OutcomeArrives` | what a tab shows, and how many streams there can be |
| `definitions` | two runs, one with a second attempt; a failure or a crash, a failure of the sweep; fairness | `OwnQueryPerformed`, `ReadyIsOver`, `OthersAreSpared`, `LeftoversGo` | what runs of a user can do to each other, and what not |
| `tokens` | two processes with 3 and 2 connections, two callers, one failure, fairness | `SecondTokenIsNewer`, `WalletUsable`, `EveryCallEnds` | connections and tokens through every interleaving of refresh, invalidation and login |
| `billing` | two checkouts, two workers, two events, three states of a subscription, two failures (errors, crashes), symmetric | `NoEventForgotten`, `PaidTierHasCause`, `RowIsCurrent`, `BindingFollowsRow`, `TakenOverOnlyByNew` | row, binding and claims in every order of events, through crash and retry |
| `queries` | two editors, three texts, three requests, one edit, one fault, symmetric | `TextIsKept`, `RowIsLatest`, `CleanTabIsKept`, `RemoteIsRecorded`, `GuardedSaveSawIt` | saves, restores, links and publications that overlap |
| `members` | three people, two requests at a time, one seat, a row per person, fairness | `OwnedUnlessLost`, `SeatsOvershootBounded`, `ChangedByTheEntitled`, `EveryRequestEnds` | roles, owner and seats under requests that overtake each other, and the deadlock of two transfers |
| `context` | two requests of two tenants, two connections, every failure, fairness | `HeldByOne`, `ContextIsOwn`, `AuditComplete`, `AllReturned` | a request's own tenant and business unit are set on its connection, and no other's user but one that came late; no connection is lost but for the unheard |
| `siem` | two events, threshold 2, two attempts, one stall, one save, every failure, fairness | `RepeatedOnlyUnheard`, `FailingIsDisabled`, `EveryEventSettles` | repetition, disabling and settling under lost answers and counts |

Some properties of the modules are in none of these runs because they are proved for
every instance (see [What is proved](#what-is-proved)): `OutcomeKept`,
`OutcomeEventIsTrue` and `OutcomeEventIsLast` of `ShellQueryRun`, `PlacesAreHeld` and `OutcomeStays` of
`RunStream`, `RefusedForAReason` of `SharedQueryDefinition`, `OneRefreshPerProcess` and
`ConnectionsConserved` of `MceTokens`, `ClaimedOnce` and `TrialOnce` of
`BillingWebhook`, `LinkedActivityExists` of `SavedQuery`, `FreeIsClean` of
`RequestContext`, `DuplicatesBounded` of `SiemDelivery`, `ToldIsRecorded` and
`AuditedIsTold` of `AuditTrail`, and the type invariants.

Beside the runs there are four smaller configurations that also end well,
`billing_settles.cfg` (`EveryEventSettles` of `BillingWebhook` with one checkout,
under fairness), `billing_three.cfg` (the properties of `billing` for three events
without failures, which is what it takes for an event that is no checkout to compete
with another subscription's), `siem_types.cfg` (`SiemTypeOK` and `DuplicatesBounded` of
`SiemDelivery`, whose bound is reached) and `audit_trail.cfg` (`ToldIsRecorded` and
`AuditedIsTold` of `AuditTrail`, with two requests on two connections of which one is
audited, failing database and queue, lost answers and crashes; about ten million states
and five minutes, the others less). Ten more, `doc_*.cfg`, end in a counterexample; see
[below](#where-code-and-documents-part).

Instances of the run model have one run, where the interleavings are those of its
request, its cancellation, its two jobs, MCE and the faults; runs of the same user
share nothing in the model but the limit, which `run_admission` checks with three.
The poll budget is 1 to 3 instead of 120, the rowset budget 2 or 3 instead of 6:
enough for a first, a repeated and a last poll, and for a confirmation that is
followed by another answer. Two attempts and one stall allow one of each before the
last.

The properties of `run_results` hold only without cancellation and without lost
writes. A canceled run is sent to MCE if its job had read the status before, its
stream may say `ready` if the poll had stored that first, and a poll answer that is
lost to a Redis error leaves an older confirmation counted. The run checks that
nothing else breaks them.

Two tabs at a limit of one let a stream be refused while another is open, and three
events are a first, a middle and a last, so that a cached event can be older than a
missed one that is older than a live one. Two runs are enough for the shared
definition, because what a run meets is one definition that is not its own; which of
the others made it makes no difference. Two processes with two callers give every
pair: two calls in a process, and one in each. A pool of two is used up by two
calls, one of three is not. Two subscriptions are an old and a new one; two events
of them, each of which may be retried, cover every pair of handlers, and what it
takes three for - an event of the old one between two of the new - is covered by
`billing_three` and by the proofs. Three texts are the opening one and two that two
editors typed; three requests let one overtake another and a third find out. Two
requests about members are every pair that may overtake or wait for each other, and
three people can exceed one seat by more than the two requests explain. Two
connections are enough for a connection of its own that a request takes beside the
first, and for one that changes hands.

The specifications allow their behaviours to end: a run that is over and whose
jobs have come to rest has nothing left to do, and a tab that was told the outcome
opens no stream. All configurations therefore say `CHECK_DEADLOCK FALSE`; that
nothing stops *before* is what the liveness properties say. `tokens` has real
deadlocks, which `EveryCallEnds` names.

`LiveRunHasCustodian` and `EveryRunSettles` name three ways in which the code does
let go of a run (`Dropped`): `createRun` fails between insert and enqueue, the hook
of a failed job does not get its status stored, and the rowset check completes a
copy of the poll job. The first two are consequences of having no reconciler, the
third is a slip in the code; see below. Other modules name what the code does not
keep in the same way, with a history variable that says when it happened: the property
says that nothing *else* breaks it, and [below](#where-code-and-documents-part) is the
list.

## Fairness

`ShellQueryRun!FairSpec` assumes that an API request that has begun is finished (in
`run_life` the API may also die between its calls: a step that a fault has disabled
is not asked for), that a worker which holds a job goes on with it and that a
waiting job is given to a worker (BullMQ's promise as long as a worker lives; a job
whose worker died is given to another). Weak fairness is enough, because a step of a
job stays enabled until it is taken or the job stalls, and stalls are limited by
`MaxStalls`. Nothing is assumed of MCE's tasks - a task may run for ever, and the
poll budget must end the run all the same -, of time, of the user or of the faults.

`RunStream!FairSpec` assumes that the API goes on with a stream and that a tab
closes its stream at the outcome. It does not assume that events are published or
that a refused tab tries again.

`SharedQueryDefinition!FairSpec`: jobs go on, days pass and the sweep comes round.
Strong fairness of `MarkFailed` stands for the poll budget, which ends every poll job
(`EveryRunSettles`); that a poll which would go on asking is interrupted is what
strong fairness is for.

`MceTokens!FairSpec`: a call goes on when it can, with weak fairness of its steps. A
connection is granted to whoever waits when one is free; weak fairness does not even
assume that a particular caller gets it while others come and go, and as calls are
bounded it need not.

`BillingWebhook!FairSpec`: a worker goes on with its event, and a waiting job is taken.
Nothing is assumed of Stripe, of the user or of time.

`SavedQuery` has no liveness property: every request is a fixed number of steps.

`TenantMembers!FairSpec`: strong fairness of each request's steps. PostgreSQL hands a
row that comes free to those who wait for it in turn, so a request does not wait for
ever while others take the row again and again. That two transfers which wait for each
other end is not a matter of fairness but of the deadlock detection, a step.

`RequestContext!FairSpec`: the process goes on (`Proceed`), except that the response to
a client that was missed may never finish; the pool serves who waits in turn (strong
fairness of `Granted`); and no client stays for ever (`Leave`), which is what resolves
requests that wait for a second connection while they keep the first.

`SiemDelivery!FairSiemSpec`: a job goes on. Nothing is assumed of the endpoint, of the
administrator or of the failures.

## What is proved

All theorems hold for every number of runs or tabs, every limit and budget the
constants' assumptions allow, and - unless said otherwise - every set of faults. (What
the code has finitely many of, as runs or events, is assumed to be finite.)

`ShellQueryRun_proofs`:

- `TypeCorrect`: `TypeOK`.
- `RunsInvariant`: `RunsInv`, the inductive invariant. It has four parts per run.
  `PlacesInv`: where the jobs can be, and that a job exists only after the request
  enqueued it. `RowInv`: what a job's place says about the row, e.g. that a poll
  job past its last status write leaves a terminal row. `SendInv`: how often the
  query was sent, counted against attempts, stalls and repeated requests with one
  more while an execute job is past its Perform. `EventInv`: what the stream has
  announced. None of the properties below is inductive alone: custody, for
  instance, depends on the row being terminal when a job completes, which depends
  on the job's whole path to there.
- From it: `Custody` (`LiveRunHasCustodian`), `PerformsPaid` (`PerformsArePaid`),
  `NotAnnouncedEarly` (`OutcomeNotAnnouncedEarly`), `OutcomeIsKept` (`OutcomeKept`).
- `Implementation`: `Spec => ImplementsLifecycle`. Initial states map to initial
  states and every step to a lifecycle step or a stutter; the proof splits on the
  calls that change `status` or `performs` and leaves the others to one lemma.
- `ActiveRunsBounded`: `ActiveBounded`, by `AdmissionInv`, which bounds the active
  runs together with the requests that have counted but not inserted yet. The proof
  is about the cardinality of two changing sets.
- `ReadyOnEvidence`: `ReadyHasEvidence`, assuming that Redis does not fail and no
  worker dies (`{"redis", "crash"} \cap Faults = {}`), by `EvidenceInv`: the
  confirmations in the job's data never exceed the wrong answers in a row. The
  assumption is needed: the confirmations are stored by `updateData` at the end of a
  poll, and if the poll that saw "running" loses its answer, an older "not running"
  stays counted and the next one confirms it.
- `PerformsWhileRunning`: `PerformedWhileRunning`, assuming that there is no
  cancellation, no Redis failure and no crash, by `SoleInv`: while the execute job has not
  handed over, there is no poll job and the row is not over. Each assumption is needed
  (TLC finds a counterexample without it), since each is a way for the row to end beside
  its execute job: the user's cancel, the lost answer of an enqueue whose poll job goes on while the
  execute job is tried again, and the stall that starts the execute job again.
- `EventsTellTheOutcome`: an outcome in the stream is the row's (`OutcomeEventIsTrue`),
  assuming besides that the database does not fail, by `TruthInv`: between storing an
  outcome and publishing it the row stays what the job is about to say. A hook
  of a failed job publishes the failure also when it could not store it.
- `EventsEndWithTheOutcome`: under the same conditions nothing but that outcome is
  published once one is (`OutcomeEventIsLast`), by `TruthInv` before and after the
  step, `OutcomeIsKept`, and `AfterOutcome`: a job about to publish progress has a row
  that is not over. `RunStream` takes this for granted when it calls the last event of
  a run `Final`. Each condition is needed (TLC finds a counterexample without it): after
  a failure of Redis or the database, or a crash, a later attempt may publish again.

Since a step changes one run, each proof is about the run that steps, and
`StepFrame` says once for all that the others are untouched.

`RunStream_proofs`:

- `TypeCorrect`: `TypeOK`.
- `StreamsCatchUp`: `CatchesUp`, by `DeliveryInv`, which orders `cached`,
  `published`, `heard` and `shown`.
- `OutcomeIsLast`: `OutcomeStays`, by `KnowingInv`: a tab that knows the outcome is
  live or closed, and only a live stream that does not know it shows something.
- `LimitHolds`: `StreamsBounded`, and `NoPlaceLost`: `PlacesAreHeld`, by `LimitInv`:
  the counter is the number of streams it counts plus the places failures left behind,
  less those the key forgot when it expired; the streams that were let in are at most
  `Limit` and the forgotten ones. The second part needs the first, because a stream is
  let in by the counter and not by the streams there are.

`SharedQueryDefinition_proofs`, by one invariant, `Inv`, proved for every step of a run
by `RunStep` and for every other step by `OutsideStep`:

- `TypeCorrect`: `TypeOK`; every id names a definition that exists or existed
  (`NamesInv`), and a run that goes on has found a folder.
- `OwnPerformed` (`OwnQueryPerformed`) and `SparesOthers` (`OthersAreSpared`), by
  `OwnInv`: the ids a run or its poll job keeps are of definitions that run made.
- `RefusedOnlyForAReason` (`RefusedForAReason`) and `ReadyWhenOver` (`ReadyIsOver`), by
  `AloneInv`: what is under the key while a run is alone. That is not inductive without
  `TasksInv`, which says that of two runs in progress both were recorded as `crowded`,
  that the sweep names an old definition, and without `OwnInv`, by which a run's own
  definition is not old and not the one its earlier poll job watches.

`MceTokens_proofs`:

- `OneRefresh` (`OneRefreshPerProcess`), by `LockInv`: who refreshes is the one in
  `refreshLocks`. `SecondIsNewer` (`SecondTokenIsNewer`) and `RowIsUsable`
  (`WalletUsable`), by `TokenInv`, which orders the pairs issued, stored, copied and
  used and says who holds the pair that is not stored yet.
- `Conserved` (`ConnectionsConserved`): an equation about the cardinality of two sets of
  callers, kept by each step because it moves at most one caller into or out of one of
  them. `TypeCorrect`: `TypeOK`; that `free` never exceeds the pool follows from it.

`BillingWebhook_proofs`:

- `TypeCorrect`: `TypeOK`. `ClaimedByOne` (`ClaimedOnce`) and `NoneForgotten`
  (`NoEventForgotten`), by `ClaimInv`: a claim that is `processing` has one holder or is
  orphaned; it rests on `JobInv`, that the worker of an active job is alone at it.
- `PaidHasCause` (`PaidTierHasCause`) and `OneTrial` (`TrialOnce`), by `RowInv`: the row
  after a trial, a subscription and its deletion. `TakenOverByNew`
  (`TakenOverOnlyByNew`), by `KeptInv`: a validated event of another kind is of the
  subscription its worker read.
- `RowFollowsStripe` (`RowIsCurrent`), under every fault: once every event is completed,
  the row has the status Stripe has, or has been set back in one of the ways of `drift`.
  The invariant, `DueInv`, says that the row is up to date with a subscription or an
  event that tells its state is still to come (`Pending`: not completed, and its worker
  not past its write), unless the way in which it was passed over is in `drift`; and
  that the row's time is never ahead of what the row knows, so that the freshness guard
  refuses only that. It rests on `KnownInv`: what is
  sent, asked and stored belongs to sessions and subscriptions that exist, and what a
  worker holds is no newer than Stripe.
- `BindingIsOfRow` (`BindingFollowsRow`), assuming that no claim ages (`"slow" \notin
  Faults`), by `BoundInv`, `BindingDue` and `ClaimInv`: whose binding parts from the row
  is at the write that will join them, or in the queue again. Without the assumption a
  handler whose claim has aged may bind, and die, after the other worker has written the
  row and completed the event, and nobody joins the two before the next event does.

`SavedQuery_proofs`:

- `TypeCorrect`: `TypeOK`, with the row's lock held by exactly the request between its
  UPDATE and its COMMIT. `NothingIsLost` (`TextIsKept`) and `CleanMeansKept`
  (`CleanTabIsKept`), by `KeptInv`: the text a request is going to write, the row's and
  those the tabs count as saved are versions, or are written with their version in the
  same transaction. The two ways in which a tab counts as saved what was never sent -
  typed while the save was on its way, or marked by `SaveTab` - are the exception, kept
  in `strayed` until the next answer or load.
- `LinkedHasActivity` (`LinkedActivityExists`) and `PublishedIsRemote`
  (`RemoteIsRecorded`), by `ActivityInv`: what a request that links, unlinks or publishes
  has seen of the activity, or that another one came between.
- `RowFollowsVersions` (`RowIsLatest`) and `GuardedSavesSaw` (`GuardedSaveSawIt`), by
  `OrderInv`, which relates the begin times of the open transactions to the versions and
  what each editor has seen to row and versions.

`TenantMembers_proofs`:

- `TypeCorrect`: `TypeOK`.
- `EntitledOnly` (`ChangedByTheEntitled`), by `ReadInv`: what a request has read of its
  actor and its target still holds unless it was overtaken.
- `Owned` (`OwnedUnlessLost`), by `HeirInv`: a deletion that is about to be stored has
  seen that its target is not the owner, so that there is one, unless an overtaken
  request has removed it since.
- `SeatsBounded` (`SeatsOvershootBounded`), by `SeatInv`: the members and the people who
  have passed the count but have no row yet are at most the limit and all requests but
  one. The members alone are no induction: what a request that has counted will add is
  known only together with the others that have.

`AuditTrail_proofs`, about `RequestContext`:

- `TypeCorrect`: `TypeOK` and the invariant of the next four.
- `OneHolder` (`HeldByOne`), by `HomeInv` (whose connection the hook's is, and what its
  tenant is at each stage of the cleanup), `OwnInv` (the same of a connection that a
  transaction reserved) and `PoolInv` (nothing is left on a free connection).
- `OwnContext` (`ContextIsOwn`) and `PoolIsClean` (`FreeIsClean`), with `SettingInv`,
  about the business unit and the user. These may be set by a request that has lost the
  connection, so that the invariant says of every connection whose they can be: a
  business unit is of a request that reserved it once, and is still its hook's or was
  sent late; a user is the holder's, or of a request in `late`. That the holder's own
  business unit is never overwritten needs that a hook has sent its own before it
  releases the connection.
- `AuditIsComplete` (`AuditComplete`), by `BrokenInv`, that an aborted transaction met a
  failure or was disturbed, and `LogInv`: how far the log of a request that met none is
  tells where its entry is.

About `SiemDelivery`:

- `DeliveryTypes`: `SiemTypeOK`, with `TriesInv`: a job that goes on has an attempt and
  a stall left, one that was given up has used up the ones or the others, and together
  they never exceed what the two limits allow.
- `RepeatedUnheard` (`RepeatedOnlyUnheard`) and `DuplicatesAreBounded`
  (`DuplicatesBounded`), by `TakenInv`: what the endpoint accepted is what nobody heard
  of, and one more from the answer that was heard to the end of the job; and it is paid
  for by the failed attempts, the stalls and the attempt under way. Neither property is
  inductive: both depend on where the job is, and the bound on `TriesInv`.
- `FailingDisabled` (`FailingIsDisabled`), by `StreakInv`: as long as no count was lost
  or wiped, the refusals in a row are at most what the row has counted and the jobs that
  are about to count, and once they reach the threshold an enabled configuration has a
  job that is counting or disabling. The step that needs the first part is a count that
  stays below the threshold although the streak has reached it: then another job has
  still to count, which is a statement about the cardinality of a changing set. It holds
  for any number of jobs at once.

About both together, `AuditTrail`:

- `PartsAreKept`: `TrailSpec => Spec /\ SiemSpec`. Every step of the whole is, for each
  of the two, one of its own or none, so that all of the above holds of the whole.
- `ToldRecorded` (`ToldIsRecorded`): what an endpoint accepted is in the tenant's log or
  about to be committed there, unless the log met a failure, a connection given back or
  another request's statement. `AuditedTold` (`AuditedIsTold`): an audited action whose
  log has ended is recorded, and its event is under way, accepted, given up after every
  attempt or stall, or was unwanted - with the same exceptions. Both by `LinkInv`, which
  relates how far a log is to how far its job is (`LinkCorrect`), together with the
  invariants of the parts, `LogInv`, `TakenInv` and `TriesInv`. They assume that the
  events are requests, `Events \subseteq Requests`.

Only model-checked are the liveness properties (`EveryRunSettles`,
`CanceledRunGoesQuiet`, `OutcomeArrives`, `LeftoversGo`, `EveryCallEnds`,
`EveryRequestEnds`, `AllReturned` and `EveryEventSettles` of both `BillingWebhook` and
`SiemDelivery`), because the prover cannot reason about fairness. Every other
property of the runs is a theorem.

## Where code and documents part

Ten configurations check one property each that a document, a comment or a test states
and that the code does not keep; TLC's counterexample is the way there:

    tlc -config doc_poll_ends.cfg MCShellQueryRun

| configuration | module, property | the text says | the code does |
|---|---|---|---|
| `doc_poll_ends` | `MCShellQueryRun`, `PollEndsWithItsRun` | a rowset that is not queryable is retried, then failed (`2026-01-15-query-execution/enhancements/2026-01-16-completeddate-fix.md:49`) | after the confirmations the check gets a copy of the job and returns: the run stays `running` |
| `doc_tab_saved` | `MCSavedQuery`, `CleanTabWasSaved` | `originalContent` is the "content when opened/saved, for dirty detection" (`apps/web/src/store/tabs-store.ts:8`) | `markTabSaved` takes what the tab contains when the answer comes, so that what was typed meanwhile counts as saved; and the tab bar's Save calls it without a request |
| `doc_owner_deleted` | `MCTenantMembers`, `OwnerIsNotDeleted` | "Cannot delete the tenant owner..." (`user-deletion.service.ts:69`) | the role is read before the transaction: a member who becomes the owner meanwhile is deleted |
| `doc_seat_limit` | `MCTenantMembers`, `SeatsWithinLimit` | "Hard block when over the limit" (`agent-os/specs/2026-01-08-tier-based-feature-flags/planning/requirements.md:26`) | logins count before they insert: two at once both pass |
| `doc_last_admin` | `MCTenantMembers`, `NotTheLastAdmin` | "Cannot demote yourself. Promote another user to Admin first." (`admin.service.ts:141`) | the administrators are counted before the update: two who demote themselves at once both count two |
| `doc_audit_connection` | `MCRequestContext`, `AuditIsIndependent` | the audit log works without the request's connection (`main.ts:161`) | it finds the request's connection in the asynchronous context while that is not given back |
| `doc_dedicated` | `MCRequestContext`, `TransactionIsDedicated` | a transaction has a connection of its own (`rls-context.service.ts:214`) | a request that goes on after its connection was given back sends its statement into the transaction of whoever has it now |
| `doc_user_persists` | `MCRequestContext`, `UserPersists` | the user's setting persists across the statements of a request (`rls-context.service.ts:147`) | a request that goes on after its connection was given back sets its own user for the session of whoever has it now |
| `doc_disable_threshold` | `MCSiemDelivery`, `DisabledAfterThreshold` | "does not auto-disable before 10 failures" (`siem-webhook.processor.unit.test.ts:162`) | saving a new endpoint keeps the failures of the old one |
| `doc_deletion_stops` | `MCSiemDelivery`, `DeletionStops` | "This will disable the webhook and stop forwarding audit events." (`SiemWebhookConfig.tsx:349`) | jobs carry a copy of URL and secret and are delivered after the deletion |

What else the models show, and the properties name as exceptions:

*Runs.* A cancel that read `running` overwrites a `ready` stored meanwhile
(`OutcomeKept` says that nothing else does). The documents' reconciler does not exist:
a crash in the failed-job hook, or between insert and enqueue, leaves a run without a
job (`Dropped`). Errors of a status request spend the poll job's three attempts, not
its budget. The row probe takes rows that were in the user's own target before for the
result. "Up to 10 concurrent runs" holds up to the requests in flight
(`ActiveBounded`).

*Streams.* A message between SUBSCRIBE and the end of GET is dropped, so that a new
stream may show an older status until the next event (`CatchesUp` asks for one live
event). "Up to 5 concurrent connections" holds up to the streams that were open when
the key expired (`StreamsBounded`).

*Query definition.* A run whose definition is gone asks about the key and may be told
of another run's (`ReadyIsOver`). The beginning of a run and the failed-job hook delete
whatever has the key; `query-definition.utils.ts:7` says that the activity with the
same key "gets updated", but it is deleted and made again. Of two folders made by two
first runs one is forgotten, and what is in it escapes the sweep (`LeftoversGo`).

*Tokens.* `invalidateToken` may write an older pair back over a newer one ("set back");
an answer that is lost, a save that fails and a crash in between lose the only good
refresh token (`WalletUsable`). Calls that each keep a connection and wait for a second
exhaust the pool for good (`EveryCallEnds`), and a reserve that is granted after its
hook gave up is never released (`ConnectionsConserved` counts it).

*Billing.* The row may be set back (`drift`) by two events of the same second, by a
paid invoice, which carries no time, by an event that was validated before another
subscription took the row (so that the deletion of the old one wipes the new one),
by the freshness guard itself, when a later event of the old subscription keeps out the
new one's, and by the late answer about an invoice of a subscription the row no longer
has, which writes it back into a row that has been cleared (five events; the proof of
`RowFollowsStripe` found it). An event that is refused as foreign is completed all the same. A
claim whose worker died, or failed and could not say so, makes the retry return as if
the event had been handled (`NoEventForgotten`). `confirmCheckout` says "fulfilled"
although the claim was refused, and a second session can be opened and paid while the
first is open.

*Saved queries.* The latest version is the one whose transaction *began* last, so row
and latest version may part (`RowIsLatest`), and a restore writes them in two
transactions. A commit between the comparison of the hash and the row's lock is
overwritten unseen, and the hash belongs to the workspace, not to the tab, so that
opening another query makes the next save a false conflict (`GuardedSaveSawIt`).
`findById` reads text and hash in two statements. Publications that overlap may record
another text than the activity has (`RemoteIsRecorded`), and a link may race the
deletion of its activity (`LinkedActivityExists`). `onSaveTab` of the tab bar
(`EditorWorkspace.tsx:956`) marks a tab as saved without any request, so that the text
is stored nowhere and the tab can be closed without a question (`SaveTab`, excepted
from `CleanTabIsKept`).

*Members.* Roles are checked in statements before the one that changes them, so that an
administrator who has just been demoted still changes a role. A request that was overtaken - a transfer to a member who is
deleted meanwhile, the deletion of one who has become the owner - or a first login that
fails half-way leaves the tenant without an owner until the next login, which makes
whoever signs in the owner (`overtaken`, `lost`). Of two transfers that wait for each
other's rows the database ends one.

*Contexts.* A client that leaves between the reserve and the registration of `close` keeps its
connection for ever (`missed`; `AllReturned` says that nothing else does). What a
handler sends after its connection was given back runs in another tenant's session
(`late`, `disturbed`). If that is the setting of its user, the session keeps it: until
the next setting or cleanup the statements of the connection's holder about its own
user's rows find none, and a connection in the pool hands the user on to a request or
transaction that sets none (`ContextIsOwn`, `FreeIsClean`). A client that leaves while
the hook sets the tenant has the cleanup sent before the business unit, which then
stays on the pooled connection, without a tenant and so without effect, until the next
hook sets its own. A log that meets a failing database or queue leaves an audited action without
entry or without SIEM job (`unlucky`).

*SIEM.* A delivery whose answer, or whose count, is lost is made again
(`RepeatedOnlyUnheard`). Counts are lost when the database fails or the worker dies after the request, and
wiped by the success of an older delivery that is recorded late, so that an endpoint may
be disabled late (`spoilt`); a save keeps the count of the endpoint before, so that the
new one may be disabled early (`hasty`).

## What is not modelled

Within the modelled components:

- a worker that lost its job's lock but goes on (two workers on one job), and a
  Redis that loses data: a stalled worker is taken for dead;
- the data extension of a run to temp, the schema inferred for it and the rows;
- reading endpoints, history, the results' pages and metrics;
- in `RunStream`, failures of the publisher, several runs at once (the limit is
  per user and the channel per run, so tabs on other runs only share the counter)
  and a client that leaves before the framework has subscribed to its stream;
- in `MceTokens`, sessions, and several users of one pool (their calls differ from the
  modelled ones only in not sharing a lock);
- in `BillingWebhook`, events that name another tenant, refunds and disputes (they
  write the audit log), expired sessions, tiers beyond pro, period ends and the
  invoices of the back office;
- in `SavedQuery`, creation and deletion of the query, switched-off features, an editor
  with several requests at once, and the drift check as a step of its own;
- in `TenantMembers`, what a deletion removes besides the row, and several tenants;
- in `RequestContext`, the reserve that comes after its hook gave up (it is in
  `MceTokens`), a hook whose settings fail, the end of the process after a cleanup that
  failed, and `BEGIN` and the settings of a transaction as two steps;
- in `SiemDelivery`, the signature, the body and the check of the resolved address.

Other components, with the reason in `PROJECT.json`: folders and snippets, lifecycle
cleanup, GDPR export, usage, MCE metadata, the back office, SQL analysis,
observability and the shared libraries. They edit single rows, delete what a schedule
or a request names, or compute a value from a string; no second actor has a part in
it. The same holds for
most of the source by its lines: about three fifths of it are the user interface of
`apps/web` and `apps/backoffice` (components, forms, tables, and the SQL editor's lint
rules and completion, which are functions of a text), controllers and validation
schemas. A model of those would repeat them line by line and have no property that
a state or an order could break. The state that the web application does keep in
competition with the server - the stream of a run and the tab of a saved query - is in
`RunStream` and `SavedQuery`.

## Plan

Done: `ShellQueryRun` with `RunLifecycle`, `RunStream`, `SharedQueryDefinition`,
`MceTokens`, `BillingWebhook`, `SavedQuery`, `TenantMembers`, `RequestContext` and
`SiemDelivery`, each with its run, the proofs of every safety property of all of them,
and `AuditTrail`, which composes the last two, with its proofs.

Left, in this order:

1. in `SharedQueryDefinition`, the data extension of a run to temp, which has the run's
   own name and a retention of its own;
2. SQL analysis as functions on a small grammar, against a reference definition;
3. the tree of folders (moves that would make a cycle), the user archive and the end
   of a tenant;
4. the back office's changes of a tenant's subscription beside Stripe's;
5. the run and its streams together, as `AuditTrail` does for the audit log: under the
   failures that `EventsEndWithTheOutcome` excludes, what a tab shows after an outcome
   that is followed by another event.
