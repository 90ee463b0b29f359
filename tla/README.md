# CareerCanvas API management, in TLA+

This directory holds TLA+ models of the CareerCanvas API manager: the
modules, the TLC configurations that check them on small instances, and proofs
for every instance that TLAPS checks. Paths below are relative to the
repository's first-party code, `src/` of the repository; line numbers of every
definition are in `PROJECT.json` under `map`.

Contents: [the system](#the-system) · [modules](#modules-and-how-they-correspond-to-the-code)
· [runs](#runs) · [fairness](#fairness) · [proofs](#proofs) ·
[findings](#findings) · [abstractions](#abstractions) ·
[not modelled](#not-modelled-and-why) · [plan](#plan)

## The system

CareerCanvas registers APIs, hands out tokens for them, meters and limits their
use, and shows all of it in an admin dashboard. It is TypeScript on three
runtimes: a NestJS server (`main.ts`, or one Lambda through `lambda.ts`), small
Lambda handlers (`functions/`) wrapped in `middleware/`, and a React dashboard
(`admin-dashboard/`). Around them are jobs that back up, fail over, scan and
report (`infrastructure/`). Nearly all shared state is in DynamoDB. There are no
transactions and hardly any condition expressions, so whatever is right about
the code is right because of the order in which single-item operations happen,
and every `await` is a place where something else may happen first.

| Component | State it keeps | Operations | Interacts with | What is hard | What makes it correct |
|---|---|---|---|---|---|
| Per-token rate limiter `core/services/rate-limit.service.ts` | one counter item per (token, API): `requests`, `windowStart` | `checkRateLimit`, `resetRateLimit` | called by RateLimitGuard; DynamoDB | increment and reset are two writes; several instances; resent writes | a window admits a bounded number of calls; counts are not forgotten early |
| Lambda rate limiter `middleware/rate-limiter.ts` | one counter item per user and minute | the wrapper | wraps handlers; DynamoDB | concurrent invocations; late answers; resent `ADD` | at most the limit per minute; nobody refused below it |
| Token service, guards `modules/token`, `core/guards` | token items; the index `TokenKeyIndex` | create, validate, record use, revoke; `canActivate` | the limiter; DynamoDB | the index lags behind the table; tokens end while requests are in flight | only valid tokens pass; a revocation is final and takes effect |
| Task dependency graph `infrastructure/project/dependency.ts` | Map of nodes with dependencies, dependents and times | add (or refuse) a dependency, critical path, unfinished dependencies | ProjectChecklist | cycle search, order of the passes | acyclic, both sides agree, timings settle |
| Project checklist `infrastructure/project/checklist.ts` | items of a table, beside an in-memory graph | initialise, add dependency, update status, update subtask, queries | graph, notifications, analytics; DynamoDB | two stores written one after the other; read-modify-write; initialised again; restarts | graph and table agree; statuses respect dependencies; no lost update |
| API registry `modules/api` | API items | create, read, update, delete | DynamoDB, response cache | read-merge-put against another update or a delete; an id in the body goes before the one in the url | an acknowledged change stands, and a deletion too, but for named reasons |
| Response cache `core/interceptors/cache.interceptor.ts` | in-process cache, TTL 5 min | `intercept` | any controller | a response computed before a change is stored after it; the key has no method; each process has its own | bounded staleness; an answer misses only what it may |
| Lambda middleware chain `functions/`, `middleware/` | audit table, keys table, metrics | the nested wrappers | DynamoDB, CloudWatch, Cognito | a step fails after an earlier one took effect | what is audited is what happened |
| Lambda bootstrap `lambda.ts` | `cachedServer` | `handler` | NestJS | a bootstrap that fails | one server per process |
| Roles and administration `services/admin`, `guards/permission.guard.ts` | users, roles, permissions (SQL) | create, assign, check | TypeORM | find-then-save; check-then-use | permissions are those of the role |
| Usage metrics `modules/metrics`, `core/services/metrics.service.ts`, `infrastructure/monitoring/custom-metrics.ts` | usage items; counters in memory | track, query, publish every minute | CloudWatch, DynamoDB | counts made during a publication; the process ends | every count published once, but for those |
| Dashboard data hooks `admin-dashboard/hooks` | React state | execute, paginate, edit a form, subscribe | HTTP, WebSocket | answers out of order; closures over old state | what is shown belongs to what was asked last |
| Dashboard screens `admin-dashboard/components` | open dialogs, selected rows | the handlers of the role and user lists and of their forms | hooks, `api/admin.ts` | handlers that resume in an older rendering; dialogs closed meanwhile | the screen shows what it says it shows |
| Dashboard error handling `admin-dashboard/services/error*.ts` | retry budgets, bounded log, timeline, `localStorage` | log, analyse, recover, report | hooks, error boundary | overlapping recoveries share a budget | bounded retries, told truthfully |
| Career agents `agents/` | chains by name; workflow state | register, execute, workflow loop | langgraph, functions/recommendations | chains named differently where they are registered and where they are asked for | a workflow ends in `complete` or in an error |
| Jobs `infrastructure/backup`, `disaster-recovery`, `cleanup`, `monitoring`, … and `scripts/` | none of their own: AWS resources, reports | scheduled and manual runs, sequences of awaited calls | AWS | one call of several fails; branches of a `Promise.all` go on after another rejected; runs overlap; restores are asynchronous | a run rejects only with reason, reports it, and cleans up after itself; traffic goes where it was looked |
| Deployment definitions, application shell, other screens, C# recommendation service | none of their own | rendering, wiring, declarations | | | |

The hazards among these that a test hardly reaches are listed one by one, each at
its line, in `PROJECT.json` under `hazards`, with the properties that watch them.

## Modules and how they correspond to the code

```
WindowQuota  <== RateLimitService           (implements, Limit + 1)
             <== LambdaRateLimiter          (implements, Limit)
TokenService                                (its CheckRateLimit is RateLimitService)
ProjectChecklist  --INSTANCE-->  DependencyGraph
ApiRegistry                                 (registry, with the response cache before it or not)
MCServerCalls     --INSTANCE-->  ManageKeys, CustomMetrics, TaskTimeline
                                            (extends LambdaRateLimiter)
MCDashboard       --INSTANCE-->  RoleList, UserList            (extends ErrorRecovery)
InfrastructureJobs  EXTENDS  JobScripts     (what runs of a job do; what each job awaits)
```

`MC<Module>` extends a module for TLC, with symmetry sets and reference
definitions, or instantiates several that share no state: each is explored while
the others stand still, in one run; `<Module>_proofs` extends it with theorems
(`ServerCalls_proofs` and `Dashboard_proofs` extend `MCServerCalls` and `MCDashboard`,
and so prove about each of the modules these put together). A definition preceded by
*Mutant:* is not part of a model: it is the same definition with a plausible bug,
kept to show that the property it is paired with (`PROJECT.json`, `mutants`)
notices.

**WindowQuota** is the abstract limiter. Windows open one after the other and each
gives out at most `Quota` admissions, also belatedly: a request may still be
admitted on behalf of a window that has been replaced, because the store's
answer takes time.

**RateLimitService** is `checkRateLimit`. `row` is the DynamoDB item. A call goes
through `CheckRateLimit` (reads the clock, sends), `StoreIncrement` (the store
applies `if_not_exists(requests) + 1` atomically and answers `ALL_NEW`; see
[abstractions](#abstractions) for the value that DynamoDB objects to), and then
`Decide`, or, when the window it was told of is over, `SendReset` (its own
`Date.now()`), `StoreReset` (unconditional) and `AllowAfterReset`. `Resend` is the
SDK's retry of a write whose answer was lost, `Abort` an error or a dead process at
any point. `epoch`, `admitted`, `granted` are history: how many resets the item has
seen, and which request numbers each of those windows gave out.

**LambdaRateLimiter** is the middleware: `Invoke` computes the minute, `StoreAdd`
is the `ADD`, `Refuse` the 429 and `Handle` the call of the handler.

**TokenService** has the table as `written[t]`, the sequence of states the item
went through, and the index as `replicated[t]`, how long a prefix of it every
replica has. A query is answered by any state from there on. `CreateToken`,
`RevokeToken` (an upsert: it leaves an item without key when the id has none) and
`UpdateTokenUsage` write; a request goes through `CanActivate`, `Query`,
`Validate`, for RateLimitGuard also `CheckRateLimit`, and `Handle`. `began` and
`floor` record the clock and the replicated prefix at its arrival.

**DependencyGraph** has the Map's insertion order in `order` and the fields of the
nodes in `dependencies`, `dependents`, `timing`. None of its `async` methods yields
while it works on the graph, so each is one action: `AddDependency`,
`RejectDependency` (the throw, which leaves the nodes behind) and
`CalculateCriticalPath`. Each addition and path query ends with one call of
`UpdateTimings`, a forward and a backward pass in insertion order.

**ProjectChecklist** composes it with the table. `addDependency` is
`AddDependency`, `GetItems`, `StoreDependency` (the `list_append`), `UpdateGraph`,
in this order; `updateItemStatus` is `UpdateItemStatus`, `CheckStatus`,
`StoreStatus`, `Notify`; `updateSubtaskStatus` is `UpdateSubtaskStatus`,
`ReadSubtasks`, `StoreSubtasks`, `Notify`. `InitializeChecklist` puts one of its items,
in whatever state that item is, and may do so at any time: it can be run again, and the
SDK can send each put again. `visible[t]` is what an eventually consistent read may return.
`Restart` empties the graph and keeps the table. `parted` remembers the dependencies at
which table and graph were brought apart by a failed call, such a put or a restart.

**TaskTimeline** is the other half of `updateItemStatus`: after `Read` and `Write` of
the item, `TrackStatusChange` (the metric, and the timestamp of the event) and
`RecordTimelineEvent` (a put whose key is that millisecond). `disturbed` remembers
whether two updates overlapped, one failed half-way, one read a lagging replica, or the
item was initialised again, which resets its status and leaves the timeline.

**ApiRegistry** is ApiController, ApiService and CacheInterceptor. An item maps each
field to the call that set it. A request has the id of its url, `api`, and the id the item
is put under, `target`: `createApi` and `updateApi` spread the body over the item, so a body
with an id decides. A key of the cache is a process, a url and its query string; `Restart`
ends a process, and its cache with it. `GetApi`, `UpdateApi`, `DeleteApi` and `CreateApi` are
requests that reach their handler (`Handle`); `AnswerFromCache` those that do not.
`Get` is the read of `getApi`, and for an update also the merge: a lagging replica
may answer. `Put` and `Delete` write, `Resend` is the SDK's retry, `Answer` is `tap`.
`seen`, `stale` and `beside` record which writes a call had seen, whether from a
lagging replica, and which calls were in flight when it began; `log` the order of writes.

**ManageKeys** is the Lambda function with its wrappers in the order of the last
statement of `manage-keys.ts`: `Receive` and `Verify` (authMiddleware), `LimitRate`,
`Validate` (validateRequest, then the choice of method), `Scan` or `Put`, `Audit`,
`Meter`, `Return`. `Throw` is what errorHandler makes of an error thrown at any
depth: neither authMiddleware nor validateRequest awaits what it wraps, so their
catches do not see it.

**CustomMetrics** is the collector: `TrackApiUsage` counts, `PublishMetrics` copies the
Map and sends, `PutMetricData` is CloudWatch, `Clear` empties the Map after the await,
`End` is the end of the process, with which the Map is gone.

**JobScripts** gives each of the 43 jobs as the calls it awaits: stages, which may
catch, of branches that run side by side (`Promise.all`), of calls one after the
other. A call is a read, a list whose answer decides about later calls, a write that
may or may not be repeated, an empty method (`Stub`), a check of the code that throws
(`Require`), or `Broken`: one that throws whatever AWS holds, since its method does not
exist in that class, it takes a property of something undefined, or the SDK or the service refuses its
parameters. What would follow such a call is left out.
**InfrastructureJobs** runs them: `Settle`, `Refuse` (what exists cannot be created, what
is gone or not ready not deleted, what is broken not called), `Fail` with or without
effect, `Continue` to the next stage, `Resolve`, `Kill`, and `Restored`, DynamoDB's end of
a restore. A rejected run keeps its other branches going, as JavaScript does. In the
failover, items are regions: 1 that of the clients, 2 the one traffic is switched to.

**RoleList** is the screen of roles over `useApi`: each execution of `loadRoles` sets
the state when it is answered, in whatever order; deletions, assignments and
submitted forms `Begin`, are applied by the server (`Apply`) and go on after their
await (`Answer`, `FailHandler`) with closing a dialog and loading again. **UserList**
is the screen of users over `usePagination`: `fetch` and `handler` keep the page and
limit of the rendering they began in. **ErrorRecovery** is the budget of recovery
attempts per error type and the hook that shows their status; recoveries that load
another page begin with a fresh service (`Leave`).

## Runs

Each run must finish within minutes; figures are distinct states.

| Run | Instance | What it shows |
|---|---|---|
| `rate_limit_service` | 3 calls, limit 1, 4 instants, window 1, 4 increments, answers lost; 91,000 | `GrantedOnce`: no window gives one number to two calls. `ImplementsQuota`: at most limit + 1 per window. `OnlyLateResetsForgetTooEarly`: counts disappear early only through a reset decided for an earlier window. `EveryCallReturns`. |
| `rate_limit_off_by_one` | 1 call, limit 2 | violated: a window admits 3. See [findings](#findings). |
| `dependency_graph` | 4 tasks, 4 entries, every order | `Acyclic`, `BothSidesAgree`; in `MCDependencyGraph` the code's depth-first search with its shared visited set against reachability (`SearchFindsCycles`); the single pass against the longest chain (`NeverTooLate`, `PassesSettle`, `FinishNeverMovesEarlier`) and the walk of `calculateCriticalPath` (`CriticalPathIsWholeChain`). |
| `token_service` | 1 token, 2 requests, 3 instants, 1 use; 394,000 | `PassesOnlyValidTokens`: what a guard promises in spite of the index. `RefusesOnlyWithReason`: a guard turns away no token that every replica had when the request came and that has not ended. `RevokedForGood`. `EndTakesEffect`: a token that ended stops passing, for ever, however many requests keep coming. |
| `checklist_dependencies` | 2 calls, 2 items, 3 entries, repeated initialisations, failures, restarts; 1,198,000 | `TableAndGraphAgree`: table and graph have the same dependencies, except one on its way from one to the other, one the graph refused for a cycle it still has, and those at which a failed call, a repeated initialisation or a restart parted them. |
| `checklist_subtasks` | 3 calls, 1 item, 2 subtasks, repeated initialisations; 487,000 | `SubtasksReopenOnlyWithReason`: a completed subtask is lost only to a call that asked for it, one that had not seen the write, because it overlapped it or read a replica that lagged, or to an initialisation. |
| `checklist_completion` | 1 call, 2 items, 1 entry | violated: an item is completed before its dependency. See [findings](#findings). |
| `api_registry` | 2 calls of any kind, 2 APIs, 2 processes, 2 query strings, and 3 calls where they meet in one entry of a cache; 1 field, TTL 1, 3 instants, 2 writes; with and without the cache; 2,196,000 | `AcknowledgedChangesHold`: an acknowledged change was made, under the id the body gave, and stands until a call that means to, that puts another API's copy there, or that overlapped it or read a lagging replica, removes it; a write answered from the cache is answered with what the url answered at most a TTL before. `DeletedApisStayDeleted`: the way back is a request whose body names the id, or an update that crossed the deletion or read a lagging replica. `AnswersAreRecent`: what a read may miss. |
| `server_calls` | limiter: 3 invocations, limit 2, 2 minutes, 5 increments, answers lost; key function: 2 invocations; 1 API, 2 publications, 3 calls; 3 updates, 2 statuses, 3 instants; 463,000 | `GrantedOnce`, `ImplementsQuota` with exactly the limit, `RefusedOnlyOverLimit`. `AnswersTellWhatHappened`: a refused request has changed nothing, a stored key is audited or was not acknowledged. `CountsAddUp`: counts are lost only when made during a publication or with the process, doubled only across overlapping or repeated ones. `TimelineAddsUp`: undisturbed, the timeline is the item's history. |
| `dashboard` | 2 changes, 2 loads, 3 versions; 3 fetches, 1 handler, 3 pages, 2 limits; 2 recoveries; 200,000 | `ListCatchesUp`: after every answer, the list has every change of this screen, unless the last load began beside another. `PageAndDataAgree`: the rows are those of the page shown, and as many as the limit says unless they were asked for before the last `setLimit`. `RecoveryIsToldAndBounded`. |
| `infrastructure_jobs` | 43 jobs, 0 to 2 items; 1 run and up to 2 failures, or 2 runs of 9 jobs that meet; 261,000 | `RejectsOnlyWithReason`: no job rejects by itself but at a call that always throws or a check of its own. `CopiesAreCleanedUp`, `MetricsTellTheOutcome`, `TrafficMovesOnlyWithReason`. `LoopsStopOnlyThemselves`: what a clean-up, which always rejects, has left when its loops are over. |
| `failover_region` | the same | violated: traffic goes to a region that has nothing. See [findings](#findings). |

Why these bounds are enough for the cases to occur. Limiters: three calls are
needed for two racing resets and a third call that is counted in between; four
instants hold a window, its end and a second window; four increments are one to
open the counter and one per call, or a resent one. Limit 1 makes the boundary
reachable; the proofs below do not depend on any of these numbers. Graph: four
tasks are the smallest graph with a diamond, and with a search that meets a task
twice on the way to another; four entries close every cycle up to length four.
Tokens: one token, since no operation relates two; two requests, one of each kind
or both alike; expiry dates before, at and after each instant. Checklist: two
items make the mutual dependencies that are refused, and three entries let one of the two be
stored again after its item was put anew; longer cycles are those of `dependency_graph`; three
calls on one item for an overlapping write, a lagging read and a late writer. Registry: two
APIs are the one of the url and the one of the body, two processes and two query strings are
one that shares an entry of the cache and one that does not; of three calls that meet in an
entry one can read, a second change or delete, and a third observe; updates of no field tell a
merge from a replacement; two writes put one behind the other in each order. Which calls
begin, and in which order, is `Explored` in `MCApiRegistry`: what is left out differs by names
only, except that no third call comes where the first two cannot meet in the cache. Metrics: two
publications overlap, three counts fall before, between and after. Timeline: the third
update crosses two others or follows them. Screens: two loads are answered in either
order, a third fetch belongs to a handler that resumes late. Recoveries: two overlap on
one budget of three. Jobs: a loop over two items has a first and a last; two
failures are one in a `try` and one in its `catch`; runs of a job that create or delete the
same thing meet, and fail each other without any further failure. `MaxTime`,
`MaxSent`, `MaxMinute`, `MaxCalls`, `MaxDependencies`, `MaxWrites`, `MaxTotal`,
`MaxVersion`, `MaxBegun` and the `failures` of a scenario are bounds of the models, not
of the code; they appear in guards and nowhere else. Because of them the models stop, so
deadlock is not checked; that calls of the limiter do not get stuck is `EveryCallReturns`. The dashboard stops for a reason of its own: an error replaces a whole
screen, and with it every button that could load again.

Symmetry is used only in runs without liveness, over calls, requests, tasks and
subtasks, which no definition tells apart.

## Fairness

*RateLimitService*: weak fairness of the steps of each call, `Progress(c)`: DynamoDB
answers a request it received, and Node's event loop runs a continuation whose
promise has settled. Nothing is assumed of new calls, of the clock, of lost answers
or of crashes. *TokenService*: an entry of the index is replicated in the end
(DynamoDB's promise for a secondary index), and the steps of a request are taken:
the store and the limiter answer and a handler returns. Revocations, uses, new
requests and failures are not fair. No other run needs fairness.

## Proofs

`tlapm` checks these for every value of the constants. Every inductive invariant
named below was first checked by TLC, as an invariant of the run of its module.

### Assumptions

The named `ASSUME`s on constants, which TLC evaluates too: types; `Limit > 0` where the
code has 100; that finitely many invocations are in flight (LambdaRateLimiter); that a
checklist has finitely many items (`TaskAssumption`, without which a longest chain need
not exist); that what stands for *no item* in the registry is none of its calls and none of
its items, and the url of the list none of an API (`NoItemAssumption`, `UrlAssumption`).
Modules that are instantiated rather than extended have their assumptions in the
statements instead: `None \notin Nat` for ManageKeys; `TimelineConstants` (the clock's
bound is a number, *none* is neither a time nor an event, an item begins with one of
the statuses); `UsersConstants` (*none* is no page that is shown, a fetch is not a
handler and neither is called "data"). All of them are about names and types, none
about behaviour.

### Limiters

*RateLimitService_proofs.* `GrantedOnce` is inductive and is where the argument
lies: the numbers given out in a window are distinct because the increment is
atomic and returns its own result, a number still in flight has not been given
out, and no number survives a reset, as a reset opens a new window. A window's
admissions are then as many as a subset of `0 .. Limit` has members
(`OneOverLimitAtMost`), and every step is a step of `WindowQuota` or invisible
(`Refinement`). `WindowsBeginInThePast` is inductive by itself. For
`ForgetsOnlyOldWindows`, `RemembersWindow` is added: what a call remembers of the
window it was answered for is true of the item until that window is replaced, so a
reset that reaches the window it was decided for comes after its end.

*ServerCalls_proofs*, its part about LambdaRateLimiter: the same shape with counts
`1 .. Limit` per minute
(`CountsGrantedOnce`, `Refinement`). `NobodyRefusedBelowLimit` adds that increments
applied and increments on their way are together no more than were sent
(`SentBeforeCounted`), so a count above the limit means as many increments.

### Tokens and registry

*TokenService_proofs.* Two strengthenings carry the three results: `StatesOnlyAge`,
along the history of an item revocation is never undone, and expiry and key never
change; and `Sound`, for each request, what it has learnt lies between the replicated
prefix at its arrival and the current state. Together they turn "the query said
active" into "not revoked in the whole index at arrival" (`OnlyValidTokensPass`), and "the
query found nothing good" into "not in the whole index at arrival, or ended since"
(`RefusalsHaveAReason`).

*ApiRegistry_proofs.* All four results come from one inductive invariant, `IInv`, about
four things. The log: each write in it was made by a call that had not answered yet
(`LogSound`), and what it wrote is still in the table or was removed by a later write that
may remove it (`WriteHolds`). A call on its way: whoever wrote after what it has `seen`
overlapped it (`WritersOverlap`), and unless a lagging replica answered it, or it is to be put
under another id (`Fresh`), the copy an update is about to put holds the changes it has seen (`CopyHolds`) and misses only
deletions that overlapped it (`DeletionsOverlap`). An answered read: it misses only
changes, made through its own url, whose calls overlapped it, or it is `stale` (`AnswerSound`). An entry of the
cache: it is the answer of some call, expires one TTL after that call ended, and misses
nothing that a call for the same url at the same process wrote, unless it overlapped that one
(`EntrySound`): until the entry expires no such call begins, as the cache answers it. `ChangesHold` is then
`WriteHolds` read for answered calls: `put` writes the copy, so only an update that does
not hold a change can remove it, and such an update overlapped the change or was stale.
`DeletedStays` is an action property from the same invariant.

### Graph and checklist

*DependencyGraph_proofs.* `AlwaysAcyclic`: reachability is defined by closed sets rather
than by recursion, so the cycle check says that the tasks reachable from `dependsOnId`
form a set that is closed under dependencies and does not have `taskId`. A set of tasks
of which each has a dependency inside cannot exist after the addition, since its part
within the closed set would have been one before. `SidesAlwaysAgree` is inductive by
itself.

The schedule needs three more steps. First, what a pass computes: `FoldLeft` is an
iteration of functions (`FoldExists`, `UpdateTimingsPasses`), so a pass is a sequence of
schedules of which each `Delays` one node to after its dependencies, then one in which
each `Advances` one. Second, `ScheduleInv`: every finish is `Justified`, no later than
one duration after that of some dependency, or than one duration. This is inductive
because dependencies are only added, and it gives `FinishesOnlyGrow` and, with
acyclicity, `NeverFinishesTooLate`. Third, distance: a pass settles every task whose
chain is one longer than what was settled before it (`EarlySettlesOneMore`,
`LateSettlesOneMore`), and no chain is longer than there are nodes (`ChainWithinNodes`),
hence `PassesAlwaysSettle`. For `CriticalPathAlwaysWhole`, `EndInv` is added: the latest
finishes that are equal to the largest are those of tasks nobody waits for, also while
nodes that a refused call left behind have not been scheduled. The walk back loses one
length of chain per step, so it ends within as many steps as there are nodes.

Induction is over tasks and lengths, which have no induction theorem that can be used
here: `MinimalSet` gives, of any finite set of counterexamples, a least one, and
`IntervalInduction` the same for numbers.

Every result is proved for `RestartableSpec`, in which the graph may also be replaced by a
new one, and holds of `Spec` for that reason.

*ProjectChecklist_proofs.* `TableAndGraphStayTogether`, by adding `Told`: a call that is
about to update the graph has its dependency in the table, unless the item was put again
since, which is remembered in `parted`. `Told` is stable because only such a put shortens a
list, whatever other calls do between the two steps. That a refused dependency stays
refused takes the graph's own argument: dependencies are only added, so a cycle that was
found is there for good, until a restart, after which everything stored counts as parted.
`SubtasksReopenWithReason`, by adding `WritersSawTheRest`: a call
whose copy of the subtasks is not `stale` agrees with the item on every subtask but its
own, since a write, or an initialisation, marks every other copy. `GraphInside` maps every step of the
checklist to a step of `RestartableSpec`, and so `GraphKeepsItsPromises` carries what is
proved of the graph over to the graph the checklist keeps; `TypeCorrect` needs this, as the
types of the timings do.

### Server calls

*ServerCalls_proofs.* `CountsAlwaysAddUp`: what CloudWatch and the counters do not
have in between is with a publication that is still to clear the counters:
`NothingLost` says that its copy and what CloudWatch had before make up for what was
made until it began, so that clearing loses only what came later, and that the rest was lost
with the process. `NothingTwice` says
that as long as nothing was repeated there is one publication at a time.

`AnswersTell`: `Consistent` relates the wrapper an invocation has come to with what it
has left in each table: nothing before the handler, the key after it, then the audit,
then the metric. Invocations touch only what is theirs, so one lemma (`OthersKeep`) deals
with all the others.

`TimelineHolds`: `TimelineInv` says that as long as updates came one at a time, read what
the last one wrote, got to their end, and did not share a tick, the events form a chain: the old status of each is the one the events
before it lead to, and the item has the status all of them lead to, or the one that the
only update between its write and its event has put there. *Lead to* is the new status of
the latest event, which the added facts determine: timestamps are set once and each
new event is later than all there are, so adding it at the end changes what no other
event follows, and no induction over the list is needed.

`ServerCallsHold` puts these three and the Lambda limiter together: a step of the run is
a step of one of them.

### Dashboard

*Dashboard_proofs.* `RecoveryAlwaysToldAndBounded`: `Budget` counts the attempts where
they begin, before their delay, which is why overlapping ones cannot exceed it; `Shown`
adds that an attempt nothing crossed is the only one under way.

`ListAlwaysCatchesUp`: `RolesInv` adds that a change the screen knows of has been applied at
the server (`KnownHappened`), so a load that begins after it reads a version that has
it; and that a load which began alone is the only one, brings at least what was known
when it began, and shows it once it is answered (`NewestShown`).

`PageAndDataAlwaysAgree`: `UsersInv` adds that with no fetch under way the last to end has
set page and rows together, or the error (`AgreeAtRest`), and that what began
with another limit than the one now set is marked `outdated` (`LimitsDated`), so that
a change of the limit between the two is never mistaken for agreement. `DashboardHolds`
puts the three together.

### Jobs

*InfrastructureJobs_proofs*. Which calls a job makes is read off its script, once for
each of the 43 (`JobFits` and the lemmas before it): every script is a sequence of
stages of branches of calls, and no call of a job but `initiateFailover` is about the
traffic, none but of `verifyBackups` about a copy. For this, loops over items are
sequences of a length that depends on `Item`, not recursions. What a step does to its
run is stated without the choice of the next call (`Settled`, `Threw`, `Continued`,
`EveryStep`), so that no other lemma opens the operators of the model. The base of the
four theorems is `Shape`: a run which has begun has, in each branch of
its stage, a place in that branch, and the call there is one whose lists and
conditions the run has seen. It is a lemma, true of any script.

Each theorem adds an invariant that goes along the stages of one script. `MetricsTell`: in
the `try`, every table before the place of the run is backed up and nothing has been
published, but for a success published at the end of it; in the `catch`, a success published
before is one whose answer failed; after it, failure has been said. `TrafficMoves`: past the
two checks the run has seen tables and functions of region 1, traffic has moved only past the
switch, and in the rollback only if the switch is among the failed calls. `CopiesCleanedUp`: a
copy of item *i* exists only while the run is between the restore of *i* and the end of its
`finally`, or the deletion is among the failed calls, or the process ended; a run rejects only
from a listing, when no copy is open, and copies carry the number of their run, so no other
run makes or deletes them.

`OnlyFailuresReject`: while no call has failed and no other run has begun (`Alone`), what
the run will still create is not there, what it has listed and will still delete is there
and not under way, and so it is refused nothing but what is broken, or required and not found
(`Free` in `LoneInv`). A step of the run keeps this only if no two of its calls create,
restore or delete the same thing, it deletes only what it has listed, and creates nothing that
it lists or deletes. That is proved for each script (`Careful`) but that of `verifyBackups`,
whose calls AWS may refuse: each of those is in a `try` or has its own catch (`Forgiving`), so
a refusal does not reject the run.

### Only model-checked

- Everything temporal beyond safety (`EveryCallReturns`, `EndTakesEffect`): liveness and
  `ENABLED` are out of the prover's reach.
- `LoopsStopOnlyThemselves`, for which only two clean-ups over two items are explored.
- `SearchFindsCycles`, which compares the recursive search of the code with
  reachability: it is about a `RECURSIVE` operator. The proofs use reachability.

## Findings

- **The limiter admits one call too many.** `core/services/rate-limit.service.ts:48`
  resets the counter to 0 for a call that is then admitted, so the window admits
  101 calls where line 37 says `item.requests <= 100; // Default rate limit`. Run
  `rate_limit_off_by_one`. `ImplementsQuota` shows that the excess is never more
  than this one call per window.
- **Items are completed before their dependencies.**
  `infrastructure/project/dependency.ts:64` compares a duration from the start of
  the project with `Date.now()` and never looks at a status, so
  `updateItemStatus`, which says *Check dependencies before marking as complete*
  (`checklist.ts:129`), lets every completion through. Run `checklist_completion`.

- **A failover looks at the wrong region.**
  `infrastructure/disaster-recovery/dr-manager.ts:52` lists the tables and functions of
  clients made for `AWS_REGION` (lines 12 and 13) and throws *Secondary region ${region} is
  not properly configured* (line 56) by their answer, so traffic can be switched to a region
  with neither. Run `failover_region`. What the check does give is
  `TrafficMovesOnlyWithReason`.

Seen while modelling, and true of the models though no run is about them: a
dependency the graph refuses as a cycle has already been appended to the table and
stays there (`checklist.ts:111`); two calls that both find a window over reset it
twice, and the second reset erases what the first window counted (`OnlyLateResetsForgetTooEarly`
states when this may happen); `checklist.ts` closes its class at line 179 and
calls three methods that do not exist; guards and cache interceptor are attached to no
controller, `CustomMetricsCollector` is registered by no module, and `updateTokenUsage`
has no caller. With the interceptor in front, a PUT or DELETE of a url that was read
less than a TTL ago is answered from the cache and never reaches its handler, since
the key has no method (`cache.interceptor.ts:16`). Two updates of different fields of
an API erase each other when they overlap, and an update that crosses a deletion
brings the API back. Nothing loads the role list or the user list when the screen
appears; after an error nothing can; *Create Role* after a dialog for a role opens the
form for editing that role, as nothing clears `selectedRole`. `changeLimit` asks for
the old number of rows (`usePagination.ts:39`). `manage-keys.ts` does not import
`rateLimiter`, `metricsCollector` and `ApiError`. The body of an update, or of a creation, may
name another API's id and write that one (`api.service.ts:13`, `:45`). Running
`initializeChecklist` again erases progress and dependencies (`checklist.ts:87`). Sixteen of
the 43 jobs come to a call that always throws, on every run or under a condition; each is
`Broken` in `JobScripts`, with its reason beside it. `compliance-monitor.ts` (a parameter
called `eval`, line 37) and `access-logger.ts` (line 12) never load. The career
workflow looks for `skillGapAnalysis`, which is registered as `skillGap`, so it never
reaches the `complete` that `test/recommendations.test.ts:34` expects.

## Abstractions

- Integers stand for timestamps and durations; clocks of different instances
  agree. `DependencyGraph` counts in days, `Now` is today in days since 1970.
- One item per component where items never touch each other: one (token, API)
  counter, one user's minutes.
- Two updates are modelled as what they are meant to do, though DynamoDB answers both with a
  `ValidationException`: that of `checkRateLimit`, because its value `:windowSize`
  (`rate-limit.service.ts:24`) is in no expression, and that of `updateTokenUsage`, because
  `usage` is a reserved word (`token.service.ts:66`). As they stand, every call of the limiter
  takes `Abort` before anything is stored, and no use of a token is counted: both are
  behaviours of the models, in which every property holds.
- An AWS SDK retry is `Resend`: the same write once more, possibly after others
  were applied. A write that never reached the store and an answer that never came
  are `Abort` or `Fail`.
- `uuidv4` never repeats. A request with the administrator's key passes AuthGuard
  without any token and is left out.
- `checklist.ts` is read without its stray brace. `addDependency` ends by calling
  a method that does not exist, after all its effects. `initializeChecklist` puts its items
  one by one, in any order and again at any time, and some may be missing.
- Notifications, timelines and metrics of a task change no item; in
  `ProjectChecklist` they are the step `Notify`, which may fail; the timeline itself
  is `TaskTimeline`.
- The cache keeps which call's answer it has, for `TTL` ticks; node-cache drops an
  entry once its time lies in the past, and the empty answer to a DELETE is no hit.
- The limiter inside `ManageKeys` may answer either way; `LambdaRateLimiter` says when
  it does which. Imports that the file lacks are read as if they were there.
- Response times, which the collector sends without waiting, change nothing.
- In the jobs, what listings answer and what conditions on data decide is chosen
  freely when a run begins; queries that are made together and only read are one call. What
  stands behind a call that always throws is left out. What the comparison of a restored copy
  finds is left out. `createBackupPlan` refuses the plan that is there already.
- The contents of the lists are left out: a version of the roles, a page and limit of
  the users. What the search field filters is left out.
- Wording, formatting and logging are left out; no property is about them.

## Not modelled, and why

- *Rendering*: checklist views and the screens other than the two lists keep no state
  beyond what their hooks give them.
- *Lambda bootstrap*: one process serves one invocation at a time, so nothing comes
  between the test of `cachedServer` and its assignment.
- *Roles and administration on the server*: each method is one find and one save of
  TypeORM; what two concurrent saves leave is decided by code outside the repository.
- *useRealTimeData, error logger, analytics and reporting*: they pass on or keep, in
  one synchronous step, what they are given.
- *Career agents*: a sequential loop with a single path, whose base classes and other
  chains are not in the repository.
- *Metrics services, get-analytics*: one put with a fresh key, or a query. The metrics
  of a task query dimensions nobody writes.
- *benchmark-config.ts*: nothing calls it.
- *Declarations*: CDK, CloudFormation, compose files, alarms and dashboards as data
  (the calls that send them are jobs); the application shell; health checks.
- *The C# recommendation service* keeps nothing between requests.
- *DynamoDBService*: a pass-through whose operations appear where they are called.

## Plan

Modelled is what keeps state across an await, and proved is every safety property of it
but `SearchFindsCycles`, which is beyond the prover, and `LoopsStopOnlyThemselves`, which is
next.
