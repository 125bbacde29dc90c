# Boreas in TLA+

Boreas is a Go server that runs test environments.  A *project* has *tasks*; a task is one Docker
container built from one image, reached through Boreas' own reverse proxy under
`/<project>/<task>/`.  A CI pipeline deploys a task by calling Boreas with a new image.

This directory holds a TLA+ model of the server's core, the TLC configurations that check it on
small instances, and proofs checked by TLAPS of what holds for every instance.  Paths below are
relative to the repository; `task_service.go` without a path is
`internal/service/task_service.go`.

## 1. The system

| Component | Source | State | Operations |
|---|---|---|---|
| Task lifecycle | `service/task_service.go`, `infra/postgres/tasks.go` | the `tasks` table; one mutex per (project, task) in `locks` | Create, Start, Stop, Restart, Update, Deploy, Delete; Reconcile at startup; ReportBuild without the mutex |
| Docker runtime | `infra/docker/runtime.go`, `readiness.go` | the daemon's containers, networks and images | Pull, Create, Recreate, Start, Stop, Remove, Inspect, Logs |
| Proxy | `infra/proxy/registry.go`, `lock.go` | `sites`: hop, routes and lock by folded name, in memory; cookies in the browser | Register, Unregister, SetRoutes, SetLock; ServeHTTP reads them and rewrites paths, redirects, cookies and `<base>` |
| Projects and access | `service/project_service.go`, `infra/postgres/projects.go`, `grants.go` | members and their roles, grants on tasks | Create, AddMember, RemoveMember, Grant, Revoke, SetAssignees, Access |
| Accounts and sessions | `service/auth_service.go`, `infra/postgres/users.go`, `tokens.go` | users, tokens; pairing codes in memory | Login, StartPairing, ClaimPairing, Authenticate, UpdateUser, CreateAPIToken, Logout |
| Metrics | `metricsHub` in `task_service.go`, `infra/docker/stats.go` | one feed per container: last minute, viewers, idle timer | watch, pump, leave, the idle timer's function |
| Change signals | `transport/http/events.go`, `logs.go` (`sse`), `middleware.go` (`publishing`), `publishingTasks` in `main.go`; `Directory` in `frontend/.../directory.svelte.ts` | the hub's subscriber channels, places of the public stream; a page's fetch, timer and EventSource | subscribe, unsubscribe, Publish, Close; refresh, load, live |
| Assistant (Bora) | `service/bora.go`, `bora_tools.go`, `infra/postgres/bora.go`, `infra/llm` | running turns in memory, conversations in the database | StartBora, AskBora, FollowBora, StopBora, DeleteBora |
| Notifications | `cmd/boreas/main.go`, `infra/fcm`, `infra/apprise`, `infra/postgres/notifications.go`, `push.go` | notifications, push tokens | Notify, mark read, push |
| HTTP transport | `transport/http` | none but the streams' limit | routing, authorisation, JSON, SSE |
| Startup and schema | `cmd/boreas/main.go`, `pkg/database/migrate.go` | `schema_migrations` | RunMigrations, wiring, shutdown |

How they meet:

* A handler calls a service on its own goroutine.  The task service works on a *copy* of the row:
  it reads it at the start and writes the whole row back (`tasks.go:55`), several times in one
  operation.  Nothing but the mutex of `lockTask` (`task_service.go:890`) keeps two operations'
  copies apart.
* The row, the daemon and the registry are three stores without a common transaction.  Every
  operation is a sequence of calls to them, each of which can fail, and the process can stop between
  any two.  `failTask` (line 882) writes the status `error` and returns; `Reconcile` (line 767)
  rebuilds the registry from rows and Docker before the server listens.
* The registry keys a site by the task's name with its case folded (`registry.go:71`), the mutex by
  the exact name, Docker by `boreas-<project>-<task>` (`runtime.go:205`): three notions of "the same
  task" that do not coincide.
* Containers have a life of their own: processes exit, Docker's restart policy revives them, an
  administrator stops or removes them, Docker reuses a released address.
* A request for live metrics joins the feed of each container it asks for; the feed's pump, the
  requests, the functions that run when their contexts end, and an idle timer's function meet at the
  hub's mutex.  Channels are sent to and closed by more than one of them.
* Who may do what is worked out in several places, in Go and in SQL: for a route, for the overview, for
  a notification, for its push, for what Bora reads and for the buttons it offers.  They must agree.
* An account's rows, its tokens and the pairing codes are changed by statements of their own; every
  other request asks `Authenticate` first and then works with a copy of the user.
* A task's proxy is also a client of the proxy: a route may lead to Boreas' own address.  All tasks
  share the browser's one origin, so cookies are kept apart by their path alone.
* A turn of Bora runs apart from the request that asked; the map of running turns, the database and
  the turn's events are changed one after another, and streams of other requests follow them.
* A write publishes a signal to every open stream; a page that hears one fetches everything it
  shows.  Signals carry nothing, may be merged, and are lost while a stream is down; the fetch runs
  beside them.

What is hard, and what makes each component correct:

* *Task lifecycle*: partial failure at every call, crashes, concurrent requests, whole-row writes.
  Correct when: the row tells the truth about the container it names (so that a later operation may
  trust it); no container is left that no row names; no task is left in a status that refuses every
  operation; a setting saved is never reverted; each request ends.
* *Proxy*: correct when it serves exactly what the rows say, at the address of the container that
  runs, and nothing of a task that is gone; when a lock keeps out and lets in; when an app's links,
  redirects and cookies still work under the task's path; and when no routes send a request round.
* *Docker runtime*: correct when it never touches a container that belongs to another task.
* *Projects*: correct when a project keeps an owner and all computations of access agree.
* *Accounts*: correct when no session outlives the change that revoked it, and a pairing code signs
  one device in.
* *Metrics*: correct when a viewer is served until it leaves, a feed nobody watches ends, and no
  channel is closed twice.
* *Change signals*: correct when a page that shows less than there is always has a signal on its way,
  no channel is used after it is closed, and an open tab neither holds up a shutdown nor keeps a
  place it has left.
* *Assistant*: correct when turns never exceed their limits, every turn and every stream of one ends,
  and a question is saved with its answer, in order, or not at all.

## 2. The modules

```
TaskData          values: tasks, specifications, rows                  (constants only)
  Containers      Docker's container table and the calls of runtime.go (operators only)
  RouteRegistry   the proxy's site table and registry.go, lock.go      (operators only)
    TaskLifecycle       the state machine: TaskService and Reconcile
      MCTaskLifecycle       instances for TLC
      TaskLifecycleProofs   theorems
        TaskOutcomesProofs    theorems that hold where saves can be relied on

MetricsHub        the state machine: TaskService.Metrics and metricsHub
  MCMetricsHub          symmetry for TLC
  MetricsHubProofs      theorems

EventHub          the state machine: Hub, public streams, publishers, the directory page
  EventHubProofs        theorems

Accounts          the state machine: AuthService, users, tokens and pairing codes
  MCAccounts            an instance for TLC
  AccountsProofs        theorems

ProjectAccess     the state machine: ProjectService, and every computation of access
  MCProjectAccess       an instance for TLC
  ProjectAccessProofs   theorems

ProxyRequests     the state machine: ServeHTTP, a browser and the apps behind
  MCProxyRequests       an instance for TLC
  ProxyRequestsProofs   theorems

BoraTalk          what a conversation promises (abstract)
BoraTurns         the state machine: turns, their streams and conversations; implements BoraTalk
  MCBoraTurns           an instance for TLC
  BoraTurnsProofs       theorems
```

The state machines share no variables, here as in the code, where each is a type with a mutex or
tables of its own.  Where two meet, one of them takes from the other any value it may have:
`ProxyRequests` starts from any registry that `TaskLifecycle`'s Reconcile can build and lets it change
under a request; `ProjectAccess` creates and drops task rows as `Create` and `Delete` do;
`EventHub` sees only that something has changed, `MetricsHub` a container id and a stream from Docker.

**TaskData** has a row of the tasks table (`core.go:305`) less what no property tells apart.  Port,
labels, environment and volumes are one value `conf`; a list of routes is one member of `RouteSets`;
a password hash is a value.  The image is apart from `conf` because `Deploy` and the pull depend on
it alone.

**Containers** maps one container table to the next.  `Created` includes what
`removeSupersededContainer` does after a name conflict, `Gone` is the forced removal, `StartOutcomes`
gives the container any free address, `InspectStatuses` is the translation of Docker's states by
`Runtime.Inspect`.  `CreateFailures` is what a creation that fails half way leaves.

**RouteRegistry** does the same for the map of sites.

**TaskLifecycle** has one action per call an operation makes:

| Variable | Code |
|---|---|
| `row` | the tasks table |
| `docker` | the daemon's containers, by id |
| `site` | `Registry.sites` |
| `holder[t]` | who is inside `lockTask` of t |
| `at[c]`, `job[c]` | program counter and local variables of a request: `row` is the code's `task`, `was` the row as Update read it, `next` the row update saves before it recreates |
| `phase`, `todo`, `repaired` | the process: down, reconciling, serving |

A request arrives (`Request`), gets the mutex (`Enter`), reads its row, and goes from label to label.
The labels are shared where the code shares a helper: `recreate`, `start`, `ready`, `persistRunning`,
`register` and `fail` are `runtime.Recreate`, `finishStart`, `waitReady` and `failTask`.  Every
operation's first read, with the validations and conflicts that refuse it, is in `Refuse`, `Reads`
and the `Begin...` actions.  `EditTask` is `update` (line 393) from the row it read to its first
outside call.  `Publish` is what `Update` does after `update` has returned.

Failures are part of each action, enabled by the constant `Faults` (listed at the head of the
module).  `Persist`, for instance, has three outcomes: the UPDATE works; it works and the answer is
lost; it fails, always when the row is gone.

Steps that the code takes in several calls and the model in one, and why that hides nothing:

* `Clear` (Unregister, SetRoutes, SetLock) and `Publish` (SetRoutes, SetLock) are calls on the
  in-memory registry that cannot fail; the properties look at the registry when nobody is at work
  on the task, or at what is there at all.
* `RecreateContainer` and `CreateContainer` are several Docker calls.  What a failure between them
  leaves behind is in the set of outcomes; that another request acts between them is left out.
* The read of a row and the first local computation are one step; the code between is local.
* `Delete`'s removal of the row and Reconcile's save are not given a "lost answer": the code does
  the same after either answer but for the text returned.

**MetricsHub** has one step for what each goroutine does under the hub's mutex, and one for each
channel operation outside it.

| Variable | Code |
|---|---|
| `feeds` | `metricsHub.feeds`: the feed of a container |
| `feed[f]` | a `metricsFeed`: `subs`, `recent` (how many samples), `idle` (nil, running, fired), `stopped` (its context is cancelled), `pump`; `late`: the function of a timer that `Stop` came too late for |
| `view[v]`, `gone[v]`, `todo[v]` | a call of `Metrics`: how far it and its reader are, whether its context has ended, the containers it has still to watch |
| `sub[v][s]` | the channel `watch` made for v: samples queued, closed, whether `leave` has run, and the goroutine that forwards it |

`Ask`, `Watch` (which joins a feed or starts one), `Opened`, `Take`, `Hand`, `GiveUp`, `RangeEnds`
and `CloseOut` are `Metrics` and its goroutines; `Receive`, `Deliver` and `Finish` the pump;
`Leave` the function of `context.AfterFunc`; `Fire` the timer going off and `Expire` its function,
with the check of `feed.idle` and the viewers that a late one makes.  A feed object that nothing
refers to is used again, so that behaviours do not end when the objects run out.

**EventHub** follows a change from the write to the page.

| Variable | Code |
|---|---|
| `data`, `written` | the number of changes made; the writers that have made one and not yet called `Publish` |
| `subs`, `closed` | `Hub.subs`; `closed` is nil |
| `slots` | the places used of `publicStreams` |
| `stream[s]` | a request for the public stream: where its handler is (`at`), the signal in its channel (`wake`), whether that is closed (`shut`), whether the client is connected (`up`), and the message under way (`mail`) |
| `page[p]` | `Directory`: `es` the EventSource, `on` its stream, `timer` `#timer`, `fetch` `#inflight` and its answer, `again` `#again`, `shown` and `failed` the list and the error |

A page's fetch is two steps, the server's read (`Answer`) and the page's use of it (`Loaded`), since
signals come in between.

**Accounts** has one action per statement of a request.

| Variable | Code |
|---|---|
| `users`, `tokens` | the tables `users` and `auth_tokens` |
| `codes`, `told` | `AuthService.pairings`, and the pairings whose channel has had its value |
| `job[c]` | what a request has read and does next |
| `changed`, `owed`, `made` | history: revoking changes of an account, revocations still to come, codes that a session was made from |

What a check is based on carries the number of changes its account had at that time (`gen`), through
pairing codes and requests to the tokens they end in.  The levels of the routes are in
`AccountRoutes`.  A token that cannot be used again is dropped, as nothing tells it from one that
never was.

**ProjectAccess** has the tables, one variable each, and `job[c]`, a request that `authorize` has let
in or that has read what its last statement depends on.  `Access`, `Listed`, `FleetRole`, `Visible`,
`Pushed`, `BoraReads`, `ConversationVisible`, `TellsOfProject`, `TellsOfTask` and `Proposable` are the
places where access is computed, each from its own source, Go or SQL; `ProjectRoutes` and `TaskRoutes`
say what each route asks for.  Which projects have a Sourcebot context is no state of Boreas: the set
`coded` is a parameter of what Bora reads (all projects where code search is not set up), and the
properties hold for each.

**ProxyRequests** follows a browser's request through `ServeHTTP`, whose ways out are one action
each, to an app and back through `ModifyResponse`.

| Variable | Code |
|---|---|
| `sites` | `Registry.sites` as it is looked up: container, routes, lock |
| `jar` | the browser's cookies |
| `tab[b]` | the request under way: `legs`, one for each time it enters the proxy, each with the hop and the lock it met; `up`, what an app receives; `answer` |
| `entered`, `in` | history: passwords given today, and the lock each task's cookie was last given for |

A path is the sequence of its segments, a trailing slash an empty last one: what the code does with
strings and prefixes is done with sequences, including what becomes of a slash.  A route to Boreas'
own address adds a leg.  The apps redirect, set cookies and give pages with a `<base>`; what they mean
by it (`Meant`) is what the rewriting is held against.

**BoraTurns** has one action for each moment a turn is known elsewhere.

| Variable | Code |
|---|---|
| `places` | `ProjectService.turns` |
| `turn[t]` | a `boraTurn`: conversation, number of the question, whether cancelled (or off the map, when that makes no difference), rounds left to the model, over |
| `stored` | `bora_messages`, an exchange for each question and answer |
| `job[c]` | a request: between its reads and `enter`, or following a turn with its wake channel |
| `dead`, `gone` | conversations whose user or project is deleted; history: those that can no longer be read |

**BoraTalk** says what a user sees of it: one question at a time, which is answered or lost.  `Talk`
in `BoraTurns` maps a conversation's stored exchanges and its turn's place to it; `TalkKept` is the
whole abstract specification, its fairness included.

## 3. What TLC checks

| Run | Instance | Properties |
|---|---|---|
| `faults` | one task, one request at a time, every operation, every fault | `TypeOK`, `PendingTracksSpec` |
| `requests` | one task, two requests at a time, any call may fail; `FairSpec` | `SettingsChangeOnlyByUpdate`, `RequestsAnswered` |
| `neighbours` | three tasks: two fold to one site, two spell one Docker name; two requests | `SitesHaveRows`, `ForeignContainersUntouched` |
| `mirror` | one task; pulls and readiness fail; Boreas restarts at any step | `RegistryMirrorsRow`, `HopIsCurrent` |
| `settle` | one task; Docker fails, containers exit or are removed | `TransitionsSettle`, `NoOrphanContainers` |
| `viewers` | one container, two viewers, two feed objects | `TypeOK`, `SubscribedChannelsOpen`, `OpenChannelsServed`, `OneStreamPerSource`, `WatchedFeedRuns` |
| `drain` | one container, one viewer that comes back, two feed objects; `FairSpec` | `AbandonedViewsEnd`, `UnwatchedStreamsEnd` |
| `signals` | two writers, two changes, a page, two streams; `FairSpec` | `TypeOK`, `HubKnowsOpenStreams`, `SlotsAreStreams`, `NoLostSignal`, `PagesCatchUp`, `ShutdownEndsStreams` |
| `accounts` | two accounts, two requests and one token at a time, two revoking changes of each, a pairing code, restarts | `TypeOK`, `RevokedStayOut`, `PairingOnce` |
| `access` | two users, one an administrator; two requests at a time; a project and a task that are deleted and created again | `TypeOK`, `AccessAgrees`, `ProposalsMatchRoutes`, `LastOwnerKept` |
| `proxy` | two tasks, one also spelled in capitals; two backends, Boreas as a third; a change of the registry | `TypeOK`, `LockKeeps`, `CookiesStayHome`, `RedirectsArrive` |
| `turns` | one conversation, two requests at a time, two turns, restarts; `FairSpec` | `TypeOK`, `PlacesBounded`, `ExchangesInOrder`, `MissingIsGone`, `TalkKept`, `FollowersHearTheEnd` |

The inductive invariants `IInv`, `SignalInv`, `HubInv`, `TurnsInv` and those of the other proofs are not among them: they are
proved (section 4), for every instance.  `Owned`, `Answered`, `Custody`
and `Mirrored` were tried with TLC as invariants of the runs that have their properties first.

* `PendingTracksSpec`: unless a row is marked `pending_recreate`, the container it names was made
  from the row's specification.  `Start` reuses the container on that ground
  (`task_service.go:199`).  It survives every fault, a crash and concurrent requests.
* `SettingsChangeOnlyByUpdate`: routes and password in the row change in a step of an Update of that
  task and nowhere else, although every operation writes the whole row; and from what this Update had
  read, so of two Updates none undoes the other's.  Without the mutex it fails at once.
* `RequestsAnswered`: no path out of an operation keeps the mutex.
* `SitesHaveRows`: a Create of `Web` may run beside a Delete of `web`, because the mutexes differ;
  still nothing is served under a name without a row, because Delete empties the site before it
  drops the row and the index on the folded name refuses the Create until then.
* `ForeignContainersUntouched`: the labels, not the name, decide whether a container in the way may
  be removed.
* `RegistryMirrorsRow`, `HopIsCurrent`: with nobody at work on a task, the proxy has the row's
  address, port, routes and lock, and the address is that of the running container.  They hold when
  images, readiness and the process fail.  They do not hold when a Docker call or a statement fails
  (section 5).
* `TransitionsSettle`: with the table up, no failure of Docker leaves a task in `creating` or
  `starting`, the statuses that refuse Start, Stop and Restart.
* `NoOrphanContainers`: with the table up, a container with a task's labels is the one the row names.

* `SubscribedChannelsOpen`, `OpenChannelsServed`: `leave`, the pump's end and the replay close and
  use channels in any order, and still none is used closed and nobody waits on a dead feed.
* `OneStreamPerSource`, `WatchedFeedRuns`: the timer's function may get the mutex long after the
  timer has fired, when a viewer is back, or gone again with a new timer running; it then must leave
  the feed alone.
* `AbandonedViewsEnd`, `UnwatchedStreamsEnd`: a forwarder with a sample nobody reads ends when its
  viewer does, and a Docker stream nobody watches ends.
* `NoLostSignal`, `PagesCatchUp`: a channel with room for one signal is enough, because `subscribe`
  fills it before the stream opens and the page remembers a signal that comes during a fetch.  The
  exception both name is a fetch that failed: the page then waits for the next signal.
* `ShutdownEndsStreams`: also a stream that subscribes after `Close` ends.

* `RevokedStayOut`: a token that is older than its account's last change of password, role or
  `disabled` was inserted after the change by a request that had been let in before it, or the
  statement that revokes has still to run or has failed.  It depends on the order of UpdateUser's two
  statements and on the second taking API tokens with the sessions.
* `PairingOnce`: however many devices claim a code, and whatever lapses or fails in between, one has
  it, and its channel, which has room for one value, is written once.
* `AccessAgrees`: a user is let in to a project or a task just when the overview lists it, with the
  same role, just when its notifications reach the user, and just when they are pushed; Bora's tools
  tell nobody what the route for it would refuse; and a conversation is hidden from nobody to whom Bora
  would still read all the projects it has read, and listed to nobody whom one of them keeps out.
  This holds whichever projects have code.  The last is not an equivalence: `visibleConversation` asks
  for membership, so a conversation stays listed while Bora serves its project no more for want of code.
* `ProposalsMatchRoutes`: a button Bora offers is for a change that its route accepts from this user.
* `LastOwnerKept`: a project loses its last owner with an account, or to two requests whose checks
  and writes interleave, and never otherwise.  The second is a race the code has.
* `LockKeeps`: nothing gets past a task's lock, neither to the container nor through a route nor
  through another task's route, unless the browser was given the password since the lock was set; and
  a browser that is in is not asked again, under any spelling.
* `CookiesStayHome`: what is behind a task's URL sees the cookies set under that URL, no other
  task's and no lock's.
* `RedirectsArrive`: a link an app gives in its own paths comes back, through names, locks and
  routes, to the path it meant on the host it came from.  `TypeOK` of this module says besides that a
  request enters the proxy twice at most.
* `ExchangesInOrder`, `MissingIsGone`: a conversation has its exchanges from the first without a gap,
  and is found at every moment from its first question on, although that is first in the map and then
  in the database.
* `TalkKept`: stopping, deleting, failing, restarting and asking again in any order look like a
  conversation with one question at a time, each of which ends and makes room for the next.
* `FollowersHearTheEnd`: a stream that joins at any moment gets the turn's end.

*Bounds.*  `Cids` bounds the number of containers Docker makes in a behaviour: two let an operation
replace a container once, or two Creates compete; three let a replacement follow a replacement.
When none is left a creation fails.  Two addresses let Docker give an address away and a container
come back at another one.  Two images, or two confs, make a changed and an unchanged specification.
One of everything else is the least that distinguishes "has" from "has not" (`r0` the empty list,
`h0` the empty hash).  Two clients suffice for the properties about concurrent requests: each is
broken by a pair, and a third only waits for the same mutex.
In the metrics hub two feed objects let one end while its successor is on the map, and two viewers let
one come while the other leaves; `History` and `Room` of 1 let a channel fill.  `Room` is twice
`History` in the code, less room is the harder case.  In the event hub one page meets its own old
stream when it reconnects (two streams), two changes make a signal come while the first is still on
its way, and two writers publish in another order than they wrote.  The limit of two places is
reached when an old stream has not left; many pages are left to the proofs, which hold for any
number of everything.

In `Accounts` two requests make every pair of a check and a change; a change of an account disables it
or enables it, of which one is to revoke its tokens and the other not.  With one token at a time every
check still meets every change, since a request keeps a copy of the token it came with; more tokens
are left to the proofs.  In `ProjectAccess` two ids of projects and
of tasks let one be deleted and its name given to another while a request still holds the first; every
property speaks of two users at most.  In `ProxyRequests` the routes offered are those that can go
wrong differently: none, two of which one is longer, one through Boreas to the other task, and one to
the task itself.  Paths below a task end in nothing, a slash, or one or two segments.  The registry
starts as any that Reconcile can build, so one change reaches any other state of the site a request
has looked up.  One tab shows one request at a time.  In `BoraTurns` one conversation has the question
under way and the one before or after it, and `MaxRounds` of 1 has a round that calls tools and one that
may not.  One conversation never meets `PerUser` or `InFlight`: the run shows that a place is given
back, and that the limits hold is shown by `PlacesCorrect` alone, for any number of conversations.  In
the same way `requests` has one hash, so that TLC sees routes reverted and not passwords; the theorem
`SettingsKept` has both.

`Symmetry` permutes container ids, addresses and clients, and elsewhere users, tokens, ids or a task's
hashes, which nothing distinguishes; the run with a liveness property does without.

*Fairness.*  `FairSpec` has weak fairness of each request's steps (a goroutine that can go on does)
and strong fairness of `Enter` (Go's mutex hands itself to a waiter of more than a millisecond).
Nothing obliges a client to ask, a container to become ready, or a fault to occur or stay away.
In `MetricsHub` every goroutine that can go on does, a timer fires unless stopped, and Docker's stream
ends after its context is cancelled; a viewer may stay and leave its samples unread for ever, and
Docker owes no sample.  In `EventHub` handlers and publishers go on, the page's event loop runs its
timer and its messages, and a fetch ends, with an answer or without (a browser times a request out); a
page may never be shown, a connection may break at any time, and nothing makes it come back.
In `BoraTurns` a turn goes on: a request to the model has a time limit and one retry
(`requestTimeout`), tools have theirs, and the rounds are counted; that a turn ends is not assumed but
follows from the count.  `Conversations.Save` has no deadline of its own, so a turn's end also relies
on the database to answer, with success or an error.  A stream that is woken takes its events.  Nobody has to ask, stop or read,
and the model may call tools as long as it has rounds.

*Deadlock* is checked in every run: the system never stops, since a client may always ask, a viewer
come, a page be shown or hidden, and Boreas restart.

## 4. What is proved

`TaskLifecycleProofs` proves, for any tasks, any number of containers, addresses and clients, any
allowed operations and all faults:

* `TypeCorrect`: `Spec => [](TypeOK /\ LocalsAssigned)`: the variables keep their types and no step
  reads a local variable that its path has not assigned.
* `IInvHolds`: `Spec => []IInv`.
* `PendingRecreateTrusted`: `Spec => []PendingTracksSpec`;
* `SettingsKept`: `Spec => SettingsChangeOnlyByUpdate`: what an Update saved is reverted by no other
  operation and by no other Update;
* `ForeignSpared`: `Spec => ForeignContainersUntouched`;
* `ServedTasksExist`: `Spec => []SitesHaveRows`.

The assumptions are those of the modules: the "none" values (`NoRow`, `NoCid`, `Unused`, ...) are
not values of the type they extend, `ContainerName` and `SiteOf` are functions, `Ops` and `Faults`
are among those known.  TLC evaluates them in every run.

`PendingTracksSpec` speaks of the table alone and is not inductive: an operation saves a copy it has
carried over many steps.  `IInv` adds what the copies must satisfy:

* `CopiesTrack`: each copy of a row held by a request or by Reconcile satisfies the same as the row,
  so any of them may be written at any time, whatever happened meanwhile;
* `StartsCurrent`: a request on its way to start a container holds a copy that is not pending, which
  is why `finishStart` may clear the mark;
* `LocalsAssigned`, `BootAlone`: which operation may be at which label, and that Reconcile runs
  alone.

The argument has one idea: Docker's table only *evolves* (`Evolves`): a used id is never given out
again, and a container never changes task or specification, so `Tracks` of a copy, once true, stays
true (`KeepTracks`).  What is left for each action is the copy it changes.  The proof has a lemma
for each group of actions and one step per action.

`SettingsKept` rests on `Mutex` (whoever is past `Enter` is alone in its task's `holder`) and `Settled`:
each copy a request still writes has the routes and password of the row, or the request is an Update,
which is the first to change them and read the row as it is.  A step inside the mutex leaves the rows
of other tasks alone (`WorkSettles`), so only the request's own copies have to be looked at.
`ForeignSpared` adds nothing to these invariants: a container that a call touches is named by the
request's copy, which `Tracks` makes the task's own, or is removed for its name, which `MayReclaim`
allows within a task only.

`ServedTasksExist` cannot rest on the mutex, which two spellings of one site do not share.  Its
invariant `Owned` says that a request past its read works on a task with a row, that of the tasks
folding to one site at most one has a row (the table's unique index, which `Reserve` meets), and that
a Delete has taken the site off the proxy before the row goes.  Of two requests past their read at one
site there is then but one (`OneAtSite`), so nobody puts back what a Delete has withdrawn.

`TaskOutcomesProofs` proves what the operations leave behind.  This is true only as far as saves can be
relied on, since `TaskService` saves best effort, so its theorems have a hypothesis on `Faults`; they
still hold for any tasks, containers, addresses and clients.  With
`Reliable == Faults \cap {"store", "lost", "crash"} = {}`, that is, whatever Docker calls, pulls and
waits fail and whatever containers do:

* `StatusesSettle`: `Reliable => (Spec => []TransitionsSettle)`;
* `ContainersRecorded`: `Reliable => (Spec => []NoOrphanContainers)`.

With `Patient == Faults \subseteq {"pull", "ready", "crash"}`, that is, whatever images and containers
are waited for in vain and wherever Boreas is restarted:

* `ProxyMirrorsTable`: `Patient => (Spec => []RegistryMirrorsRow)`;
* `HopsCurrent`: `Patient => (Spec => []HopIsCurrent)`.

No fault can be added to `Reliable`: TLC breaks both properties with each of `store`, `lost` and
`crash` alone.  Neither can one to `Patient`: `store`, `runtime`, `lost`, `exit` and `external`, each
beside pulls, waits and crashes, break both.  (Section 5 has the plainest of the ways.)  The four
invariants:

* `Answered`: a transient status is a debt.  A row that is `creating` or `starting` has a request that
  is past the point where it may give up without a word (`Obliged`), and each of its ways out saves
  another status.
* `Custody`: a container is named by its task's row (`Kept`), or by the copy of the request that has just
  created it or replaced the one before, and has yet to save it (`Holding`).
* `Mirrored`: what the proxy still owes the row, label by label.  Between requests the two agree
  (`Mirrors`); within one the routes and the lock are those of the row or of the row an Update has
  replaced (`Tuned`), and the hop is up or down as the path so far has left it (`Prepared`, `Lapsed`).
  During Reconcile the tasks already visited agree with what it saved of them (`Checked`), and without
  exits no container waits for Docker's restart policy (`Calm`).
* `Base` collects the invariants of `TaskLifecycleProofs` that these need.

Each is kept by a lemma on a step inside the mutex (`WorkAnswers`, `WorkMirrors`, ...) that leaves only
the request's own task to look at, and a lemma for each group of actions.

`MetricsHubProofs` proves, for any containers, viewers and feed objects and any channel sizes with
`History <= Room`:

* `HubInvHolds`: `Spec => []HubInv`, the inductive invariant;
* `NoClosedChannelInUse`, `TimerSparesWatchedFeeds`: parts of it;
* `TypeCorrect`: `Spec => []TypeOK`, so no channel holds more than its buffer: `replay` finds room
  because `History <= Room`;
* `OpenChannelsBelong`: `Spec => []OpenChannelsServed`;
* `StreamIsShared`: two live streams of a container are both on the map under it, hence one.

The safety of channels needs more than itself: that a feed on the map still runs (or `watch` would
join a dead one), that a running feed is on the map, that the timer is armed only while nobody
watches, and that a viewer has no channel for a container before it has watched it.  `Joined`, the
part `watch` shares between an old and a new feed, `Leave`, `Finish` and `Expire` are the cases with
content.

`EventHubProofs` proves, for any writers, pages and streams, any limit and any bound on changes:

* `SignalInvHolds`: `Spec => []SignalInv`;
* `TypeCorrect`: `Spec => []TypeOK`;
* `SignalsAreNotLost`, `HubHoldsOpenChannels`: parts of it;
* `PublicStreamsCounted`: the places in use are the streams being served and at most the limit.

`NoLostSignal` rests on `PagesHaveTheirStreams` (the stream of a page with an open EventSource is
connected, its own, and in a handler that has not begun to return, unless the hub is closed) and on
`HubKnowsOpenStreams` (so `Publish` reaches it).  The count is kept by a lemma about the cardinality
of the served streams for each of its three kinds of change.

`BoraTurnsProofs` proves, for any conversations, users, requests, turns and limits:

* `TypeCorrect`: `Spec => []TypeOK`;
* `PlacesCorrect`: `Spec => []PlacesBounded`: the places taken are the turns that run, and `enter`'s
  limits, per user and for the server, are never passed;
* `OrderHolds`: `Spec => []ExchangesInOrder`;
* `MissingCorrect`: `Spec => []MissingIsGone`;
* `TalkImplemented`: `Spec => Talk!Init /\ [][Talk!Next]_(Talk!vars)`: under the mapping of `TalkKept`
  every step of `BoraTurns` is a step of `BoraTalk` or leaves what it speaks of alone.

`TypeOK` and `PlacesBounded` are inductive together (`TurnsInv`).  Taking and giving back a place each
have a lemma about the cardinality of the running conversations of a set.

`ExchangesInOrder` and `MissingIsGone` need `OrderInv` besides: what each request still knows of its
conversation since it read it (`JobFits`; the row and its messages are two statements) and each turn of
its exchange number (`TurnFits`), until the conversation is gone.  The numbers may only lag behind the table, since exchanges are added and the
turn that adds one is the only one of its conversation; and a first question of a conversation that is
not gone, for which there is no row to read, is asked by one request at a time.

The refinement is proved step by step: `Unseen` names what a step may not touch to be a stutter, a lemma
for each abstract action names what it must do (`SeenAsk`, `SeenAnswer`, `SeenLose`, `SeenClose`,
`SeenDelete`, `SeenRestart`), and every action of `BoraTurns` is shown to be one of these.

`AccountsProofs` proves, for any accounts, tokens, codes and requests:

* `TypeCorrect`: `Spec => []TypeOK`;
* `RevocationHolds`: `Spec => []RevokedStayOut`;
* `PairingSignsInOnce`: `Spec => []PairingOnce`.

Together they are inductive (`AccountsInv`): a token is inserted with the number of changes its check
had seen, so it is either current or marked late, and only a revoking change makes a current one old;
a code that a request holds has been taken off the map.

`ProjectAccessProofs` proves, for any users, projects, tasks and requests:

* `TypeCorrect`: `Spec => []TypeOK`: memberships and grants refer to rows there are, although requests
  use ids they read some statements before;
* `OwnerStays`: `Spec => LastOwnerKept`, an action property;
* `ReachAgrees`: `Spec => []AccessAgrees`, for every set of projects with code;
* `OffersAgree`: `Spec => []ProposalsMatchRoutes`.

`TypeOK` and `JobFits` are inductive: a request about to take a role from an owner has not counted that
owner alone.  So if the owners are still those it counted, one is left; if they are not, that is the
race the property names.

The other two are theorems about the operators, in any state that `TypeOK` allows, and so under any
requests: the ladder of roles is the order of their ranks (`Ranks`, `HigherRole`), by which the listing's
and the fleet's SQL, `visible` and Bora's tokens each come to what `Access` says
(`ListedIsLetIn`, `FleetIsLetIn`, `MemberIsLetIn`, `OwnerIsLetIn`), and nothing Bora holds goes beyond
it (`BoraHolds`); and the role that `propose` asks of whom it offers a change is that
of the route which will be called (`NeedsOfOps`).

`ProxyRequestsProofs` proves, for any tasks and spellings, any routes that `CleanRoutes` accepts, any
locks, tabs, paths and changes of the registry:

* `TypeCorrect`: `Spec => []TypeOK`: no routes send a request through Boreas a third time;
* `LockHolds`: `Spec => []LockKeeps`: a lock keeps out and lets in;
* `CookiesHome`: `Spec => []CookiesStayHome`: an app's cookies go to its own task and no lock's to any.

* `LinksArrive`: `PathsApart => (Spec => []RedirectsArrive)`: an app's links come back to it.

The first three need `RoutesAssumption`: a route's path is a sequence and not empty, which is what `Acceptable`
leaves of the routes offered, and among routes one is longest, which is so because they are finitely
many.  The inductive invariant follows the lock's cookies: one that is fresh, in the jar, in a leg or
in an answer, is of a password in `entered`, whatever its path has become (`Earned`); and while `in[t]`
is a lock, the jar has its cookie or one of another task in its place (`Stands`), so a request for the
task brings it (`Brings`).  For each way out of `ServeHTTP` the proof shows what becomes of the tab
(`TabOK`).  Beside it, `HomeInv` follows the apps' cookies: one in the jar is at the URL of the task it
is of (`JarHome`), so the browser brings it there alone (`BroughtTo`), and each tab's are of the task
whose URL it asked (`HomeOK`).  What a hop hands on has its task's path (`HandedFrom`), which for the
last hop back to the browser, the first leg's, is that URL.

For the links, `LinkInv` says of every tab with a link to follow where the registry as it now is leads
the path it has (`Leads`: to a container, to a route's host, or through Boreas to a second of
either), and that this is the host and path the app meant.  From the app's answer back it says the
same of what the hops still to come will have made of it (`Returned`), so that each hop's
`ModifyResponse` is undone by the lookup and the cut of the request that follows.  This compares
paths that are put together and cut again, for which the module first proves what `Under`, `After`
and `Longest` do to them (`UnderElements`, `CutPath`, `JoinedPath`, `PrefixesNest`).  The hypothesis
`PathsApart` is the code's limit and not the proof's: no app has paths of its own that begin like
the public path it is served under, for `rewriteLocation` takes those for public already (section 5).
`PathsAssumption` says that the cleaned base of a registered route is clean when it is looked at
again, a fact about `SelectSeq` whose proof is an induction over sequences.  TLC evaluates both on
the instance of the run.

Model-checked and not proved are what needs fairness or ENABLED, which this prover does not reach
(`RequestsAnswered`, `AbandonedViewsEnd`, `UnwatchedStreamsEnd`, `PagesCatchUp`, `ShutdownEndsStreams`,
`FollowersHearTheEnd` and the liveness in `TalkKept`).

## 5. Where the code differs from what is said of it

These were met while modelling or when a property was tried under more faults than the run that now
checks it.

*Task lifecycle.*

* Delete clears the registry first.  If stopping or removing the container then fails, the row stays
  with its routes, and they answer no more until Boreas restarts, against `core.go:878`.
* When `update` saved the row (line 495) and a later save fails (line 507, or 847 in `finishStart`),
  it returns an empty task, and `Update` skips `SetRoutes` and `SetLock`, against the comment at
  `task_service.go:319`.
* A Stop that fails leaves the address registered (`HopIsCurrent` with fault `runtime`): a later
  Update sees the status `error`, does not unregister, and recreates the container.
* A crash between a container's creation and its start leaves the row in `starting` for good
  (`TransitionsSettle` with fault `crash`): Reconcile copies what Inspect reports, and Start, Stop
  and Restart refuse it.  Update and Delete still work.
* A Restart that cannot save the id of the new container leaves a container no row names, which a
  later Delete does not remove (`NoOrphanContainers` with fault `store`).
* An Update of a task in `error` saves it as `stopped` while its container may still be running.
* A deploy repeated after its container was recreated but never became ready is answered with
  success (`DeployAgain` tests `pending` only).

*Projects and access.*

* `keepOwner` counts in one statement and the change is another, so two requests may each take an
  owner and leave none; `Create` inserts the project and its owner in two, and the second may fail.
* AddMember, RemoveMember, Grant and Revoke look their project up by its slug again after `authorize`:
  if it was deleted and another created under the slug, that one is changed.
* A notification names a project and a task, not their ids: who is granted a task created later under
  the same name sees what was said of the first.
* `SetAssignees` counts every grant as an assignment: it removes viewers and operators who are not
  named and leaves the role of those who are, against the comment at `project_service.go:399`.
* Bora offers to take the last owner's role, which the route then refuses.

*Proxy.*

* A route that leads through Boreas to a locked task: the inner task's lock cookie gets the outer
  task's path from `rewriteCookies` and replaces the outer task's own, which signs the browser out of
  it; and since `dropLockCookie` drops it on the way in, the inner task never opens this way.
  `LockLetsIn` excepts it (`Replaced`).
* A `Location` with the target's host and no path, or with the target's host and a path already
  public, goes to the browser as it is (comment at `registry.go:269`).
* With two tabs, an unlock under an old password that is answered late replaces the cookie of the new
  one, and the browser is asked once more.
* Any Update publishes the lock anew and with it a new count of tries (README.md:955).

*Bora.*

* A conversation that is deleted while a turn of it runs may come back: the turn's `Save`, when it
  commits after the delete, inserts the row again with its own exchange only, so that every later
  question in it collides with that exchange's key, against `bora.go:654`.  `ExchangesInOrder`
  therefore excepts conversations that were deleted.
* A question whose conversation is deleted between the two statements of `BoraStore.Get` is asked with
  an empty history and takes the number of a first exchange; its `Save` makes the conversation anew.
* A question read before another was saved keeps its old number, and loses its whole answer with a
  conflict at `Save`.
* `StopAllBora` misses a question that enters after it.

## 6. What is not modelled

* `ReportBuild`, the revision and the notification of a deploy: the last report wins, in a column that
  no other statement writes; the code promises no more.
* Reading operations (list, logs, metrics, route checks): no state.
* Validation, environment merging, parsing, rendering, OpenAPI, configuration, logging, the web
  front end's lists, object storage, code search, the language model's client: data and I/O.  A
  refused input is one step (`Refuse`, or `Fail`).
* In `Accounts`: avatars, listings, e-mail addresses and names.  A change of password is any; the run
  takes disabling for all that revoke.
* In `ProjectAccess`: what else a project's row holds, registry credentials, disabled accounts other
  than for a push, who becomes an administrator; the limit on Bora's actions and what makes an answer
  tainted.  What `Code.Has` answers is left to the properties, which hold for any set of projects with
  code (`coded`).
* In `ProxyRequests`: queries, escapes, forwarded headers, bodies, the shim for mobile browsers, the
  pages for failures, `Check`, and the count of tries: a password may be refused at any time, as when
  others have used the tries up.  Wrong passwords are as none.
* In `BoraTurns`: texts, images, lists and searches, `AddBoraRan`, hidden conversations, and what a
  tool reads (`ProjectAccess` has who is told what).
* A project's deletion: a foreign key refuses it while a task exists, so a task's row pins its
  project (`001_init_schema.sql:83`).
* Docker networks and images.
* In `MetricsHub`: the samples' contents, which tasks a request's filter selects (any set), and a
  Docker stream that cannot be opened, which ends at once like any that ends.
* In `EventHub`: heartbeats (a failed one ends the stream like a failed message does), the stream
  for signed-in clients (the same code without the limit), and publications without a change
  (`publishingTasks` publishes failed writes too): these only add signals.  A request that fails
  after it has changed something is not a change here: outside the task store, `publishing` signals
  successful writes only, and no more is promised (`routes.go:69`).

## 7. Plan

Done: `TaskLifecycle`, `MetricsHub`, `EventHub`, `Accounts`, `ProjectAccess`, `BoraTurns` with
`BoraTalk`, `ProxyRequests`.  Next, in this order:

1. `ServingSpec`, an abstract specification of what a visitor sees of one task (absent, stopped,
   served), with `TaskLifecycle` shown to implement it.
2. `ProxyRequests` with two tabs, once its other bounds are smaller.
