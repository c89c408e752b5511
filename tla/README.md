# Formal model of the JungleGaming task system

TLA+ specifications of the services and of the web client under `src/apps` and of the contracts
and utilities under `src/packages`, checked with TLC and proved with TLAPS: every safety property
that holds in a run is a theorem for all values of the constants (section 4).

    tlc -config EventPipeline_autoack.cfg MCEventPipeline
    tlc -config TasksService_serial.cfg MCTasksService
    tlc -config WebSession.cfg MCWebSession
    tlc -config RequestPath.cfg MCRequestPath
    tlc -config WebClient.cfg MCWebClient
    tlapm EventDeliveryProofs.tla
    tlapm TasksSerialProofs.tla
    tlapm WebSessionProofs.tla
    tlapm RequestPathProofs.tla
    tlapm WebClientProofs.tla

## 1. Inventory

The repository is a monorepo of five processes around one RabbitMQ and one PostgreSQL.

| Part | State it keeps | Operations | What is hard about it |
|---|---|---|---|
| tasks-service (`apps/tasks`) | tables `tasks`, `task_audit_logs`, `task_comments` | RPC `tasks.create/update/remove/findAll/findById`, audit log, comments | handlers interleave at every `await`; no transaction, lock or version column; audit and events are calls of their own |
| event contracts (`packages/types`) | none | patterns, queues, payloads | one event travels under three patterns on two queues |
| RabbitMQ as configured | `tasks.events`, `gateway.events`, RPC queues | dispatch, ack, nack, requeue | two services compete for `tasks.events`; `noAck` is left at the transport's default |
| notifications-service (`apps/notifications`) | table `notifications` | four event handlers (store, relay, settle); queries; status | parallel saves, failure half way, redelivery, stale channels, crash |
| API gateway (`apps/api`) | WebSocket server | HTTP to RPC proxy, JWT guard, event forwarding, broadcast | consumes before it listens; acknowledges whatever happened |
| auth-service (`apps/auth`) | table `users` with one `refreshTokenHash` per user | register, login, refresh, logout, users CRUD | check-then-insert on the email; rotation read and written in separate calls |
| web client (`apps/web`) | session in local storage, query cache, form and page state | refresh on 401, socket handlers that write the cache, mutations, pagination, the bell | concurrent refreshes; events and fetches overtake one another, and are lost while disconnected; days cut from instants |
| start-up (`main.ts` of each service) | none | `waitForDatabase`, bootstrap with retries | bounds of the loops; what is fatal and what is retried |
| utilities (`packages/types/src/utils`), logger (`packages/logger`) | request context | date arithmetic, request ids | length of a day; ids copied by hand from hop to hop |
| health, UI kit, tool configuration | none that others depend on | | not modelled |

How they interact. The client calls the gateway over HTTP, the gateway calls tasks-service and
auth-service by RPC. Every mutation in tasks-service ends with two emits on `tasks.events`:
`task.*`, meant for the gateway, and `tasks.*`, meant for notifications-service. That service
stores a notification per recipient and emits `task.*` or `comment.new` on `gateway.events`. The
gateway consumes **both** queues and broadcasts to all WebSocket clients.

What makes each part correct:

- *tasks-service*: the audit log explains the table; nobody hears of a change that is not
  recorded; the last event describes what is stored; comments never outlive their task.
- *notifications-service*: a notification for each concerned user before the relay, none for the
  acting user; a failure leads to another attempt and not to a loss; each delivery is settled at
  most once; duplicates only after a failure.
- *gateway*: what it takes from a queue is broadcast or, before it listens, dropped; every
  published event ends at the clients.
- *auth-service* and *web session*: only a logout ends a session; a session that is shown can be
  renewed, whatever refreshes race; one account per address; every request ends.
- *HTTP to RPC proxy*: what the gateway lets through the service accepts and the database stores,
  with listed exceptions; a status and a request id survive every hop; every request is answered.
- *start-up*: the database is waited for and given up exactly as configured; a service whose
  database and broker are there comes up.
- *web client*: a connected list that is done fetching shows the server's rows or a known gap
  explains why not; nobody is shown a version from before their own save; the ranges under the
  lists fit their rows; a notification is announced exactly once; a due date stays the day that was
  picked, as far as the code keeps it.

The hazards, each at its line and with the properties that would catch it, are listed in
`PROJECT.json` under `hazards`.

## 2. Modules

| Module | Models | Source |
|---|---|---|
| `EventContracts` | patterns, payloads, resolution of recipients | `packages/types/src/contracts`, `notifications.service.ts` 671-843 |
| `Broker` | queues as bags, consumers, channels, ack modes | external, as configured in both `main.ts` |
| `NotificationsService` | the handlers, await by await | `apps/notifications/src/notifications.service.ts` |
| `GatewayEvents` | forwarding and broadcast | `apps/api/src/tasks/tasks.events.controller.ts`, `tasks.gateway.ts` |
| `EventPipeline` | the three composed, with the emits of tasks-service; properties; fairness | |
| `EventPipelineProofs`, `EventDeliveryProofs` | TLAPS proofs | |
| `TasksService` | the mutating RPC handlers, await by await | `apps/tasks/src/tasks`, `apps/tasks/src/comments` |
| `TaskHistory` | abstract: a task and its history change in one step | |
| `TasksServiceProofs`, `TasksSerialProofs` | TLAPS proofs | |
| `AuthService` | registration, login, refresh, logout, users; await by await | `apps/auth/src/auth`, `apps/auth/src/users` |
| `WebSession` | a browser and its session, over `AuthService` | `apps/web/src/lib/apiClient.ts`, `features/auth`, `apps/api/src/auth` |
| `AuthServiceProofs`, `WebSessionProofs` | TLAPS proofs | |
| `ServiceStartup` | how the four processes come up | the four `main.ts`, `packages/types/src/utils/database.ts` |
| `RequestContracts` | which inputs gateway and services accept | `packages/types/src/dto`, the controllers of `apps/api` |
| `RequestIds` | the request id from hop to hop | the `resolveRequestId` and `withRequestId` helpers, interceptors, `packages/logger` |
| `ErrorMapping` | an error on its way to an HTTP answer | `rpc.utils.ts`, the three proxies of `apps/api`, the exception filter |
| `RequestPath` | a request through gateway, service and back, and a client that reads a list; over the four above | `apps/api/src`, `apps/tasks/src`, `apps/notifications/src` |
| `RequestPathProofs` | TLAPS proofs, start-up included | |
| `QueryCache` | one query of react-query | external, as `apps/web` uses it |
| `TaskDates` | days, instants and time zones | `packages/types/src/utils/datetime.ts` |
| `TaskForm` | a due date between form, row and filter | `TaskModal.tsx`, `tasks.service.ts` 127-136 |
| `TasksCache` | cached list and task beside events, fetches and mutations | `TasksPage.tsx`, `TaskDetailsPage.tsx` |
| `TaskPages` | pagination of tasks, comments and audit log | the same pages, `TaskHistoryPage.tsx`, `TasksPagination.tsx` |
| `NotificationsPopover` | the bell, its badge and its toasts | `NotificationsPopover.tsx` |
| `WebClient` | the four parts of the web client, one at a time | |
| `WebClientProofs` | TLAPS proofs | |
| `MC...` | instances for TLC | |

`NotificationsService` and `GatewayEvents` both extend `Broker`; `EventPipeline` extends both, so
they share the variables of the broker, and each of their actions leaves the other's state alone.
`TasksService` refines `TaskHistory` through an `INSTANCE ... WITH` refinement mapping. `WebSession`
extends `AuthService`: its actions start calls of auth-service and wait for their replies.
`RequestPath` extends `ServiceStartup` (who is listening decides what becomes of a call) and the
pure modules `RequestContracts`, `RequestIds` and `ErrorMapping`.

### The event pipeline

- A message is a path (`direct`, `forward`, `relay`) and an event; its pattern follows from the
  path and the kind of the event. `payload[e]` is what all messages of `e` carry.
- `handler[s]` is one running handler of notifications-service. `pc` names the await it is at:
  `persist` (`Promise.all` of the saves in `pending`), `rejected` (a save failed, the message was
  rejected, other saves still run), `relay` and `confirm` (before and after the broker takes
  `gatewayClient.emit`). `link` is `stale` once the channel of the delivery has closed.
- `rows[e][u]` counts the notifications stored for `u` about `e`; nothing in the code looks for an
  earlier one.
- `NoAck` selects the acknowledgement mode. `TRUE` is what the code deploys: neither bootstrap
  sets the option and the transport consumes without acknowledgements, so the broker forgets a
  message when it pushes it, and the handlers' `ack` and `nack` are protocol errors that close the
  channel. What was pushed and not processed is then lost (`AfterLoss`). `FALSE` is the mode the
  handlers are written for.
- Failures (`Fault`): a save (row stored or not), an emit (taken or not), a lost channel, a crash
  of either process, a lost acknowledgement of the gateway. `MaxFaults` bounds them.

### tasks-service

- `req[r]` is the handler of one request; `pc` names the database call or emit it makes next.
  TypeORM's `save` is two steps, `SaveSelect` (it reads the row again) and `SaveWrite` (it writes
  the columns that differ from what it read, inserts if it read nothing, and silently updates
  nothing if the row has gone since).
- `db`, `comments` and `log` are the tables; `log` keeps insertion order. `out` is what the broker
  took. Column values are abstract: what matters is which columns differ. `Value` stands for values
  after the normalization of `normalizeAssignees` and `normalizeFieldValue`.
- `OneWriterPerTask` is an assumption about the **environment**, not something the code enforces:
  no two mutations of one task are in flight at once. The serial run shows what the code
  guarantees under it, the concurrent run what is left without it.

### auth-service and the session

- `accounts[u]` is the row; its `hash` is the token it was computed from. `Matches` is what
  `bcrypt.compare` computes: it looks at the first 72 bytes, which for a refresh token are the header
  and the beginning of the payload, the subject included. Two tokens of one user therefore match
  each other's hash; the mutant `MatchesExactly` shows that both session properties rest on this.
- `call[c]` is one RPC; `pc` names the database call its handler makes next. A failing call, a crash
  and an expired signature are faults.
- `web[r]` is one run of `fetchWithAuth`, with its local variables: the bearer it sent and the user
  `refreshAccessToken` captured before its await. The answer of a refresh replaces the cookie when it
  arrives (`RefreshArrives`) and the store when the script goes on (`Refreshed`): a reload may come
  between. The verdict of the JWT guard is a choice.
- `MaySubmit` is an assumption about the **user**: nobody signs in while a refresh of the earlier
  session is in flight. Without it a late refresh stores the user it captured with a token of
  another.

### Requests

- `request[r]` is one HTTP request: `sent` (in a queue or a socket), `handling`, `read` (the page is
  read, its total is not), `replied`, `answered`, or `lost` with the process that had taken it.
  `thrown` is the status the service raised.
- An input is a class per field (`ok`, `null`, `blank`, `long`, `partial` for a date without a day,
  `bad`); the DTO classes are functions from fields to the classes they accept. What passes the
  pipe and is refused later is listed in `ServiceAgreesWithPipe`: an update that changes nothing
  and a comment by a user with a name over 255 characters (400 from the service), dates without a
  day, titles that are too long or null and null columns (500 from the database), and actors whose
  name does not fit the audit log (500 after the row was written).
- One list is followed at a time; `walk` is a client that reads it page by page while others create,
  update and delete. A walk may filter the list by a column (`column[i]`, one column for whichever
  the filter is about), and an update gives a row of the tasks any value of it: it may take the row
  out of the filter or into it. A row that leaves the list, deleted or updated, may hide another from
  the walk (offsets shift); one that is created or comes in only repeats rows. `WalkComplete` says
  that nothing else hides a row.
- `ServiceStartup` counts time in units of 500 ms. Nothing restarts a process that exited, as in
  `docker-compose.yml`; an operator may.
- The throttler and a crash of the gateway are left out: the first refuses before anything here
  happens, the second ends every request with its socket.

### The web client

`WebClient` follows one `scene` per behaviour, because the parts share no cache entry, no
component state and no server row: `form`, `tasks`, `pages` and `bell`.

- `QueryCache`: an entry has its data, the answer on its way (`asked`, then `read` at the server,
  then settled) and a failure flag. `Refetch` cancels a running fetch when there is data, and shares
  it when there is none; `Fetch` always shares it; `Written` is `setQueryData`, which a later answer
  overwrites. These rules come from the library.
- `TaskForm`: instants are hours, a zone is a whole number of hours before and after one change,
  within the offsets there are (`ZoneAssumption`: -12 to 14, a change by two hours at most).
  `DueDateDrift` says what the code does: the day stays as picked, except that each save that leaves
  the field alone moves it one day back while the clocks of that day are ahead of UTC, because the
  form shows the day in UTC and sends midnight of the browser's zone. In a zone that crosses the
  offset of UTC (0 and +1, such as Europe/London) the day moves back in summer, until it reaches a
  day in winter; `LeftAfter` tells where it is after n saves. `DayFilterExact` compares the filter,
  which is computed in the zone of tasks-service, with the day of the row there and with the day that
  was picked. A day taken to last 24 hours is wrong where a clock is moved: the property bounds by how
  much (as many hours at either end of the range as the clock is moved by, and none if no clock moves
  on the day or in the two hours on either side). The picked day finds its task only if the clocks of
  tasks-service are ahead by less than a day, which zones on the two sides of the date line are not.
  Zones of all these kinds are in the run.
- `TasksCache`: a row is its version. The list is one page of the tasks that match a filter, as the
  server cuts it: the matching tasks, the newest first, `skip` and `take` (`PageTasks`). An edit may
  take the edited task into the filter or out of it (`matching`), and a created task is newer than
  those that were there (`older`). `wire` holds the events on their way, each under a direct and a
  relayed copy, in no order. `HandleTaskUpdated` replaces a row where it stands, whether it still
  passes the filter or not, and adds none. `excused` collects, at the step where it happens, each
  reason why a row may stay wrong with nothing left to correct it: its last event was lost or came
  while the socket was down and the mounted page did not know, an older event came last, or a fetch
  brought an answer older than events that had already been applied. Which rows there are is a
  question of its own: `moved` and `late` remember, for the answer on its way and for the one that is
  shown, whether an edit or a removal has changed the page since it was read, or which tasks were
  created. `RowsExplained` says that there is no other reason: the rows are those of the page unless
  an edit moved a task into it or out of it (no event corrects that), a removal did (no page listens
  for `task:deleted`), or the event of a created task, which does refetch, was lost to one of the gaps
  above. `comment:new` is left out: `handleCommentNew` is given the whole payload of the event, in
  which `taskId` is not where it looks, so its invalidations name no query that exists. One list is
  in the cache; a second entry (another filter or page) goes through the same steps.
- `TaskPages`: the key of a query is its view and page; an answer is what two statements of the
  server found, the rows of the page (`at`, the number of rows when they were read) and then the
  `total` (`ReadPage`, `CountPage`), with writes in between. TypeORM may derive the total from a page
  that is not full; that outcome is among those of a separate count. So `RangesSound` promises for
  comments and history, whose rows only grow, that the range under them is the range of the rows; for
  the tasks, whose range is computed from page, size and total alone, only if nothing changed between
  the two statements, and otherwise that it lies within the total. `Corrected` is the effect that
  turns back to the last page: the least set of pages that has the page asked for and, with each page
  that lies behind the last one known, that one. It is written as an intersection and not by
  recursion, so that it can be proved about.
- `NotificationsPopover`: `Render` is one rendering with its effects in their order. Local storage
  belongs to the browser, not to the user: what happens when another user signs in is left out, and
  so is the cache that survives it.

## 3. Runs

| Run | Mode, bounds | Checks |
|---|---|---|
| `pipeline_autoack` | deployed mode, 2 events, 2 users, 2 handlers, 1 fault | `TypeOK`, `StoredBeforeRelay`, `DuplicatesArePaidFor`, `OnlyConcernedUsersNotified` |
| `pipeline_manual` | acknowledgements, 1 event, 2 users, 2 handlers, 2 faults | `IInv`, `SingleOwner`, `NothingLost`, `DuplicatesArePaidFor`, `FailureIsRedelivered`, `EventuallyBroadcast` |
| `pipeline_redelivery` | deployed mode | violates `FailureIsRedelivered` |
| `pipeline_fanout` | no fault | violates `StoredBeforeFanOut` |
| `pipeline_routing` | no fault | violates `ForwardReachesItsHandler` |
| `tasks_serial` | one writer per task, 2 tasks, 4 requests, 1 fault | `FateExplained`, `ColumnsExplained`, `LastEventIsCurrent`, `KeepsHistory` |
| `tasks_concurrent` | overlapping requests, 1 task, 3 requests, 1 fault | `TypeOK`, `RecordedBeforeHeard`, `CommentsHaveTask` |
| `tasks_history` | overlapping requests, no fault | violates `ColumnsExplained` |
| `web_session` | 2 users, 2 addresses, 4 calls, 2 browser requests, 1 call of another client, 1 fault | `TypeOK`, `OnlyLogoutEndsSessions`, `RegisteredOnce`, `SessionRenewable`, `RequestsEnd` |
| `requests` | 2 requests, every route and bent input, 2 environments, 3 bootstraps, 1 restart, 1 fault, 3 rows | `TypeOK`, `BackoffAsDefined`, `ServiceAgreesWithPipe`, `StatusKept`, `TrailUnbroken`, `WalkComplete`, `StartsInOrder`, `StartsIfReachable`, `RequestsAnswered` |
| `requests_status` | the same | violates `StatusKeptByAuth` |
| `web_client` | every scene: 2 tasks, 2 changes or 1 and 1 loss, first page; 11 zones, 3 days; 3 views of the tasks, 3 comments and entries, 1 move or failure, 2 pages in flight; 4 notifications | `TypeOK`, `DueDateDrift`, `DayFilterExact`, `RowsExplained`, `ReadYourWrites`, `RangesSound`, `OwnCommentShown`, `NotificationsAnnounced` |

Why the bounds are enough.

- *Pipeline.* Two handlers and one message are what a redelivery needs to run beside the handler
  that was left with a stale link; two users are what a partial `Promise.all` needs; two events let
  messages of different events share a channel that closes. Two faults let the second attempt fail
  as well. The payloads include a task without assignees (no recipient), an actor among the
  assignees, no actor, and a comment by an outsider.
- *tasks-service.* Three requests on one task are a creation and two mutations that overlap in every
  way; four on two tasks add a crash that interrupts mutations of both.
- *Session.* Two requests refresh at once; four calls are a login, two refreshes and one call of
  another client; a second user and address are what a mix-up needs. Which call, request or address
  comes first makes no difference, so the model fixes it (`NextCall`, `NextFetch`, `Addresses`).
- *Requests.* Each field of each input is bent alone, since the contracts are checked field by
  field; a page of one or two rows out of three has a middle, and two requests beside the walk's own
  page are a write between every two of its reads. Two environments cover settings that are unset,
  useless, contradictory and prefixed. One filter value out of two lets a row leave the list, come back
  and be missed.
- *Web client.* Two changes of one row let the events of two edits reorder, so that an older one
  comes last, and let an edit take a row off the list and another bring it back (the row starts on
  it, `MCInit`); a loss takes the place of a change. The list is the first page of one row, so that
  a second row pushes the first out; the proofs are about every page and size. Zones lie on both
  sides of UTC and change their offset in both directions, two across the offset of UTC and two at
  their own midnight; two others are a day apart. A move between the two statements of a page is
  enough to make them disagree; two pages in flight let an older answer come after a newer one.

Symmetry is used over events, slots, requests and tasks in runs that check safety only. Deadlock
checking is off everywhere: a system without further requests stops, and the bounds end the others.

Fairness. Node's event loop runs what is runnable and timers fire.

- `EventPipeline!Fairness`, for `EventuallyBroadcast`: weak fairness of each step of the handlers, of
  dispatch to consumers, of reconnection and of the start of the WebSocket server. The connection
  manager reconnects for ever, and `main.ts` goes on to `listen`. Nothing is assumed about which of
  the competing consumers a message is given to, nor about faults. Weak fairness is enough: a step
  stays enabled until it is taken, or until the competing consumer takes the message (the property
  allows for it) or a fault intervenes, of which a behaviour has finitely many.
- `WebSession!Fairness`, for `RequestsEnd`: each run of `fetchWithAuth` goes on, and the handlers of
  auth-service do; one condition for all handlers is enough because each makes finitely many steps.
- `RequestPath!Fairness`, for `StartsIfReachable` and `RequestsAnswered`: each request goes on
  (delivery by the broker included), and so do the start-ups. Nothing is assumed about PostgreSQL,
  RabbitMQ, operators or clients.
- `WebClient` states no fairness; its properties say what holds once nothing is on its way.

The five violations are disagreements between the code and its documentation; `PROJECT.json`
quotes the lines under `findings`. In short: redelivery needs `noAck: false`; the client fan-out of
task events does not wait for notifications; the two consumers of `tasks.events` take each other's
messages; overlapping updates of one task revert columns without an audit entry; and the 404 of
auth-service becomes 500.

## 4. Proofs

`EventPipelineProofs` proves, for every set of events, users and handlers, every set of legal
payloads, both acknowledgement modes and any number of faults:

| Theorem | Statement |
|---|---|
| `Invariance` | `Spec => []IInv` |
| `TypeCorrect` | `Spec => []TypeOK` |
| `PersistThenRelay` | `Spec => []StoredBeforeRelay` |
| `ActorNeverNotified` | `Spec => []OnlyConcernedUsersNotified` |
| `OneSettlement` | `Spec => []SingleOwner` |

Assumptions: the named `ASSUME`s of the modules (the null values differ from the real ones,
`MaxFaults` is a natural number, `NoAck` a boolean, payloads are legal), which TLC evaluates on
every instance.

The argument. None of the properties is inductive alone. That a relay is preceded by the stored
notifications needs to know what a handler has stored so far (`Progress`: the recipients outside
`pending` have a row). `TypeOK` is not inductive because a nack decrements `held`: it needs that a
handler whose link is live really holds its delivery, and that no other handler does
(`SingleOwner`), which in turn needs that only forwarded messages are held (`OnlyForwardsHeld`) and
that nothing of an event exists before its publication (`OnlyPublished`). `IInv` is their
conjunction. The steps of the gateway only move or drop messages (`Conserves`,
`ConservingStep`). The steps of notifications-service are reduced to five facts about a step (rows
kept, bags kept, types kept, each slot in order, owners kept) that `KeptStep` and `OwnersStep` turn
into `IInv'`; `SettleStep` covers every outcome of ack and nack, `SaveStep` every outcome of a
save. TLC checks `IInv` in `pipeline_manual`, the theorem covers both modes.

`EventDeliveryProofs` adds what depends on the mode:

| Theorem | Statement |
|---|---|
| `ForwardedIsKept` | `~NoAck => (Spec => []NothingLost)` |
| `FailureRedelivers` | `~NoAck => (Spec => FailureIsRedelivered)` |
| `NothingTwice` | `NoAck => (Spec => []DuplicatesArePaidFor)` |
| `RepeatsArePaidFor` | `Spec => []DuplicatesArePaidFor` |

`NothingLost` is inductive over `IInv` once `Confirmed` is added: a handler that waits to confirm its
delivery has relayed the event, so the ack that removes the message removes nothing still needed.
That no duplicate arises without acknowledgements (`OnceInv`) rests on the way of one event: its
forwarded message is not yet published, or on the queue, or with exactly one handler (`OneWorker`),
and until the handler gets there nothing of it is stored or relayed (`NotYet`); so each row and each
copy is made once (`Once`).

With acknowledgements `DuplicatesArePaidFor` bounds the duplicates by the number of faults, and a
bound on what exists is not inductive: it says nothing of the handlers that are still to store a row
or relay. `Paid` bounds what is owed as well. `RowDebt` adds, for an event and a user, the forwarded
message on the queue, the rows stored, and the handlers with that save in flight, stale and rejected
ones included; `RelayDebt` adds the message, the copies of the relay on the queue or broadcast, and
the handlers that have yet to relay. Neither exceeds the faults, plus one once the event is sent. A
handler that starts takes the message's place in the sum, a save turns a handler into a row, a relay
into a copy; whatever puts the message back on the queue (a nack, a lost channel, a crash) is a
fault, and puts back one copy only (`SingleOwner`). The slots need not be finite, only the busy
ones, which is part of the invariant. `HandlerSpends`, `QueuesSpend` and `Spends` reduce each action
to what it does to the sums. `Paid` was model-checked on the instance of `pipeline_manual` and, with
one fault, on two events before it was proved.

`WebSessionProofs`, over the lemmas of `AuthServiceProofs`, proves for every set of users,
addresses, calls and requests and any number of other clients and failures:

| Theorem | Statement |
|---|---|
| `SessionTypeCorrect` | `Spec => []TypeOK` |
| `RegistrationsUnique` | `Spec => []RegisteredOnce` |
| `LogoutAloneEndsSessions` | `Spec => []OnlyLogoutEndsSessions` |
| `SessionsRenew` | `Spec => []SessionRenewable` |

Assumptions: there is an address, the null values differ from the real ones, the bounds are natural
numbers. The invariant has two layers. `AuthInv` is about auth-service alone: what each handler
relies on at each of its calls (`InOrder`), that a hash is one of its own row's tokens
(`HashOwned`), which is why a refresh is never led to clear one, and that the row of a registration
is there before and after its tokens are signed (`Registered`). `WebInv` adds the browser: its
cookie is a token some call was answered with (`CookieIssued`), cookie and session are of one user
(`SessionOwned`), and so are the user a refresh captured and the token it brings (`FetchInOrder`),
because nobody signs in meanwhile (`MaySubmit`). The two are composed by `CallsKept`: what a step of
auth-service leaves to those who wait for an answer.

`TasksServiceProofs` proves of tasks-service, for every set of tasks, columns, values, requests and
bodies and any number of failures and crashes, mutations that overlap included:

| Theorem | Statement |
|---|---|
| `TasksTypeCorrect` | `Spec => []TypeOK` |
| `HeardIsRecorded` | `Spec => []RecordedBeforeHeard` |
| `CommentsBelong` | `Spec => []CommentsHaveTask` |

Its invariant, `TasksInv`, says where each handler stands (`Ordered`: an entry is due only between
a write and `createLog`), that a handler past `createLog` has exactly one entry (`Recorded`), that
one before it has none (`NotRecorded`), and that only those past it are heard of (`Told`).

`TasksSerialProofs` adds what needs `OneWriterPerTask`, the constant that says that no two mutations
of one task overlap; the code does not ensure it, and the findings of section 3 show what happens
without it:

| Theorem | Statement |
|---|---|
| `HistoryTellsFate` | `OneWriterPerTask => (Spec => []FateExplained)` |
| `HistoryTellsColumns` | `OneWriterPerTask => (Spec => []ColumnsExplained)` |
| `EventsTellTheTable` | `OneWriterPerTask => (Spec => []LastEventIsCurrent)` |
| `ServiceKeepsHistory` | `OneWriterPerTask => (Spec => KeepsHistory)` |

The argument. `SerialInv` adds to `TasksInv` that a task has one writer, that what this writer
loaded is still in the table (`Alone`), and that a fresh id is of no earlier task (`Known`). Then
the row that the history stands for (`Current`: the table, or what the writer loaded while its
entry is due) changes only in three ways, together with the log and the mark of completeness
(`HistoryStep`): not at all (`Stays`), with one entry that tells the change (`Records`), or without
one, which marks the history as incomplete (`Loses`; a crash does so to several tasks at once).
`SerialStep` shows it of every step, with one lemma per action over `OthersStay`, which settles
every other task and handler. From there on the handlers are out of the picture: `ExplainedStep`
and `PromiseStep` are about the three ways only. TLC checked `SerialInv`, `Explained` and
`HistoryStep` on the instance of `tasks_serial`.

`RequestPathProofs` proves of start-up and requests, for all environments, bounds, inputs, numbers
of rows and page sizes:

| Theorem | Statement |
|---|---|
| `RequestTypes` | `Spec => []TypeOK` |
| `PausesAsDefined` | `Spec => []BackoffAsDefined` |
| `StartsAfterDatabase` | `Spec => StartsInOrder` |
| `ContractsAgree` | `Spec => []ServiceAgreesWithPipe` |
| `StatusesKept` | `Spec => []StatusKept` |
| `OneTrail` | `Spec => []TrailUnbroken` |
| `WalksComplete` | `Spec => []WalkComplete` |

Assumptions: an environment gives each variable a number, text that is none, or nothing
(`EnvironmentsAssumption`); a client sends fields of the classes the model knows, with a verified
token (`InputsAssumption`); page sizes are positive.

The argument. The invariant `RequestPathInv` has one part for each actor. `StartupInv` says for every
process what its phase and its count of attempts make its delay (`Sound`). That the delays double
(`BackoffDoubles`) rests on `PowersOfTwo`: the recursive function is what its definition says, because
its first n values exist for every n (`PowersExist`) and agree (`PowersAgree`). `RequestInv` says what
a request holds at its stage (`Regular`): its trail is `TrailOf` of its route, a status that tasks or
notifications threw is the status of the answer, and no status is left to explain (`Explained`). The
contracts themselves are compared route by route, in lemmas without state (`TasksAgree`,
`NotificationsAgree`): the DTO classes are unfolded there and nowhere else. `WalkInv` says of a walk
that nobody disturbed that it has seen, or is being brought, every row it waits for among the newest
of the list, as many as its pages had room for (`Reached`). The lists are sorted newest first, so a row that is created, or that an
update lets through the filter, only moves the others towards the end (`RankGrows`) and the next
page repeats rows.

`WebClientProofs` proves of the web client, for all tasks, views, page sizes, zones, numbers of rows,
comments and notifications, and any losses and failures:

| Theorem | Statement |
|---|---|
| `WebClientTypes` | `Spec => []TypeOK` |
| `DriftIsKnown` | `Spec => []DueDateDrift` |
| `FilterIsExact` | `Spec => []DayFilterExact` |
| `RowsAreExplained` | `Spec => []RowsExplained` |
| `OwnSavesRead` | `Spec => []ReadYourWrites` |
| `RangesAreSound` | `Spec => []RangesSound` |
| `OwnCommentsShown` | `Spec => []OwnCommentShown` |
| `AllAnnounced` | `Spec => []NotificationsAnnounced` |

Assumptions: `ZoneAssumption` (above), the null values differ from the real ones, page sizes are
positive, the open task is a task, the bounds are natural numbers.

The argument. The four parts have an invariant each, because they share no state; what they do share
are the lemmas about an entry of the cache (`FetchFacts`, `RefetchFacts` and so on), one for each
operator of `QueryCache`. TLC checked all four on the instance of `web_client`.

- `FormInv`: the row holds the start of `DayLeft` in the browser's zone, and an untouched form holds
  what `FormValues` made of the row. There is one day that n saves may leave (`OneIsLeft`), and one
  more save moves it back exactly while its offset is positive (`ShownDay`, `NextIsLeft`), because an
  offset is less than a day. Where a day and an instant have different offsets, they differ by what
  the clocks are moved by (`AroundFacts`).
- `CacheInv`: what the cache holds is something the server once had (`Dated`), and its rows are those
  of the page unless the page has changed since (`Accounted`); an edit whose last event has not come
  to its end still has one on the wire (`ServerInv`); while the page listens, what it shows wrongly,
  or lacks because it was created late, with no event left is in `excused` (`ListInv`); an answer on
  its way to the details page is no older than a save the page was told of (`CardInv`), because
  `Saved` gives up the fetch that might be. A change of the server only widens what `Dated` and
  `Accounted` allow (`Widens`).
- `PagesInv`: the page of tasks that is shown is not behind the last known one (`~Overrun`,
  established by `Corrected`); of comments and audit log, which only grow, a page that was fetched
  has a row, and no fewer rows are counted than were read (`EntryKept`), because the buttons wait
  for a fetch; an answer is counted before it arrives (`Counted`); page 1 of the comments is not being
  fetched while another page is shown, and an answer on its way to it counts the own comment unless
  it was `overtaken` (`CommentsInv`).
- `BellInv`: the totals of the entry only grow and cover what was seen (`Growing`, `Covers`); what a
  mounted bell knows includes the newest of its entry (`Started`); what was toasted or passed over in
  silence (`Heard`) is covered by every later answer, over remounts too; the key of local storage is
  the total at the last opening.

What is model-checked only:

- liveness (`EventuallyBroadcast`, `RequestsEnd`, `StartsIfReachable`, `RequestsAnswered`), which
  with fairness and ENABLED is out of reach of the installed provers;
- the five violations, which are counterexamples.

The induction theorems of the library take an operator as a parameter, which the provers cannot
instantiate. Where a proof needs induction over the natural numbers (the doubled delays, the least
page of a set), it takes the least counterexample instead. No module uses RECURSIVE operators.

## 5. What is not modelled

Listed with reasons in `PROJECT.json`. Logging (except the request context), health probes, UI
components, styles, lint and build configuration have no protocol and stay out. In detail:

- Payload contents are reduced to the users they name; the text of notifications is left out. The
  order of messages within a queue is left out (a bag): concurrency of handlers and the competing
  consumers already destroy it, so no property of the pipeline may rest on it. The gateway's third
  consumer, on `notifications.events`, is left out because nothing publishes to that queue.
  `TasksService!out` keeps order per task, because one handler awaits its first emit before the
  second.
- `updateNotificationStatus` has no caller. The throttler, CORS, cookies' attributes and a crash of
  the gateway are left out, and so are passwords: a login may succeed or not.
- Of the list filters the due date is modelled as it is computed; of the others (status, priority,
  text, assignee) only which rows pass, and that an edit changes it. Columns are changed by updates
  of tasks; nothing changes the status of a notification.
- In the web client: rendering, the assignees picker, form fields other than the due date, and what
  another user of the same browser finds in local storage and cache. Typed input is lost when the
  task changes under an open form (`ResetForm`); no property says it should not be.
- A login while a refresh of the earlier session is in flight (`MaySubmit`).

## 6. Plan

1. Event pipeline, with proofs: done.
2. tasks-service with its abstract history, with proofs: done.
3. auth-service and the session, with proofs: done.
4. Requests, contracts, start-up, with proofs: done.
5. Web client, with proofs: done.
6. Delivery, with proofs in both acknowledgement modes: done.
