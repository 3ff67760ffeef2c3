# A TLA+ model of Kopano GRAPI

GRAPI is a REST service, written in Python, that offers a groupware server
through an API like that of Microsoft Graph. A master process (`mfr.py`) starts
several *rest* and *notify* workers; each is a WSGI server on a unix socket that
answers one request at a time. Behind the API is a backend, in production the
one in `grapi/backend/kopano`, which talks to the kopano server through MAPI.

Most of GRAPI turns one request into a few calls of a library. What is hard to
get right is the state that outlives a request: webhook subscriptions and the
threads that expire and deliver them, the cache of server sessions, the file
that delta requests share between processes, the dependencies within a batch,
the processes themselves, and the handlers in which several calls change what a
client, an attendee or a recipient was told before. That is what this directory
models. Modules are checked with TLC on small instances (`MC*.tla`, `*.cfg`),
and the safety properties of all of them are proved with TLAPS for every
instance (`*Proofs.tla`). `PROJECT.json` lists components, runs, mutants, the
source lines of every definition, hazards, findings and theorems.

## The system and its parts

| part | source | state | how it interacts |
|---|---|---|---|
| webhook subscriptions | `backend/kopano/subscription.py` | `RECORDS`, the Records, sinks and a gauge, per notify worker | request thread and `SubscriptionPurger` thread share all of it; the kopano server holds the registered sinks |
| notification delivery | same | a bounded queue, the batch in `pending` | MAPI notification threads put, the `SubscriptionProcessor` thread gets, debounces and POSTs to webhooks |
| session cache | `backend/kopano/utils.py` | `TOKEN_SESSION`, `PASSTHROUGH_SESSION`, `DANGLE_INDEX`, gauges, per rest worker | request thread and `SessionPurger` thread; called for every request by the middleware `resource_patcher.py` |
| batch requests | `api/v1/batch.py`, `api/v1/graph.py` | the graph, the order, the answers, per request | sends each contained request through the API again |
| delta requests | `backend/kopano/item.py`, `utils.py`, `resource.py` | the file `mapping_db` | all workers read and write the file; the client keeps the link to the next state |
| master and workers | `mfr/__init__.py` | `running`, `abnormal_shutdown`, the exit queue, processes, sockets | signals, exit statuses, a shared queue |
| request pipeline and routes | `api/v1/api.py`, `api/common/api.py`, `api/v1/middleware/` | `req.context` of one request, the metrics | middleware, backend selection, error handlers; every request of the other parts comes through here |
| listing | `api/v1/resource.py`, `backend/kopano/resource.py` | none on the server; the client follows nextLinks | kopano tables |
| mail folders, messages, attachments | `folder.py`, `mailfolder.py`, `message.py`, `attachment.py`, `item.py` | in the kopano server | several library calls per request |
| events and calendars | `event.py`, `calendar.py`, `reminder.py` | in the kopano server | save, send, cancel and delete as separate calls |
| contacts, users, groups, photos | `contact*.py`, `user.py`, `group.py`, `profilephoto.py` | in the kopano server | mostly reads |
| other backends | `backend/ldap`, `imap`, `caldav`, `mock` | none | adapters |
| schemas, languages, time zones, preferences | `api/v1/schema`, `mfr/utils.py`, `mfr/msgfmt.py`, `timezone.py`, `prefer.py` | none | conversions |

What makes each of the modelled parts hard, and correct:

* **Subscriptions.** The purger iterates over shared dicts without the lock,
  decides in one step and acts in later ones; a POST or PATCH may fall between
  any two of them, a server connection may break at the start of any request,
  and `on_post` runs its work again after some errors. Correct means: a listed
  subscription is registered with the server and listed once; it is taken off
  once, by one thread; no server connection is forgotten; nobody touches
  another user's subscription; requests are answered and expired subscriptions
  go.
* **Notifications.** Producers are faster than webhooks, the queue is full,
  changes repeat while their batch is collected. Correct means: nothing is lost
  between the sink and the POST, the order of the last changes is kept, and a
  steady stream puts nothing off for ever.
* **Session cache.** Sessions are looked up under a lock and used, probed and
  replaced outside of it, next to a purger. Correct means: a caller only ever
  gets a session made for it, the gauges count, the purger survives and gets
  round to everything.
* **Batch.** A client-given dependency graph, with failures in the middle.
  Correct means: cycles are refused, the order respects the dependencies, a
  request whose dependency failed is not executed, all are answered.
* **Delta.** The folder changes during a request and during its answer; two
  processes write one file. Correct means: what a client puts together is the
  folder in the state of its link, and no entry of the file is lost.
* **Lists.** Every page is a request of its own; between two of them the list
  changes, and a page may break off. Correct means: the pages of a list at rest
  are the list, for any page size; rows that arrive hide none; it ends.
* **Requests.** An exception may come from any of a dozen places, with or
  without a route, a session or a handler. Correct means: no handler runs with
  another caller's session, or without the store it needs; the client is told
  the status of what went wrong, and the metrics count it once; every request
  is answered.
* **Events, messages, folders.** One request is several calls that take effect
  at once, each may fail, and other workers are at the same item or folder.
  Correct means: what was sent last is true and whole, a deletion by the owner
  cancels first, a client that repeats a failed sendMail sends once, and an
  answer describes what the request has made.
* **Processes.** Signals between any two steps, workers that fail, die or hang,
  also while they hold or wait for the lock of the exit queue. Correct means:
  every shutdown ends with no process and no socket left, and a worker that
  cannot serve goes away.

## The modules

In every module a definition whose name ends in `Slip` is a plausible mistake,
placed before the definition it resembles; no specification uses it. The runs'
properties are shown to find it (`mutants` in `PROJECT.json`).

### Subscriptions.tla

The dict `RECORDS` maps keys to Records; the key of a user is `Live(u)`, the key
`'{userid}_dangle_{n}'` of a Record that was put aside is `<<u, n>>`. `req` is
the request thread: its program counter, the operation, the user and the locals
of `_record` and of the handlers. `purger` is the thread
`SubscriptionPurger.run` with its locals. One action is the code between two
points at which the other thread can matter: two dict accesses, a call to the
server or taking the lock. `thread_lock` is held while `req.pc = "clear"` and
while `purger.pc = "purge"`; other locked sections are a single step.

* `_record`: `Lookup`, `CheckConnection`, `PopRecord`, `DangleRecord`,
  `DropSink`, `DropDone`, `Connect`.
* `on_post`: `ReceivePost`, `ValidateWebhook`, `Subscribe`, `StoreSubscription`,
  `AnswerPost`, and `ServerError` for its retries.
* `on_patch...`: `FindSubscription`, `SetDate` or `KeepDate`, `UnflagSink`.
  `on_delete...`: `TakeSubscription`, `ReleaseSink`. GET: `Read`.
* the purger: `PurgerWake` to `PurgerPurge`, in the order of the code.

An expirationDateTime is reduced to how it relates to now: in the future, past,
or without a time zone ("naive"). `issued`, `acknowledged` and `lapsed` are
history. `Unsubscribe` is one step for `store.unsubscribe(sink)` and
`store = None`, which no property tells apart.

`SubscriptionLifecycle.tla` is what the component promises of one subscription:
it is registered, then listed, then taken off the list, then unregistered, each
once. `ImplementsLifecycle` checks that `Subscriptions` implements it, with
`listed` and `removed` given by a refinement mapping.

### Notifications.tla

`queue` between the `SubscriptionSink.update` of the notification threads and
the loop of `SubscriptionProcessor.run`. `pending` is the
`LastUpdatedOrderedDict`, as a sequence of the records it would yield (`Place`
is where a record stands that is set again); `due` and
`waited` say whether the debounce delay, and the wait since `queue.get` was
called, have passed. A `put` that finds the queue full waits and tries again
(`PutFull`, `Wake`). `owed` and `earlier` are history.

### SessionCache.tla

`sessions` is `TOKEN_SESSION` and `PASSTHROUGH_SESSION` in one: keys are a
caller and a dangle index. `req` goes through `_server` (`Get`, `Probe`,
`Replace`, `Connect`, `Store`, `Count`) and `_server_store` (`Resolve`, which
runs `_server` again once, forced to reconnect). At `"done"` a request has its
store, or an exception, and it leaves (`Leave`) when the caller of
`_server_store` is through. The purger holds `threadLock` for its whole round.

### Rest.tla

Extends SessionCache by the request that needs the session, `http`: its place
among middleware, responder and `process_response`, the label of its route, its
caller, what it came to (`cause`), the status of the answer, and what it added
to the two metrics. `ArriveUnrouted` and `Arrive` are `process_request` and the
routing; `PatchRefuses`, `PatchWithoutStore`, `PatchWithStore`, `Search` and
`Patched` are `ResourcePatcher.process_resource`, the search being the actions
of SessionCache; `RefuseBody`, `RefuseMethod` and `Handle` are what may follow;
`ProcessResponse` is the request profiler and the metrics, in falcon's reverse
order. `Handled` is what the error handlers make of an exception, with the
order of `run_rest` in `ErrorHandlers` and falcon's choice, the last one added
for a class of the exception, in `HandlerOf`. Falcon is the release that
`requirements.txt` freezes, 1.4.1.

### Batch.tla

The pure parts, `graph.py`, are operators on the set `edges`, and
`topological_sort` is a sequence of steps with its queue and table, so that its
result can be compared with the definition (`SortedByDependency` and
`CyclesAreRefused`, together `SortedOrRefused`). `ReadRequest` is a turn of
`process_request` with any id and any set of dependencies; `Reached` is what the
recursion of `_get_vertices_connections` gets to, as the least set that goes on
along the edges, so that proofs can speak of it, and `Chain` the pairs it
collects; `Succeed`, `Fail` and `Skip` are turns of the loop of `on_post`, and
`CrashOnBody` is one in which a response is good but no JSON, which ends the
batch with a 500. `answers` counts the responses to each request.

### Delta.tla

The folder is an external actor. `Ask` is the start of `ItemResource.delta`;
`ImportUpdate`, `Open` and `Write` are `ItemImporter.update` and `db_put`, with
what hashopen has read of the file in `view`; `ImportDelete` and `FailDelete`
are `ItemImporter.delete` and `db_get`; `EndStream` and `Truncate` are
`json_multi` and the client that applies what it gets. What the repository does
not say of the library's `folder.sync` is a choice: whether it reports the
removal of an item that came and went since the last state, and whether an
exception of the importer ends it. `stored` and `misled` are history.

### Mfr.tla

`pc` is where `Server.serve` is, `worker` the processes with the place of their
main thread (`Runner.run`), `thread` their serving threads. The exit queue is a
`JoinableQueue`, and its condition matters: `unfinished` is its count of tasks,
`cond` who holds its lock, `sleeping` the workers that are counted as asleep in
`queue.join` (`JoinQueue`). The last `task_done` holds the lock and waits,
without a timeout, until all of them have woken: that is the master between
`Flush` and `Flushed`, and a failed worker between `ThreadDone` and
`ThreadNotified`. A sleeper wakes by itself (`Wake`) and needs the lock once
more to leave (`Exit`). A process that dies, is killed or hangs may do so with
the lock (`StopsWithLock`), or asleep, and then stays counted.

A SIGINT (`Interrupt`) ends the loop; before the loop, and in the shutdown after
it, it raises KeyboardInterrupt out of `serve` (`pc = "aborted"`).

A signal with a handler becomes `pending` and its
handler runs between two steps, not inside `signal.pause`, which it ends. A
worker that exits while SIGCHLD is ignored leaves no exit status
(`unreported`), and `is_alive` stays true for it.

### Paging.tla

A client and one list. Each of the 17 list handlers is an action, which ends in
`FolderGen`, `Generate` or `Whole` as in the code; `Respond` is the page of
`json_multi`, of which only the first `n` rows arrive when one of them cannot be
marshalled, and `NextLink` what the client follows. `GetLdapUsers` is the LDAP
backend, which builds page and link in its own way, from answers of at most
`PAGESIZE` entries: its loop ends with the user that fills the page, or without
one at the end of an answer (`LastUser`). `Select` filters rows by
their positions, so that proofs can speak of it: the k-th row that is kept is the
one with `Rank` k. `Arrive` and `Leave` change
the table at any place. `first`, `stayed` and `disturbed` are history.

### Items.tla

The store of one user. `items` (events, messages, contacts) and `folders` are in
the kopano server, `heard` is what the addressees of an item were sent last,
`req` is the request of each worker: its next call and the handler's locals. An
item that was saved but not yet filled is not `whole`. A handler that makes one
call which changes something is one action; the others are:

* `CreateEvent`, `AttendeesSet`, `SetFields`, `SendEvent`: `_create_event` with
  `create_message`; `UpdateEvent` starts `_update_event`.
* `StartDelete` (up to `event.cancel`), `Notify`, `Delete`: `_delete_event`.
* `CreateMessage`, `CreateContact`, `SendMail` start `create_message` in
  the folder of each; `SetFields` goes on; `Send` is the last call of
  `on_post_send_mail` and, after `StartSend`, of `on_post_send`.
* `MoveFolder` and `CopyFolder` (up to the library's move or copy),
  `LookupFolder`, `Respond`: `_folder_copy_or_move`.

`Fail` is an exception at any of them. `Tree` is what is deleted or copied with
a folder, the least set that has it and its children. `calendar` is
`store.calendar`, which `GetByFolderid` assigns. `GetFolderType` tells, from the
path of a request for attachments, whether its item is an event. `client` is one
that sends its message by sendMail and asks again after an error. `mails`,
`asked`, `early` and the `touched` of a folder request are history.

## What the runs show

Passing runs:

| run | properties | bounds |
|---|---|---|
| `two_users` | `TypeOK`, `ListedIsRegistered`, `ListedOnce`, `NoConnectionForgotten`, `LiveRecordIsConnected`, `OnlyOwnersAct`, `PurgesOnlyLapsed`, `ImplementsLifecycle` | two users, one subscription, two Records, two tries, all dates |
| `subscriptions_live` | `RequestsAreAnswered`, `ExpiredArePurgedByLivePurger` | one user and subscription, two Records, two tries, fair threads |
| `notifications` | `TypeOK`, `NothingLost`, `BatchInOrder`, `EverythingIsPosted` | two threads, a queue of one, three changes, fair threads |
| `batch` | `TypeOK`, `SortedOrRefused`, `EveryoneIsAnswered`, `ExecutedAfterSuccess` | every graph of up to four requests, every outcome |
| `rest` | `RestTypeOK`, `HandlersWorkForTheirCaller`, `ErrorsKeepTheirStatus`, `MetricsAddUp`, `StaleArePurged`, `EveryRequestIsAnswered` | two tokens, the empty token, a passthrough user, two sessions, a purger that stops after the first deletion, every cause of an error, with and without the profiler, fair worker and purger |
| `delta` | `TypeOK`, `NoMappingLost`, `ClientsTrackTheFolder`, `ClientsCatchUp` | two clients, two items (one old), three changes, fair clients |
| `mfr` | `TypeOK`, `NobodyIsLeftBehind`, `BrokenWorkersExit`, `EveryShutdownEnds` | a worker that may hang and the metrics process, both may fail or die, fair processes |
| `paging` | `TypeOK`, `PagesAreTheListing`, `PagingEnds` | every list, three items, pages of one or two rows, answers of the LDAP server of one or two, two changes, four pages |
| `items` | `TypeOK`, `WhatIsSentIsTrue`, `SentOnce`, `AnswerNamesTheFolder`, `OrganizerCancelsFirst` | two workers; owner, delegate and guest; one event and three DELETEs, or two messages, or three folders and two names, or a message or contact and a folder |

Why these bounds are enough to be interesting. Subscriptions interfere through a
Record or through the purger's lists: one subscription and a second Record make
every such pair of threads, and a second try on a second Record is a retry after
a lost connection. Two users is what ownership needs. A queue of one is full
with two threads of which one waits, and three changes make a batch whose middle
entry comes again. Four requests make every shape of a chain, a diamond and a
cycle beside a request that is free. Two sessions are a first one and the one a
forced reconnect makes, which puts the first under a dangle key, where the
purger meets it beside the new one: it stops after one deletion (`PurgeMax` is
0) and has to come back for the other; a third connection is refused, like one
the server does not let in. Three sessions were checked without the liveness
properties. Two clients of the delta request are the two workers that meet at
the file, and three changes make an answer with an update and a removal. The
metrics process and another make two workers: a shutdown kills or joins them one
after the other, and one may stop in the exit queue while the other waits for
it. Three workers were checked without the liveness properties. Three items and pages of two make a full page, a page
that is not, and the empty one; two changes fall between any two of them. Events
do not interact with messages or folders but through the workers, and neither do
messages, but for what is in a folder that is deleted: `MCBudgets` has one kind
at a time, and one instance with a message or contact in a folder. Two messages
are the two tries of a sendMail, three folders a folder, its copy and a third of
the same name. The bounds on counters are `MaxRecords`, `MaxSessions`,
`MaxChange`, `MaxRequests`, `MaxChanges`, `MaxPages`, `MaxItems`, `MaxDeletes`,
`FolderIds` and the `Budgets`; all are in the guards. Deadlock is not checked
for Notifications, Batch, Mfr and Paging, which really stop: notifications need
not come, a batch is over, the program ends, a client has its list.

Findings: runs in which TLC shows that the code does not do what a comment or a
log message of the repository says. `PROJECT.json` quotes the line.

| run | property | what happens |
|---|---|---|
| `orphan` | `ActiveIsRecorded` | the purger judges a Record empty, a POST stores its subscription in it, the purger removes it: the subscription can neither be deleted nor does it expire |
| `batch_first` | `DependentsAreFailed` | the request with id 1 runs although what it depends on failed |
| `mfr_wakeup` | `AbnormalShutdownIsInitiated` | a worker dies between the check of `running` and `pause`: the shutdown is announced, and the master sleeps |

Other weaknesses are part of the models, and the properties above are stated so
that they hold in spite of them. A change of the code that removes one can make
the property stronger:

* A PATCH that renews a subscription after the purger looked at its date does
  not save it: `PurgesOnlyLapsed` says "was due once", not "is due".
* The purger may take a subscription off a Record that a request is just copying
  after a lost connection (`subscription.py:205`), so that both call
  `sink.unsubscribe`. `store = None` stops the second, but not between the two
  halves of the first: the gauge of active subscriptions may then go down twice.
  No property speaks of the gauge.
* A date without a time zone, which the schema lets through, ends the purger
  thread when it is compared, and so does a request that changes `RECORDS` while
  it is iterated over (`purger = Dead`): the liveness properties of
  Subscriptions except a dead purger.
* `new_record` reads `clientState`, which a create request may leave out. The
  KeyError is not caught by the processor's loop and ends the thread that is
  "responsible for gathering all notifications"; nothing is posted after that
  (the processor of Notifications is then at `"dead"`). `EverythingIsPosted`
  is checked for subscriptions with a clientState.
* A request that depends on two failing ones is answered twice, so
  `EveryoneIsAnswered` says at least once. An id one above the number of
  requests is accepted and the batch then fails with a KeyError (`Crash`).
* A failure is not passed on through the request with id 1, vertex 0: it runs
  itself, and what depends on the failed one through it alone runs when it
  succeeds. `Needed`, and with it `ExecutedAfterSuccess`, stops there.
* A token session that the purger removes while it is probed makes `Replace` a
  KeyError, and the request fails where it would have reconnected.
* An item that cannot be marshalled ends a delta answer, but its link is already
  past what is missing; and the removal of an item that was never imported
  raises an exception. Clients that met one are `misled`, of which
  `ClientsTrackTheFolder` says nothing, and `ClientsCatchUp` excepts the second.
* A worker that hangs ignores the SIGTERM of a normal shutdown, and `join` waits
  for it for ever: `EveryShutdownEnds` excepts it. A process that stops in the
  exit queue, asleep or with the lock, blocks whoever marks the task as done and
  whoever wants the lock. No worker has to hang for that: one that dies asleep in
  `queue.join` before the master listens for SIGCHLD, or after a SIGTERM, is
  waited for in line 461 for ever, and the kill of those that did not exit is not
  reached: `EveryShutdownEnds`, for a normal shutdown, and
  `BrokenWorkersExit` except it (`Stuck`). A second Ctrl-C breaks a shutdown off,
  and leaves the workers behind. A worker that was
  reaped by the kernel while SIGCHLD is ignored looks alive, and killing it ends
  the master half way (`pc = "aborted"`). A worker that dies before the SIGCHLD
  handler is installed is not missed.
* Lists. A row that is removed between two pages hides the one that moves into
  its place, and a page that breaks off has a link past the rows that are
  missing. Any `$orderby` on messages or contacts ends in an IndexError: no
  field is in `sorting_field_map`, unknown ones are removed, and `generator`
  looks for the first that is left. A `$search` in a folder, and the lists of
  groups, members and attachments, answer every page with everything under a
  link to the next one, so that a client which follows links never ends:
  `Paged` leaves them out.
* LDAP users. A page has a link only when it is full, but a user without a login
  is left out of it: with such users before it the page is not full and the
  list ends early. The link drops `$top` and `$search`.
* Requests. A worker with the request profiler answers 500, and counts an
  exception, where a request without a route or with a body that is not JSON
  should have a 404 or a 400: the profiler takes the label of the route for
  granted (`mfr/__init__.py:163`); `ErrorsKeepTheirStatus` leaves those out
  (`profiled`). The patcher asks the first configured backend for
  `_server_store`, whichever serves the request, and there is none but in
  `kopano`.
* Messages. A sendMail that fails leaves half a message in the outbox, which
  whoever sees it can send by its id (`asked`); a worker that is killed after
  `message.send` and before its answer makes the client send again. Two requests
  that send one item send it twice. createReply and copy answer after they are
  done, so a client that repeats a failed one has two.
* Attachments. The folder type is taken from "/calendar" anywhere in the path:
  attachments of messages below a user, or a mail folder, whose name begins with
  "calendar" are searched among events (`GetFolderType`).
* Folders. The answer to a copy or move is looked up by a name: `touched`
  excepts the requests whose folder another one changed meanwhile. DELETE of a
  contact folder by id always ends in a 500: `FolderResource.on_delete` takes
  three of the four values of `_server_store` (`folder.py:41`). The delta of
  contact folders reports no removals, since `FolderImporter.delete` takes every
  folder for a mail folder, and that of mail folders has no
  `container_classes` to compare with (`folder.py:26` and `57`).
* Events. A POST that fails leaves half an event, and its deletion sends a
  cancellation to attendees who were never invited. A DELETE before the POST has
  sent its invitation is overtaken by it (`early`). `is_event_organizer` denies
  events made on behalf of the owner, though its comment says that it includes
  them, and a delegate's DELETE sends nothing: both remove a meeting whose
  attendees keep their invitation. GET of a calendar's events assigns
  `store.calendar`, so a later POST to "calendar" may go to that folder, as
  far as the library carries the assignment out (`named` and `folder`).

## Fairness

* Subscriptions: weak for the purger, a thread with nothing to wait for but the
  lock; strong for the request thread, which may find the lock taken now and
  again, but for all of the purger's waiting time it is free. No request has to
  come, no connection has to break.
* Notifications: weak for each thread and for the clock. Strong for a `put` that
  waits for room: it is retried every few seconds, and the queue makes room
  again and again as long as the processor runs.
* Rest and SessionCache: weak for the purger and for the passing of time, strong
  for the work on a request that has come: it needs `threadLock`, which is free
  again and again, since the purger sleeps between its rounds. No request has to
  come.
* Delta: clients ask again, requests are carried out; strong for the lock and
  for reading the file at rest, since every write of it is short.
* Mfr: strong for the steps of the master, weak for its handlers, so that no
  stream of signals stops it; weak for what the threads of each worker do by
  themselves. The lock of the exit queue is taken a bounded number of times, so
  that who wants it gets it once it stays free. Failures, deaths, hangs and
  signals are under no fairness.

## What is proved

Every theorem is for all values of the constants that meet the assumptions of
its module: any users, tokens, clients, workers, items and folders (finitely
many where they are counted), and any bounds. No invariant below is inductive
alone; what is added to it is where the argument lies. TLC has checked the added
invariants on the instances of the runs as well.

### SubscriptionsProofs.tla

Assumed: users are finitely many and `None` is not one of them, the bounds are
positive, dates are among the three kinds and none of these is `None`.

* `TypeCorrect`: one lemma per part of the next-state relation, one step per
  action.
* `ListedRegistered`, `ListedInOneRecord`: a thread holds a sink between taking
  it off the dict and unregistering it, and a POST holds one between registering
  and storing it. `ListingInv` says whom such a sink belongs to: what the request
  thread, the purger and the dicts hold is disjoint and registered, and a POST's
  id is listed nowhere before it is stored.
* `LiveConnected`: `ConnectionInv` adds that a Record is under one key, that
  Records not yet made are under none, and what the entries in the purger's list
  `purge` can still be when it comes to them.
* `ConnectionsKept`: a Record moves from its live key to a dangle key in two
  steps, and the purger removes others in between. `KeepingInv` says that no
  entry of `RECORDS` is overwritten: the live key a request is about to set is
  free, and so are the dangle keys above `RECORD_INDEX`. That there always is one
  is a count: every Record made is live, was put aside once, or is being moved.

Then what is said of steps, each an invariant and a lemma for each action under
it:

* `LifecycleImplemented`: `Spec => ImplementsLifecycle`. Each step maps to
  Register, List, TakeOff or Unregister of `SubscriptionLifecycle` or to a
  stutter. Beside `ListingInv` it takes that a sink about to be unregistered was
  listed once (`TakenHasOwner`).
* `OwnersOnly`: `OwnersInv` follows the Record that a request found, which may be
  moved and emptied before the request uses it: what is in it belongs to the
  request's user.
* `LapsedOnly`: what the purger has on its list of expired subscriptions was due
  when it looked, though it need not be any more.

### NotificationsProofs.tla

Assumed: the queue has room for one, subscriptions with a clientState are
subscriptions, and `None` is not a record.

* `TypeCorrect`, and `BatchKeepsOrder` (`BatchInOrder`), with lemmas on what
  removing and appending do to a sequence that has each record once.
* `NothingLostAlive`: as long as the processor lives, `NothingLost`.
* `NothingIsLost`: with the hypothesis `WithClientState = Subs` it always lives,
  and `NothingLost` holds without exception. The hypothesis is that of the run:
  for others the KeyError of `new_record` ends the thread, and what it had
  taken from the queue is lost.

### BatchProofs.tla

Assumed: `MaxRequests` is positive.

* `BatchIsSorted`: `SortedOrRefused` for a batch of any size. `Sorting` is the
  invariant of Kahn's algorithm: the table counts the dependencies that are not
  numbered yet, and a vertex with none is in the order or the queue, once. When
  the queue is empty and vertices are left, each of these has a dependency among
  them, and a finite set of that kind has a cycle.
* `FailureIsPassedOn`: `ExecutedAfterSuccess`, of what a request needs through
  any number of others but vertex 0. `Chain` is closed under edges, so
  whatever is processed without success has its dependents processed
  (`DependentsAreProcessed`), and none of them is executed later, as the order
  has them behind: what is executed has its direct dependencies executed and
  successful (`SucceededDirectly`), and the set of the latter is then one that
  `Needed`, a least set, is contained in.
* `BatchIsAnswered`: `EveryoneIsAnswered`; `Crash` is what is left when the ids
  are not those of the vertices, `CrashOnBody` when a response cannot be read.
* `TypeCorrect`.

### RestProofs.tla

Assumed: `MaxSessions` and `PurgeMax` are natural numbers, `Profiling` is a set
of booleans.

* `OwnSessions`: `HandlersWorkForTheirCaller`. `OwnerInv` says that a session is
  under keys of the caller it was made for, and in the hands of no other,
  through lookup, probe, replacement and the second try.
* `MetricsCorrect`: `MetricsAddUp`. That the gauges are the numbers of cached
  sessions needs that keys to come are free (`FreeInv`); `RoomInv` counts that
  a dangle key is left whenever one is needed.
* `StatusKept`: `ErrorsKeepTheirStatus`, from what each stage may have made of
  the request so far (`AnswerInv`).
* `TypeCorrect`: `RestTypeOK`, with `ConnectsInv` for the number of connects.

### DeltaProofs.tla

Assumed: clients and items are finite sets without `None`, old items are items,
`MaxChange` is a natural number.

* `MappingsStay`: `NoMappingLost`. `WriterInv`: who writes has the lock, and what
  it has read of the file is what the file still is.
* `ClientsTrack`: `ClientsTrackTheFolder`. The state of a request lies before
  the end of its stream, so the folder may be ahead of it. `Settled` says what
  is known of the items that have not changed since: each is among what is still
  to be streamed or was streamed as it is, or the filter hid it, or the client
  knows it already.
* `TypeCorrect`.

### MfrProofs.tla

Assumed: workers are finitely many and `None` is not one of them, the metrics
process and those that may hang are workers.

* `NobodyLeftBehind`: `NobodyIsLeftBehind` for any number of workers: whom the
  master has gone past in its last round has exited, exited processes do not
  start again, and SIGTERM cannot end a master that is shutting down. A master
  that blocks in the exit queue, or that a SIGINT threw out, does not get as far.
* `TypeCorrect`.

### ItemsProofs.tla

Assumed: the numbers of ids and DELETEs are natural, folders are finitely many
and none is called like a well-known one, and a budget does not ask for more
than there are ids for.

* `SentIsTrue` (`WhatIsSentIsTrue`), `SentOnlyOnce` (`SentOnce`),
  `AnswersNameTheFolder` (`AnswerNamesTheFolder`), `CanceledFirst`
  (`OrganizerCancelsFirst`) and `TypeCorrect` follow from one invariant,
  `ItemsInv`. Its parts: ids that were not given out are known to nobody
  and suffice for what may be made; a request has an item of its kind, or
  one that is gone; a POST has done to its event what its place says; one sendMail
  at a time is under way, and nothing was sent before its client was told
  so; who finds an event before its POST is through is `early`; a DELETE by the
  owner has canceled before it deletes; and a folder nobody else touched
  is as its request left it.
* Workers interfere in all of these. `Proper` says what any step leaves alone:
  items keep what was set, histories grow, letters are true, other requests stay
  where they are. Each action is shown to be proper once, and each part of the
  invariant to survive a proper step.
* Folders form a tree, and `Tree` is a least set: that it is closed, and that
  removing it leaves a tree, are lemmas of their own.

### PagingProofs.tla

Assumed: items are finitely many, page sizes are positive, those of the LDAP
server as well, and the default is one of them, and a client follows more links
than there are items before it gives up.

* `PagesAreListed`: `PagesAreTheListing`. A client goes on with the list and the
  options it started with, up to what the links of the LDAP backend drop
  (`SameQuery`), and what it has of a list at rest is the list up to `$skip`
  (`ListIsPassed`). Rows that arrive move the others towards the end, of a
  filtered list too (`SelectionGrows`), so what stayed and was passed is got
  (`NoneIsHidden`).
* `PagingComesToAnEnd`: `PagingEnds`. Every page moves `$skip` on by one at least,
  and there is one after it only if it was not past all rows (`PagesMoveOn`).
* The LDAP backend's page is shown to be `$skip` and `$top` of the list when it
  leaves nobody out, and never to be longer (`LdapPageIsWindow`,
  `LdapPageIsShort`).
* `TypeCorrect`, which has the length of the pages.

### Only model-checked

All liveness properties (`RequestsAreAnswered`, `ExpiredArePurgedByLivePurger`,
`EverythingIsPosted`, `StaleArePurged`, `EveryRequestIsAnswered`,
`ClientsCatchUp`, `BrokenWorkersExit`, `EveryShutdownEnds`), which need fairness
and ENABLED, out of the provers' reach.

## What is not modelled

* Other backends, schemas, languages, program start: adapters and conversions
  without state, as `PROJECT.json` says for each. That the MAPI errors of the
  other backends have no handler of their own is what "other" stands for.
* Of requests, which path leads to which resource, request ids and headers; a
  batch's requests are in Rest as requests like any other, not as part of the
  one that carries them.
* Of lists, `$top=0`, `$select` and `$expand`; of events, accept and decline
  (one call of the library each), getSchedule, reminders and recurrence; of
  folders, the delta of the hierarchy; photos.
* Basic authentication: it caches nothing and its Record is seen by one request.
* The contents of answers, notifications and metrics; durations, apart from the
  order they force; the retries of HTTP libraries.
* A worker killed in the middle of a write of `mapping_db`: what is left of the
  file is undefined.

## Plan

1. Done: Subscriptions with its life cycle and proofs, Notifications, Batch,
   SessionCache with Rest, Mfr, Delta, Paging, Items.
2. An abstract specification of the webhook service (a change of a subscribed
   folder is posted) that Subscriptions and Notifications implement together.
3. `parse_accept_language` as an algorithm against its definition; accept and
   decline of events; the delta of folders.
4. Done: all safety properties and action properties of the runs proved, and the
   refinement of SubscriptionLifecycle.
5. Proofs about what 2 adds.
