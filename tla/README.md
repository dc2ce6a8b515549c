# Verification of MicroFox

TLA+ models of the parts of MicroFox where several threads, nodes or nested
calls share state, TLC runs that check them on small instances, and TLAPS
proofs of the most important results for every instance. Paths below are
relative to `src/`; `.../` stands for `src/main/java/ir/moke/microfox/`.

## Inventory

MicroFox is a set of small Java modules behind one static facade
(`microfox-core/.../MicroFox.java`). Each module has a provider found through
`ServiceLoader`, most keep a static map from an *identity* to a connection, and
they interact through the facade only: the entity manager filter of the HTTP
module calls the JPA module, the distributed job delegate calls the Redis
module, the rest stand alone. Statics shared by request threads, scheduler
threads and callbacks of client libraries are where the difficulty is.

| Component | State | Operations | What is hard | What makes it correct |
|---|---|---|---|---|
| job: `LocalDelegateJob` | static map job key -> `ReentrantLock` | `execute` on Quartz worker threads | lookup, `tryLock`, `unlock` and map removal are separate steps | no overlap, no leak of locks, no lost firing |
| job: `DistributedDelegateJob` | Redisson lock per job, renewed lease | `execute` on workers of several nodes | node crashes, lost leases and answers, failing `unlock` | covered runs exclude each other, a lock nobody uses becomes free |
| job: `JobProviderImpl`, `TaskRegistry` | Quartz store, map job key -> task | three registrations, delete, trigger, pause, resume, and both for all | two stores changed in separate steps while workers fire | a scheduled job has its own task |
| jpa: `Jpa`, `JpaProviderImpl`, `JpaFactory` | scoped value with a map identity -> entity manager, entity managers, transactions | five transaction policies, `rollback`, `openEntityManager`, registration | nesting, exceptions at any depth, asynchronous requests | transactions are atomic and end with their owner; nothing stays open |
| jms: `JmsConsumerController` | list of contexts, flag `running`, one scheduler thread | rounds, exception callback, `stop`, `close` | callbacks and calls during a round | as many consumers as configured, none after close |
| jms: `JmsProviderImpl`, `JmsFactory` | maps of controllers, of producer contexts, of connection infos | produce, consume, stop, unregister, shutdown | check-then-act on the maps, a context shared by producers | one controller per identity, no context lost or used after close |
| http: SSE (`SseInfo`, `SseSubscriber`, `BaseServlet.handleSse`) | set of `SseInfo`, their publishers, subscriptions | register, unregister, publish, handshake, delivery | unregistration during a handshake, slow and breaking connections | every connection gets all events, in order, and ends |
| http: registries and pipeline (`ResourceHolder`, `HttpHelper`, `BaseFilter`, `SecurityFilter`, `BaseServlet`) | sets of routes and securities, list of filters | add, remove and sort, a request through filters and route | registries change during requests; two look-ups; nested chain; failing mappers | every registered filter runs, what is served was checked, every request ends |
| http: `HttpContainer` | Jetty server | start, stop | a second start waits behind the first, which stays in `Server.join` | started once |
| http: binding (`BeanParamBinder`, `RequestProxy`, `RestRouter`) | none | bind parameters, forward calls | nested names and indexes | each parameter lands where its name says |
| kafka: producers and consumers | per factory a map of configs and one of clients | register, send, transactions, listen, commit, unregister | plain maps changed by several threads, a listener that polls while others close | no open client is lost, a closed consumer's listener ends |
| kafka: streams | maps of configs, streams, states | register, start, close | - | (no stream can be started) |
| redis, mongodb, http-client, mybatis | map identity -> client or session factory | register, get, unregister, run in a session | replaced while used, partial updates | one live client per identity |
| ftp, sftp | none | connect, transfer, disconnect | failures between the steps | the connection ends on every path |
| health-check, metrics, groovy, elastic, openapi, logger | little or none | delegation to libraries | evaluated twice (health), caches | - |
| core: `MicroFox`, `MicroFoxEnvironment` | providers, environment map | forwarding, loading | static initialisers | - |

The hazards of all these parts, each at its line, are listed in `PROJECT.json`
with the properties that cover them or a note.

## Plan

Done, in this order:

1. `LocalDelegateJob`.
2. `JobExclusion` (abstract) and `DistributedDelegateJob`, which implements it.
3. `JobScheduler`: the provider over the Quartz store.
4. `JpaTransactions`: the policies and the request scope.
5. `JmsConsumerController`.
6. `SseBroker`.
7. `HttpPipeline`: filters, routes and a request through them.
8. `JmsProvider`: the maps around the controllers and the producer contexts.
9. `KafkaClients`: the producer and consumer registries and handlers.
10. Proofs, one `...Proofs` module for each of these; `JmsProofs` has those of
    both JMS modules, and the two refinements of `JobExclusion` are with the delegates.
11. `Broadcast` (abstract: one log per publisher, one cursor per connection),
    which `SseBroker` is proved to implement.

Next, the most important first:

12. `ClientRegistry`: redis, mongodb, http-client, mybatis; `FtpSession`.
13. `JpaUnits` (registration, timeout), `BeanBinding` (pure functions checked
    against a reference definition), health checks.
14. Composition: a controller state machine that `JmsConsumerController`
    implements, inside `JmsProvider`; `LocalDelegateJob`'s lock in place of the
    perfect lock of `JobScheduler`.

## Conventions

One module per component; `MC...` modules instantiate them for TLC and hold
only symmetry sets and bounds. An operator whose comment says *Mutated form* is
not part of the specification: it is the code with a plausible bug, and the
mutants in `PROJECT.json` put it in the place of the real definition to show
that a property notices. Variables marked `history` do not influence any step.
Identities, tasks, events and writes are model values: the code only compares
and stores them. Every module with proofs ends with its inductive invariant
`IInv`, which has the type invariant `TypeOK` as a conjunct; the run checks
`IInv` in its place, so that TLC confirms the strengthening before it is proved.

## Modules

### LocalDelegateJob

`pc[t]` is the place of a worker thread in `LocalDelegateJob.execute`; `locks`
is the static `ConcurrentHashMap`, `owner` the holder of each lock, `key` and
`lock` the locals. `ComputeIfAbsent`, `Acquire`/`Skip`, `TaskEnds`, `Unlock`
and `RemoveLock` are the atomic steps: one access to the map or to one lock.
`TaskEnds` covers a task that returns, one that throws and a registry that no
longer has it: all three lead to the `finally` block.

`locks.remove(jobKey, lock)` after `lock.unlock()` leaves a window: another
firing can take the lock in between and go on with a lock that is dropped from
the map. `MutualExclusion` is violated (run `local_delegate_exclusion`); what
does hold is `NoLockLeak`, `SkippedOnlyWhileHeld` and `ImplementsExclusion`: with the runs on the lock that the map has for their job as
the covered ones, the delegate implements `JobExclusion`. A run that loses its
entry is not covered from then on, and never again. Three threads are the least for the overlap (one
that unlocks, one that takes over, one with the new lock), and two keys make
mix-ups of entries possible. `LockIds` has one name more than threads; a
name nobody refers to stands for a new object. `NeverStaysLocked` needs weak
fairness of each thread's steps: worker threads are scheduled and tasks end.

### JobExclusion, DistributedDelegateJob

`JobExclusion` says what a lock promises: at most one *covered* run per job. Both
delegates implement it, each for the runs its lock can know of.
`DistributedDelegateJob` adds the Redis lock: `holder` and `holds` are its
fields, `renewals` counts the unlocks after which the watchdog of the holder's process
stops, `lapsed` the workers whose lease ended during
their run. Those are not covered; with that mapping it implements
`JobExclusion` (`ImplementsExclusion`). `isHeldByCurrentThread` and `unlock` are two calls to
Redis and so two steps (`CheckHeld`, `Unlock`); each of them may throw, as may `tryLock`
(`CheckHeldFails`, `UnlockFails`, `TryLockThrows`). External assumptions: `tryLock` with a
wait time only takes a lease that the watchdog renews; a lease nobody renews
expires; `unlock` by a thread that does not hold the lock throws and changes
nothing, and one that does not reach Redis still lets the watchdog count one lock less;
the lock is reentrant for a thread of one client, and a restarted
process is another client (`DeadClient`). `TryLockThrows` covers a command
that was executed although its answer was lost, and one whose answer came after the
thread was interrupted, so that the watchdog renews it.

A lock becomes free whatever fails, with two exceptions, which `orphaned` names: when
`isHeldByCurrentThread` throws, nobody calls `unlock` and the watchdog goes on; when `tryLock` is
interrupted, nobody knows of the lock it got. Both are renewed for as long as the
process lives. `LeftoverLockFreed` holds for all others.

Two nodes with two workers give contention within a node and between nodes;
`MaxHolds = 3` lets a worker meet its own leftover lock twice; crashes and
expirations are not bounded. Weak fairness of the workers' steps and of `LeaseExpires`: Redis's
clock runs. Nothing forces a crash, a lost answer or a firing.

### JobScheduler

One action per access to a store: `CheckExists`, `PutTask`, `BuildTriggers`,
`Schedule` (or `ScheduleCron` and `ScheduleOnce`), `UnscheduleTrigger` and `Unschedule`
(Quartz takes the triggers of a deleted job away one by one, then the job), `RemoveTask`,
`ResumeAll`, `RemoveAllTasks`, and the one-access operations `JobTrigger`,
`PauseJob`, `ResumeJob`, `PauseAllJob`. `detail`, `trig` and `groupPaused` are the
Quartz store, `tasks` is `TaskRegistry`. `Fire`, `RunTask` and `Complete` are the
scheduler thread, a worker and the completion: a job whose last trigger goes
is dropped, because it is not durable. The delegate's lock is perfect here and
its key contains the type, as in the code. Quartz reads a missing
`allowConcurrent` of a detail as false. Any call may end at any access to Quartz with an
exception (`QuartzThrows`), and what it has done before stays done.

`contended` holds the keys on which a registration overlapped another call, and
`cleared` those scheduled when `removeAll` ran. Outside them the registry and the store
agree (`RegistryMatchesSchedule`), also between the two steps of a deletion: inside them a registration that `scheduleJob`
refuses may have replaced the task of the accepted one, and after
`resumeAllJob` every job scheduled at that moment fires without a task. The combined
registration stores its job twice, with two types and so two lock keys, which
lets its firings overlap. One run shows what the code does not keep:
`jobDelete(name)` looks in another group than `job(task, name, ...)` used. Two
callers (each with one task), one name with and without group, and one worker
are the least that show each.

### JpaTransactions

A frame of `stack` is a call whose consumer runs; `scope` is the map the scoped
value is bound to inside it. Every policy pushes an owner (a new entity
manager) or a guest (the caller's), and the ends of a call are separate
actions for a return, an exception and an `Error`, which no catch block of `Jpa` sees. `DieOwner`
therefore leaves a transaction to its closing entity manager, and
`abandoned` records the entity managers no call is going to close. A commit that
fails has rolled back. An exception may be caught at any level of the nest, or not.
`made` are the writes of a behaviour, and `decider` the depth of the call that a write is
up to: the nearest one around it that works on an entity manager of its own. It is a history
that follows the nesting of calls, not the transactions, so that `AllOrNothing` can compare
the two: a write gets into the database only in the step that ends its decider, and with
all other writes of that decider.

Depth three is what the property about hidden bindings needs (outer transaction, binding of another
identity, inner call); five entity managers cover three frames and the
asynchronous requests of two more; two identities; two writes
distinguish an inner from an outer one; one `Error`. `NOT_SUPPORTED` runs in the caller's
transaction (the violation run), and `NEVER`, like the other policies, sees only the
innermost binding, which may hide a transaction further out. Deadlock is checked.

### JmsConsumerController

Definitions whose names `JmsProvider` has too carry `Controller` in their names
(`ControllerSpec`, `ControllerIInv`), so that `JmsProofs` can extend both modules.
`task` is the place of the scheduler thread in `ensureConsumerIsRunning`,
`handler` that of the exception callback per context, `caller` that of `stop`
and `close`. A round looks at `running` once, at its start. `Break` is a
broken connection reported by the provider, possible for every context in `listens`:
`Listen` sets the exception listener before `Setup` makes the consumer, so a context whose setup
failed may still be reported and removed. Any call on a context may throw. A close that
fails is logged and no more (`CloseOrLog`): the context is dropped from the list, and `unclosed`
sets it aside in the properties. `forEach` of the `CopyOnWriteArrayList` walks over a snapshot (`rest`);
`JMSContext.stop` throws on a closed context (external assumption, from the JMS
API's `IllegalStateRuntimeException`), which ends `stop`, and `close` with it. `close`
after a thrown one is possible again.

Five contexts allow a concurrency of two with three failures. The controller
stops for good after `close`, so deadlock is not checked. Fairness: the
executor's thread, a running callback and a call under way make progress.
A context whose setup or start failed stays listed and is not replaced as long as its
connection holds, the one exception of `ConsumersRunAgain`; a round under way may start its context after `stop`,
and `AtMostOneEscapes` says that it is no more than one.

### SseBroker, Broadcast

One identity. `listed` is its entry in `SSE_LIST`, `publisher` the field of each
`SseInfo`. A caller goes through `FindSse`, `ClosePublisher` and `RemoveSse` in
`sseUnregister`, and through `Publish`, `Submit`, one `Offer` per
subscriber and `SubmitReturns` in `ssePublisher`. A request goes through
`Connect`, `GetPublisher`, `CheckClosed`, `Replace` and `Subscribe` in
`handleSse`, and `OnNext` and `OnComplete` are its `SseSubscriber`.
The `SubmissionPublisher` is external: a buffer of `Capacity` events per subscription, a
`submit` that waits for room under the publisher's lock, `close` and
`subscribe` that need the same lock, completion after the last buffered event.

A failing write does not end a connection: `HttpHelper.sendResponse` catches the `IOException`
and logs it, `sse` returns as usual and `onNext` requests the next event. So `SendResponse`
either writes the event or loses it (`NoEvent` in `received`), and the subscription goes on. What
else `onNext` throws, a failing flush for one, ends it (`broken`).

`missed` are the requests whose handshake overlaps an unregistration: their
subscription may be on a publisher that is off the list. For the others
`OpenIsReachable` holds: the publisher of an open connection is listed, or it is closed. `NothingLost`
relates each connection to the history `sent` of its publisher: every event since it
subscribed was handed to it in its turn or waits, and only its own failed write keeps one from it.

`Broadcast` is the promise without handshakes, locks and buffers: a publisher has a
log that can be closed, a reader is handed the log event by event from where it subscribed
(`Receive`, or `Lose` where the write fails), and is
completed only when the log is closed and read to its end, unless its connection breaks
while there is something to write. `ImplementsBroadcast` maps `sent`, `start` and `received` to
log, starting points and what readers got; a request is a new reader until
`Subscribe`, and `broken` tells an exception of `onNext` from a completion. The abstract
`Receive`, `Lose`, `Complete` and `Break` are the ends of buffered deliveries, and
`Offer`, `Submit` and the handshake are stutters.

Capacity one with two
events makes a submit wait; two clients race for the replacement of a
publisher; publishers are enough for every registration and every
replacement of the instance. The system may end with every object used, so
deadlock is not checked. No liveness is claimed: that
`ssePublisher` returns depends on the slowest client, and the code sets no time limit
on a write.

### HttpPipeline

`request[r]` is a thread of the container: the scan of `findMatchingFilterInfo`
(`Arrive`, `Visit`, `ScanThrows`, `SortFilters`), the nested frames of
`applyFilter` (`index` counts them, `guard` is the one inside the `try` of
`applySecurity`), the servlet (`Service`, `Handle`), `handleExceptionMapper`
(`Mapped`, `InternalServerErrorThrows`, `MapperThrows`) and the way back out
(`Unwind`, `Raise`, `Answered`, `Fail`). `change[c]` is a caller that registers,
removes or sorts. What filters, strategies, routes and mappers of the
application do is open: return, end the request, throw an exception or an error. Filters
and routes have the response, and any of them may take its writer (`Writing`), on the way in or
out, whether it returns or throws; from then on nothing else can answer through the output
stream. A mapper that throws is answered by another call made inside the `catch` of the
first, so a failure of the innermost call, the end of the stack included, leaves all of
them at once (`Escapes`).
The registries' operators are relations with one result, so that they can be proved
about: `FirstMatch(x)` says that `x` is what `findFirst` returns, `Kept` is a set of one
sequence, given by an order-preserving numbering of positions. `SortFilters` puts the list in
order, except while `filterSort` renumbers the filters under it: then any order may come out, or
`List.sort` throws.

`FILTERS` is an `ArrayList` without a lock: `AddFilter` reads the position and
`StoreFilter` stores, `RemoveFilter` marks and `CompactFilters` moves the rest up, so two
callers may lose each other's filter or leave a null, and a scan may throw or
go on over a list that has changed. A filter without category makes
`removeFilter` throw, and `filterSort` with half of its order applied.
`EveryFilterRuns` says what remains: a matching filter that was listed all through the
scan has run before the servlet is called, except when a removal moved the list under the
cursor. `FailuresAreMapped` lists every failure that reaches the container: a filter's exception
does unless it is thrown inside a `SecurityFilter` that has found a route, and inside both,
should a scan over a changing list have met that filter twice (`Guarded`). A refusal, a guarded exception
and an exception of the route do where `handleExceptionMapper` itself fails: after
somebody took the writer, or at the end of the stack.

`removeRoute(category)` streams over the concurrent set while others change it:
`MeetRoute` comes to any route of the category that is there at that moment, newcomers included, and
`RemoveNext` takes away whatever then has its path and method; it ends once nothing of the category
is left of what was there all the time (`lasting`). `OthersKeepTheirRoutes` holds for the lasting
routes of other categories. It cannot hold for a route that came, or was put back, during the
call: that one may have the path and method of a route the traversal has met.
`ServedAsChecked` relates the two look-ups of the route. `EveryRequestEnds` needs weak fairness of a
request's thread and, as the code does, that the code of the application returns or throws.

One request suffices for every property, since requests share nothing but the
registries. `MaxChanges = 6` bounds the sum of what the calls cost, three for one on the filters
and two for one on the routes: two changes of the list give its races, and three of the
routes let two others take place beside a removal by category, a route removed and an old one
put back on its path and method. Four filters
(security, one without a category, two of one category, one of which does not match)
and four routes (two of one key, one of another path, one of another method);
two nested mapper calls (`Stack = 1`) stand for a stack. Abstractions: a look-up in `ROUTES`
is one step over some order of the set, which a rehash may change; the growth
of the `ArrayList` is atomic; securities are the choice of `ApplySecurity`; a mapper for
`StackOverflowError` is not registered; methods that `HttpMethod` does not know are left out.

### JmsProvider

`call[c]` is the place of a caller in `produce`, `consume`, `stop`,
`unregister`, `shutdown` or `JmsFactory.register`, one action per access to `PRODUCER_CONTEXT_MAP`
(`mapped`), `CONSUMER_CONTROLLERS` (`registered`) or the info list, and per
call on a context. `infoList` keeps the identity an info was hashed by,
because `register` changes the identity of the object before it refuses it. The list is
a plain `HashSet`: while another call is at it, an access may miss an info, throw a
`ConcurrentModificationException` or lose its change (`Racing`). A
controller is running, stopped or closed; its `stop` and `close` may throw, as
`JmsConsumerController` shows. `removeIf` is one step per controller.

`crowded`, `doubled`, `late` and `reused` name the overlaps under which the
code does lose a context or a controller or makes two; everywhere else
`NoLeakAlone`, `RunningIsReachable` and `OneController` hold, through broken
connections and closes that throw half way. Two callers make every overlap of two calls;
five calls let a context be made, broken, replaced and hidden; three contexts and two controllers
are the most those calls need at a time (a call that finds none unused waits). No liveness: every call is a
finite sequence of steps.

### KafkaClients

The two factories have the same shape, so one module has both: `configs` and `mapped` are
`CONFIGS` and `PRODUCERS`/`CONSUMERS`, whose identities are two disjoint sets. `Get` and
`ComputeIfAbsent`/`Insert` are `get`: the maps are `HashMap`s, and an
insertion after another change throws or loses one of the two writes
(`stale`). `Send` closes the cached producer at the end of its `try`, so the
next send of the identity, or the commit of its transaction, fails until it is unregistered.
A listener goes through `Subscribe`, `IsExists` (which makes a new
consumer when the identity was registered again), `Poll`, `PollEnds` and
`Deliver`; the listener may close its own consumer (`CloseInListener`).
External: a consumer refuses a second thread; `wakeup` makes the present or the next blocking call
throw, once; a poll ends after its timeout.

`close` throws while the listener polls, and the consumer stays open
(`lost`), yet `ListenEnds` shows that the wakeup ends the listener, also when the identity
is registered again at once; only a commit or a second listener
that takes the wakeup prevents it (`robbed`). It assumes weak
fairness of each thread: a poll returns and the listener's code ends. Three callers are
needed for a listener, a commit and a close; five calls let the
identity be registered again after that; two clients are the replaced and the new one.
`batchSend` is left out: the handler reads its arguments in another order than the interface
declares them and always throws before it reaches the factory. `closeAll` has no caller.

## Runs

| Run | Shows |
|---|---|
| `local_delegate` | the lock map neither leaks nor skips a firing for a stale lock; runs on the mapped lock exclude each other; a job never stays locked |
| `local_delegate_exclusion` | violation: two runs of one job overlap |
| `distributed_delegate` | covered runs exclude each other; leftover locks become free, but for those a failed check leaves renewed |
| `scheduler` | registry and schedule agree wherever no calls overlapped |
| `scheduler_delete_by_name` | violation: `jobDelete(name)` leaves the job of `job(task, name, ...)` |
| `jpa` | writes reach the database with the call that decides about them, nothing left behind, no closed entity manager in a body |
| `jpa_not_supported` | violation: a `NOT_SUPPORTED` body runs in its caller's transaction |
| `jms_consumer` | never too many consumers, all run again after failures, at most one context escapes `stop` and `close` |
| `jms_provider` | contexts are not leaked, running controllers are reachable, one controller per identity, outside overlaps |
| `http_pipeline` | filters are not passed over, checked routes are served, a removal spares other routes, failures are mapped, requests end |
| `kafka` | open clients are reachable, unregistered ones gone, listeners end |
| `sse` | the broker implements the broadcast: all events, in order and to the end, but for failed writes; open connections are reachable |

## Proofs

`LocalDelegateJobProofs` proves, for all sets of threads, jobs and lock objects
and from the one assumption that the null values are not members of them:

- `Invariance`: `Spec => []IInv`. `IInv` joins the type invariant with
  `HolderRuns` (a held lock is the one its holder refers to, and the holder is in the
  guarded part), `FrameInv` (what a thread refers to at each label),
  `OneJobPerLock` (threads and map entries that share a lock share the job) and
  `NoLockLeak`. None of the properties is inductive alone: a step that drops a thread's reference
  keeps `NoLockLeak` only because the entry it leaves is some other thread's,
  which takes `HolderRuns` and `OneJobPerLock` to see.
- `TypeCorrect`, `LockMapDoesNotLeak` and `MappedLockExcludes` follow from `IInv`.
- `MappedRunsExclude`: `Spec => ImplementsExclusion`. `Acquire` starts a covered run when its lock is
  the mapped one; `IInv` says that another covered run of the job would hold the same lock, which is
  free. It starts none, and ends none, when its lock is stale. `RemoveLock` ends the coverage of
  whoever took the lock meanwhile, and `ComputeIfAbsent` covers nobody anew: the new object
  it puts into the map is one that no thread refers to.
- `SkipsAreJustified` is an action property: one
  case per action, from `IInv` in the state before the step.

There is one lemma per action, each with one step per conjunct.

`DistributedDelegateJobProofs` takes any nodes, workers, jobs and number of
holds, and assumes of the constants that the two special clients are different
and no workers.

- `LeasesFit`: `Spec => []IInv`. Besides types, `IInv` has `FrameInv` (what a worker refers
  to at each label), `LeaseInv` (a worker that has locked its job holds the
  lock in Redis exactly when its lease did not expire meanwhile), `HoldsInv` (a lock
  has holds exactly while it has a holder, and the last one only in a run) and `WatchdogInv` (the
  watchdog counts the one lock of the run under way, apart from orphaned ones).
- `RunsExclude`: `Spec => ImplementsExclusion`, the refinement of `JobExclusion`. Initial
  states map to initial states; each action is a `Start`, an `End` or a stutter
  of the abstract specification: acquiring starts a covered run, and `LeaseInv` says that
  no other run of the job is covered then.
- `OnlyHoldersRelease`: the action property, one case per action that changes a holder.

`JobSchedulerProofs` takes any callers, workers, names and groups.

- `RegistryFits`: `Spec => []IInv`. `RegistryMatchesSchedule` is not inductive: a
  registration puts its task before it schedules. `OverlapInv` says that
  two calls with a common key, one of them a registration, have it in `contended`;
  `StageInv` says what a call knows of a key it has alone: from its look at the scheduler
  on the key is free, from `PutTask` on the registry has its task, and a deletion
  that has unscheduled the job still finds the key free when it goes on to the
  registry.
- `RegistryMatchesAlways` is a conjunct of it. `OthersStay` covers the other
  calls of every step of a call once, `SchedulerStep` all steps of workers, pausing
  and resuming, by which a job may go but none may come.

`JpaTransactionsProofs` takes any identities, entity managers, writes and any
depth of nesting.

- `NestingFits`: `Spec => []IInv`: `WriteInv` (a write is pending in
  one transaction at most, an active one), `DeciderInv` (a call decides about the writes pending in
  its own transaction), `NearestInv` (what a call sees is the entity manager of the nearest
  owner around it, and it works with that one or none), `OwnerInv` (an entity
  manager has one owner, active only if its policy begins a
  transaction, and no frame has that of an asynchronous request), `ScopeInv` (what a
  frame gets and sees is owned by it or by one around it), `BindingInv` (the entity manager of an
  owner stays visible through the calls that joined it), and three of the properties,
  which are inductive only together with these.
- `AllOrNothingAlways`, `NothingLeftBehindAlways`, `EmOfBodyIsOpenAlways`,
  `NestsOnlyOnPurpose`. The argument is the same for each: a call ends only at the top of the stack, so the
  owner of what a body below uses is still there. For `AllOrNothingAlways`, an action property, the
  commit empties the transaction's pending writes into the database; `DeciderInv` says that these are
  the writes its call decides about, which takes `NearestInv` where a call that joined writes.

`JmsProofs` takes, for `JmsProvider`, any callers, identities, infos, contexts and controllers, and any
number of calls and failures.

- `ProviderFits`: `Spec => []IInv`: `CallInv` (what a call refers to at each label),
  `OverlapInv` (two calls that overlap on an identity are noted in `crowded`, `doubled`
  or `late`), `ContextInv` (outside `crowded`, a producer context is mapped, about to be
  put, about to be closed, or closed), `ShutdownInv` (what a shutdown has passed no
  longer runs) and `ConsumeInv` (outside `doubled`, a consume past its look-up is the only
  one of its identity).
- `RunningIsReachableAlways`, `OneControllerAlways`, `NothingLeaksAlone`.

For `JmsConsumerController` it takes any contexts, any concurrency and any number of
failures.

- `ControllerFits`: `ControllerSpec => []ControllerIInv`: `RoundInv` (a round that began has room for its
  context), `ListInv` (an open context is listed, or in the hands of the round, unless its close failed), `UsedInv`,
  `SnapshotInv` (what stop or close has not reached, beyond its snapshot, is one
  context at most, and none while the round may still make one).
- `NeverTooManyConsumers`: the open contexts are listed members or the one of the round, and a list has
  no more members than places (`ListedBound`, by a surjection). `AtMostOneEscapesAlways`.

`SseBrokerProofs` takes any callers, requests, publishers and events and any capacity
of at least one.

- `BrokerFits`: `Spec => []IInv`. `FitInv` and `OfferInv` say what labels mean: a
  submit holds the lock of its publisher and the publisher is open. `DeliveryInv` is
  `NothingLost` element by element: positions and lengths, a failed write at its place, with one event
  less for a connection that the offer has not reached. `UnregisterInv` and `RequestInv` carry
  reachability: an undisturbed request holds the listed entry and its publisher,
  a closed publisher is seen on the list only while its removal is under way,
  and what is about to be removed has no undisturbed request that is not closed.
- `NothingLostEver` joins the elements to the sequence, `OpenIsReachableAlways` and
  the action property `CompletesAfterLastEventAlways` (a connection that `onNext`'s
  exceptions did not end was handed all that its publisher had sent) follow from `IInv`.
- `BroadcastImplemented`: `Spec => ImplementsBroadcast`, one lemma per action that
  is not a stutter. `DeliveryInv` does the work: the head of a buffer is the event
  of the log at the reader's cursor, written or lost, and an empty buffer at a closed publisher
  means that the cursor is at the end.

`HttpPipelineProofs` takes any requests, callers, filters, routes and strategies, any depth of
nested mapper calls and any number of changes. Assumed: what is registered at the start is
registered once, the way the module's own operations would leave it.

- `PipelineFits`: `Spec => []IInv`. `ListInv` (a filter is listed once, and not yet while
  it is being added) and `CategoryInv` (what lasts is registered, and the key a removal by category goes after is
  that of no lasting route of another category) are about the registries. `RequestInv` has, per request,
  `ScanFits` (a filter that stayed is in the chain or ahead of the cursor, unless the list was
  moved under it), `GuardFits` (the active `try` belongs to a security filter on the stack, and
  there is one when a route was found and none of them has returned), `RaiseFits`
  (where an exception on its way up came from, and what will catch it) and `CheckFits` (what the security
  filter found is what the servlet would find now, unless routes changed).
- `EveryFilterRunsAlways` needs `ScanFits` through `SortFilters`: sorting, even by numbers that
  change under it, only moves positions (`Orders`); that a removal loses nothing else is
  `KeptElements`, from the numbering of positions and without an induction.
- `FailuresAreMappedAlways` is a conjunct of `RaiseFits`, inductive only with `GuardFits`.
  `WritingFits` covers the writer, which any filter or route may take, once.
- `ServedAsCheckedAlways` joins two states of a request: `CheckFits` at `Service`, and
  `FirstMatchUnique` because both look-ups are functions of `ROUTES`.
- `OthersKeepTheirRoutesAlways`: `CategoryInv` before the step of `RemoveNext`. It needs that a
  newcomer with the path and method of a lasting route is refused (`AddRoute`).

The proof attempt showed that an earlier form of `FailuresAreMapped`, which took a request to
have one security filter, is false with three changes: removed and registered again during
one scan, that filter is listed twice. A run with two changes of the list does not reach that.

`KafkaClientsProofs` proves, for all sets of callers, identities and clients and
every number of calls, from `ConstantsAssumption` (producers and consumers have different
identities, the null values are none of the members):

- `CallsFit`: `Spec => []IInv`, the type invariant and `CallInv`, which says what a call
  refers to at each label: a client about to be inserted was made and its place
  is free unless the map has changed since, a get under way has a config
  unless an unregistration overlapped it.
- `UnregisteredIsGoneAlways` and `ClientsAreReachableAlways`. Both are conjuncts of the
  inductive invariant `Inv`: an insertion keeps the first because of the configs in
  `CallInv`, and the second because it overwrites a client only when `stale` says so.

Most steps of a call touch neither the maps nor a client's state; `OtherStep` covers
them once, `ChangingCalls` the effect of a change on the other calls, `ClosingStep` the two
places that close a client. The fairness of `Spec` is not used.

Only model-checked:

- the liveness properties `NeverStaysLocked`, `LeftoverLockFreed`,
  `ClosedContextLeaves`, `ConsumersRunAgain`, `ListenEnds` and `EveryRequestEnds`: liveness under
  fairness and `ENABLED` are out of the provers' reach;
- the properties of the runs that expect a violation.

## Not modelled

`PROJECT.json` lists every component with its status. Left out for good:
pure delegation without state (elastic, openapi, metrics, repositories of
jpa), layout and logging, and protocols (FTP, HTTP, Jetty, Logback, Groovy's compiler).
Left for the planned modules: what the plan above names. Streams of Kafka: their handler looks the
streams up before anything has put them, so nothing can be started. Inside the modelled
parts: the invalid cron expression is a path of `BuildTriggers`, but a timeout that does not parse,
two SSE identities on one path, `closeAllSse`, changes of the security and websocket lists
and the broker's side of a Kafka transaction are left out.
