# dbwarden-fastapi: specifications

TLA+ modules beside `src/dbwarden_fastapi`: what the library does to the
databases of a FastAPI application, to the engines it caches and to the lock
that keeps migrations apart, what its routes and gauges say of them, and what its test
helpers leave behind. The modules are model-checked with TLC on small instances
and their safety properties proved with TLAPS for instances of every size.
`PROJECT.json` lists the runs, the mutants every property must catch, the source
lines each definition stands for, findings, hazards and theorems.

## The system

`dbwarden-fastapi` is a library: it has no process of its own. A server (uvicorn)
runs an application on one event loop; synchronous dependencies run in a thread
pool; several such processes may share the databases and a Redis. Migrations
themselves, the configuration and the advisory `check_lock` belong to the core
package `dbwarden`, which is not in the repository.

| Component (source) | State | Operations | Correct when |
|---|---|---|---|
| Engine caches (`engines.py`, `session.py`) | three dicts of session factories, `_LOCK`, `_SESSION_LOCK`; the pools behind the factories | `session_factory`, `sync_session_factory`, `get_session`, `get_tenant_session`, `dispose_engines` | lookups of one URL share one engine; a tenant never gets another's credentials; a detached engine is never handed out by a cache; a shutdown leaves no engine out |
| ClickHouse clients (`engines.py`, `__init__.py`) | two dicts of clients, no lock | asynchronous and synchronous dependencies, `dispose_engines` | a request gets a client of its database; one client is shared |
| Migration lock (`lock.py`) | a Redis key with a token and an expiry; a token per session | `migration_lock`, `sync_migration_lock` | one migration at a time, as long as migrations keep to their ttl; nothing blocks for ever |
| Lifespan (`lifespan.py`, `context.py`) | the migration task and its thread, the metrics refresher | startup modes check, migrate, none; background migration; readiness gate; seeds; warm-up; shutdown | serves only what it promised to migrate; migrates only where allowed; engines go last, and do go |
| Runtime status and flags (`runtime.py`) | flags of the core package | `check_database_health`, `check_startup`, `compute_pending_migrations`, `runtime_flags` | status tells unreachable from out of date, whatever happens between its reads; a caller works under the flags it set and restores what it found |
| Metrics (`metrics.py`) | gauges, `last_refresh`, an asyncio lock and task | `refresh`, `refresh_if_stale`, `start`, `stop`, `GET /metrics` | a scrape never fails, a gauge never shows less than what is pending and catches up with a database that recovers |
| Routers (`health.py`, `routers.py`, `routes.py`) | none | health, readiness, status, `POST /migrate`, authentication | ok and 200 vouch for migrated databases only; no file is missing from a status; a reported success is one |
| Observation (`observation/`) | process-wide listeners, a `_QueryStats` per request | `QueryTracingMiddleware`, `PoolMetricsCollector` | every statement is counted once and the slowest is reported |
| Tenancy (`tenancy.py`) | none | `TenantResolver`, `resolve_tenant` | the request reaches a configured database or is refused |
| Testing utilities (`testing.py`) | configuration, migration table | `override_database`, `migration_state` | what was there before is restored, the configured database is spared |
| Schema generation, plugin registration | none | pure functions, one call each | see "Not modelled" |

How they interact: a lifespan looks no engine up itself; requests fill the caches,
and the lifespan's `finally` clause ends with `dispose_engines`, which clears the
caches of `engines.py` and the ClickHouse clients, not the cache of `session.py`.
The background migration and the metrics task use databases until the `finally`
clause has waited for them. The lock is for the application to put round its
migrations: no code of the library takes it. `POST /migrate` and the background
migration therefore meet in the databases, and health, status and metrics read
them in between. Every dependency looks its database up under `runtime_flags`,
which the background migration holds for as long as it runs.

What is hard here: threads preempt coroutines, and code between two awaits is
atomic for other coroutines only; URLs change while lookups wait; Redis commands
arrive late or never and keys expire under their owners; a thread cannot be
cancelled while the task that waits for it can; a startup may fail with a
migration already queued; databases fail and recover between the steps, and
between two reads of one request; contexts of concurrent tests overlap.

## The modules

`EngineCache` - the three caches, their locks, requests and `dispose_engines`.
Every actor is one call. `Resolve` reads the configuration and makes the URL
(`engines.py:62-69`, `session.py:51-69`); `Acquire`, `Hit`, `Miss`, `Store` and
`CreateFails` are the `with _LOCK` block; `OpenSession`, `Execute` and
`CloseSession` are the session the dependency yields; `DisposeCall`, `Snapshot`,
`Detach`, `DisposeOne` and `DisposeReturn` are `dispose_engines`; `Reconfigure`
changes a database's URL. `LoopFree` keeps coroutines (and `dispose_engines`)
from interleaving where the code has no await, while threads interleave with
everything. A URL is a target and a password; a factory is identified with its
engine. `passed` are the factories `_dispose_one` has been called with, `cutOff`
the requests that had a factory when `Detach` took it out. `DisposeOne` leaves the
pool as it is: `_dispose_one` looks for an attribute `bind` (`engines.py:193`), which
the session factories of the locked SQLAlchemy (2.0.51) do not have, and returns.

`Registry` - the abstract specification of the engine caches: one table whose
look-ups, creations and clearings each happen at one instant. `EngineCache`
implements it with the slots of the three caches as places: a lookup takes
effect when it leaves its lock (`Hit`, `Store`, `CreateFails`), a shutdown when it
empties the caches (`Detach`), and a request wants a place from the resolution of
its URL until then. Only who finds a place empty creates or fails, and only items
that were taken out are discarded. The ClickHouse clients keep to no such table:
`ch_shared` shows it.

`ClickHouseClients` - the client caches. A coroutine tests the cache, awaits its
connection ("connect") and stores and reads without a further await; a thread may
be preempted at each step. `Clear` is what `dispose_engines` does to both caches.
The key `"default"` of `__init__.py:62` is a model value of its own, which may
or may not be the name of a database.

`MigrationLock` - processes, the key in Redis, and the commands on their way. A
call sends SET (`Call`), Redis executes it some time later (`Set`), the process
enters the body or raises (`Enter`, `Refuse`), and `finally` sends the release
script (`Leave`, `Eval`, `Return`). Commands may be lost (`Lose`) or outlive
their sender (`RedisError`, `Crash`); `Tick` is a second of the key's time.
`lease` is a history variable: how long a process may rely on the lock it got.
Redis is external and modelled from the commands `lock.py` sends.

`Lease` - the abstract specification of the lock: a holder loses its lease when
its time is over or when it has asked to, and nobody is granted it before.
`MigrationLock` implements it with tokens as holders and the release scripts
under way as the requests to give the lease up.

`Lifespan` - `dbwarden_lifespan` with its arguments, the environment, databases
that go down and up (`Flip`), and the task and thread of a background migration.
Startup has no suspension before its `yield`, so a created task starts when the
coroutine first waits (`LoopFree`). `check_database_health` and
`compute_pending_migrations` are the operators `Status` and `PendingMigrations`;
`migrate_cmd` is external: it migrates its targets one by one and may fail before
any of them.

`Lifecycle` - the abstract specification of the lifespan: an application starts,
serves and stops; jobs (the migration, the refresher) begin only while it starts,
migrations are changed by the migration job alone, seeds come while it starts, and
the engines are disposed only in the end and without a job. An application that
is cancelled while it waits ends with the migration still at work and disposes
nothing. `Phase` and `Jobs` in `Lifespan` are the mapping: the migration is a job
from the creation of its task, or from its call, to the end of both.

`Service` - a serving application: one job at a time on the event loop (no
handler awaits between its reads), the thread of a background migration,
databases that fail and recover (`Flip`) and time (`Tick`). A health check is
`Connect`, `CountPending`, `CheckLock` for one database after the other
(`runtime.py:109-139`), the status route `StatusOf`, `CountPending`,
`CountApplied`, `CheckLock`, `Select` (`routes.py:97-135`, `routers.py:111-139`),
`POST /migrate` a loop of `MigrateVersion` over `MigrateTargets`, which is where
the two routers differ, and a refresh of the metrics `Refresh` and `SetGauge` per
database and `Refreshed`. `Receive` is the authentication and the look-up of the
name; `Aggregate` and `Code` make statuses the code of the response. What the
reads see is the migrations table (`rows`) and the files of a database. A row is a
version and which copy of it: `pending` is the number of files whose version has no
row (`runtime.py:100-106`), while `CountApplied` counts the rows, whatever files there
are (`routes.py:88-94`), so that rows of versions without a file and second copies
count too. `Apply` is external and the same for route and thread: it adds the
row of a file, or another copy of it when two migrations had listed it before
one of them applied it. The thread has no state of its own: it may apply a version
or stop at any time.

`Request` - one request from the middleware to its end: `CheckRegistered`,
`TakeLock`, `Listen`, `SetRegistered` are `_register_tracing_events` with its
test before and under the lock; `Resolve` is `resolve_tenant`, with
`TenantResolver.__call__` as the operator `TenantOf`; `EnterFlags`,
`GetDatabase` and `Restore` are a dependency's look-up under `runtime_flags`;
`Begin`, `Execute`, `Store` and `Fetch` are the statements of the request and of
the threads that inherited its context, and `End` is the middleware's `finally`
clause. Background migrations hold `runtime_flags` in threads of their own.
Requests run on one event loop or on several in one process; between two awaits
a coroutine has its loop for itself (`HoldsLoop`). Whether the core package keeps
its flags per process or per thread cannot be read off the repository: `scoping`
is chosen in `Init`, and everything holds for both. `query_count += 1` is one
step: CPython does not switch threads between its load and its store. The call
of `max()` lies between a load and a store, which are two steps (`Record`,
`Store`).

`Overrides` - `override_database` and `migration_state` for one database, entered
and left in any order by concurrent tests. `Enter` and `EnterFails` are the
entry with a migration that succeeds or raises halfway, `Leave` the `finally`
clause; `EnterState` inserts versions in the database the URL leads to at that
moment, `LeaveState` deletes them where it leads to then. Connections of the core
package are taken to use the synchronous URL.

`EngineCacheProofs`, `MigrationLockProofs`, `LifespanProofs`,
`ClickHouseClientsProofs`, `ServiceProofs`, `RequestProofs` and `OverridesProofs`
hold the theorems; the modules whose names begin with `MC` are the instances TLC
checks. Definitions whose comment begins with "Mutant" are bugs the code does not
have: each property is shown to fail when one of them replaces the definition it
follows.

## The runs

| Run | Question | Answer |
|---|---|---|
| `ec_safety` | What can racing lookups, a rotation of credentials and a shutdown do to the caches? | Nothing: engines in a cache are live, there is one per key, a session is of the URL its request resolved, no engine of `engines.py` escapes a shutdown, and the engine a request uses stays cached unless a shutdown took it out meanwhile. |
| `ec_live` | Do the interleaved steps of lookups and shutdowns look atomic to requests, and can an early return or an exception leave a lock taken? | They do: the caches implement `Registry`; and it cannot: every lookup and every dispose call ends. |
| `ec_disposal` | Does a shutdown dispose the engines it takes out of the caches? | No: the session factories have no `bind`, and their pools stay open with nothing that refers to them. |
| `lock_safety` | What do late commands, expiries, errors and crashes do to the lock? | A process in time never loses it; two migrations run at once only if one outlived its ttl; a session that ended leaves no key; the lock implements `Lease`; a key nobody releases goes away. |
| `ls_safety` | In which order do migration, serving and disposal happen? | Disposal comes last and always comes, unless a cancellation reaches the wait for the migration; a blocking, fail-fast startup serves migrated databases; no path gets round the environment checks; all of it is a `Lifecycle`. |
| `ls_seeds` | Are seeds applied after migrations? | Not with background migrations. |
| `ls_gate` | Does the gate refuse only unreachable databases? | No: it asks for a database named `True`, and refuses pending migrations too. |
| `ch_safety` | What do unlocked client caches do to requests? | A request gets a client of its database; the subscript fails only in a thread that the shutdown overtook; an uncached client is in use only after a race or a shutdown. |
| `ch_shared` | Is there one client per database? | No: two first requests create two. |
| `sv_safety` | What do health, status, migrate and metrics say while a migration runs and databases fail? | "ok" and 200 from readiness vouch for migrated databases only, although connection, count and lock are read apart; a status counts every pending migration, and its two counts leave no file out, whatever other rows the table has; a success of `POST /migrate` is one, with a background migration beside it; gauges are never too low, never rise, are refreshed once in an interval at most and catch up. |
| `rq_safety` | What can event loops, threads and a migration in one process do to a request's counters and flags? | Listeners are registered once and statements counted once, but for those whose rows fail; the slowest is reported unless two workers of the request collide; flags are kept by whoever shares their scope with coroutines of its loop only. |
| `ov_safety` | What do overlapping test contexts leave behind? | Overrides left in reverse order restore what they found, also when their migration fails; the configured database is changed by a `migration_state` outside of them only; simulated versions stay but for those another context deletes. |

Where `IInv` is defined beside its specification it begins with `TypeOK`, so that
`ec_safety`, `lock_safety` and `ls_safety` check types with it; the types of
`ClickHouseClients` are proved. The runs that end in a violation state what a docstring or comment says; the
findings quote it.

### Bounds

- `ec_safety`: one coroutine, two threads, one dispose call, one database whose
  URL changes freely among two passwords and two targets, one of them without an
  asynchronous driver. A race for one slot needs two actors; the third is there
  to meet them after the lock is free. A second coroutine adds little: it does
  not interleave with the first inside a lookup. `Engine` bounds a behaviour to
  two engines (one detached and one created after it, or two that race for a
  slot); a further creation can only fail. Threads and engines are symmetric:
  the specification names none.
- `ec_live`: one coroutine, two threads that may hit what the other stored, one
  dispose call, one target with two passwords, two engines; no symmetry. Which slot
  a password leads to is all that URLs matter for here, and an engine that is
  missing is an engine that cannot be created.
- `lock_safety`: two processes, three tokens, ttls up to three seconds. Two
  processes and a command of an earlier session are all that a race for the key
  takes; a token is fresh when no command, process or key has it, and processes
  call again without a limit. The third token is for the command left behind.
- `ls_safety`: two databases, one of them named by the call; `SomeOptions` leaves
  out combinations of arguments that meet in no action (the gate with migrations,
  a missing warm-up). `ls_gate` uses `AllOptions`. The theorems hold for all.
- `ch_safety`: two coroutines, two threads, two databases, one dispose call; four
  requests create at most four clients. `CHECK_DEADLOCK FALSE`: every actor is one
  call, and a behaviour ends with the last of them.
- `sv_safety`: two databases with two files and one, the default being the one with one;
  `Interval` 1; `MaxSurplus` allows one row more than files are applied in the default
  database (a version without a file, from the start, or a second copy, by a migration)
  and none in the other. Two files let the thread apply one between two reads of a status and
  leave one pending; two databases let one fail for ever while the other recovers,
  and let a migration succeed for one of its targets. An interval of one tick is
  enough for fresh and stale; the model knows no other difference. Deadlock is
  checked.
- `rq_safety`: two requests on one loop or on two, one background migration, a
  coroutine and a thread at work for the first request, one statement each and
  times 0 and 1. Two registrations, two users of the flags with different values
  and two recorders are what the races take; the migration is the user that is
  never a coroutine. `Statements` and `MaxTime` bound TLC only; the theorems hold
  for all values. Loops are symmetric. `CHECK_DEADLOCK FALSE`: requests end.
- `ov_safety`: two overrides with URLs of their own and two migration states that
  share a version, each entered any number of times, and every initial content of
  the migration tables.

### Fairness

- `EngineCache`: weak fairness of each lookup from `Acquire` to the session and
  of each dispose call. No code awaits while it holds a lock, and `create_engine`
  returns or raises. Requests are finitely many, so a lock is not taken for
  ever by others. Nothing is assumed of handlers: a session may stay open.
- `MigrationLock`: weak fairness of `Tick` only (Redis expires keys). Processes may
  stop anywhere and commands may stay under way for ever.
- `Lifespan`: weak fairness of startup, of the migration (`migrate_cmd` ends for
  each database, with success or an exception) and of the `finally` clause. An
  application may serve for ever, databases may flip for ever.
- `Service`, for `GaugesCatchUp`: weak fairness of `Work` (a call of a database
  returns or raises, so a job ends) and of `Tick`; strong fairness of `Wake`, since
  the event loop takes its ready tasks in turn and requests that keep arriving
  delay the periodic task but do not keep it out. Nothing is assumed of databases,
  requests or the thread; the property itself supposes a database that has stopped
  failing.

## The theorems

Each proof module proves an inductive invariant `IInv` of its specification -
most of them checked by TLC as an invariant first - one lemma per action or group of actions,
and from it the properties. The proofs use the named assumptions of the modules
(`ConstantsAssumption`, `LockAssumption`, `LifespanAssumption`,
`ServiceAssumption`, `RequestAssumption`, `OverridesAssumption` and
`ClientsAssumption`), all of which say only that the sets are disjoint, that the
distinguished values are outside them, that functions have the domains their
names say and that defaults are configured.

- `EngineCache`. `IInv` says who holds each lock (`LockInv`: exactly the actor
  inside its `with`), that a slot holds an engine made for it (`SlotInv`), that a
  slot stays empty from a miss to the store that follows (`CallerInv`), that the
  list `dispose_engines` made is what the caches hold until it clears them
  (`DisposerInv`), and its last conjuncts are properties themselves, among them
  that the engine in a request's hands is cached unless it was taken out under the
  request (`EngineStaysCached`). The properties alone are not
  inductive: that a store overwrites nothing follows from the lock, and that
  clearing loses nothing follows from the list. `CacheKey` is injective because
  it keeps the whole URL (`KeyIsInjective`): the real key is a SHA-256 digest,
  which the model takes to have no collisions. Proved: `TypeCorrectness`,
  `LiveCaches`, `SharedEngines`, `OwnDatabase`, `LocksAreDisciplined`
  (mutual exclusion, and no lock with one who is past its `with`),
  `NothingSkipped` and `EnginesStayCached`. `CachesImplementRegistry`
  is the refinement, one lemma per kind of step (`ResolveRefines`, `AnswerRefines`,
  `RequestRefines`, `DisposeRefines`). It needs `IInv` at two places: that `Store`
  finds its slot empty is `CallerInv`, and that what `Detach` adds to the detached
  engines is what the table held is `DisposerInv`, for it was listed before.
- `MigrationLock`. `IInv` says that tokens are not shared (`TokenInv`), that a SET
  under way has not been executed and has a sender that still waits or has given
  up (`SetInv`), that a release comes from a process that has left its body
  (`EvalInv`) and that exactly those who go by a positive answer have a lease
  (`LeaseInv`). Two leases in time would make the key hold two tokens: that is
  `Exclusion`. Proved: `TypeCorrectness`, `LeaseKept`, `Released`, `Exclusion`,
  and `LockImplementsLease`, the refinement: initial states map to initial
  states and every step to a step of `Lease` or a stutter.
- `Lifespan`. `IInv` says where the migration runs and what its task stands for
  (`WorkerInv`, which also says that a call that may still be refused has touched
  nothing), that nothing that uses databases is left at "dispose"
  (`DisposeInv`), that what is pending while the coroutine migrates is still on
  its list (`BlockInv`) and that who migrates has passed the checks
  (`AllowedInv`). Proved: `TypeCorrectness`, `DisposalComesLast`,
  `BlockMigratesAll`, the action property `MigrationIsAllowed`, and the refinement
  `LifespanImplementsLifecycle`: disposal finds no job because `DisposeInv` has the
  refresher stopped and the task done by then, and `WorkerInv` ties the thread to
  its task; a step that fails a blocking migration ends the job and stops startup.
- `ClickHouseClients`. `IInv` says what a cached client was made for and where a
  call stands between its test, its connection and its store. Proved:
  `TypeCorrectness`, `OwnDatabase`, `KeyErrorsAreLate`, `UncachedAfterRace`.
- `Service`. Rows are only added, so what is pending only becomes less (`ApplyLeavesNoMore`),
  and a count is an upper bound from
  the moment it was made (`CountInv`): a gauge, a status counted in the order
  pending, applied, and "ok" inherit it (`OkInv`, `VouchInv`; `ReadyInv` says that
  readiness leaves no database out). `SetInv` says that what a refresh is about to
  set is no more than what the gauge shows, which holds because the gauge was a
  bound when the count was made, and `StaleInv` that whoever refreshes has found the
  interval over and holds the event loop since. `TargetInv` says that what a migration has
  left behind is migrated. That the two counts of a status leave no file out is
  `CountsCover`: a file has a row or is pending, and when the rows are counted the
  earlier count is still a bound of what is pending. Proved: `TypeCorrectness`, `OkIsMigrated`,
  `GaugesAreBounds`, `StatusIsComplete`, `SuccessIsMigrated`, and the action
  properties `GaugesOnlyFall` and `RefreshesAreSpaced`.
- `Request`. `RegInv`: the lock admits one request, the flag is set after the
  listeners, and who is past the registration has seen it set. `SlowInv`: a worker
  that records holds at most the longest time, and exactly that one if it is alone.
  `FlagInv`: of the coroutines of one loop at most one is inside `runtime_flags`,
  and in a scope used by such coroutines, or by one thread, whoever is inside has
  saved the original flags. Proved: `TypeCorrectness`, `StatementsCountOnce`,
  `SlowestIsRight`, `FlagsAreKept`, and of the tenant operator
  `BothSourcesCount`.
- `Overrides`. `NestInv`: each override remembers the URL of the one entered before
  it. Proved: `OverridesAreNested`, `StatesAreHeld`, and the action property
  `OriginalIsSpared`.

Model-checked only: the liveness properties (`LookupCompletes`,
`DisposeCompletes`, `LockIsFreedEventually`, `BackgroundMigrationEnds`,
`ShutdownDisposes`, `GaugesCatchUp`), which are out of the prover's reach.

## Where code and documentation differ

Four have a run and a finding: `ec_disposal`, `ls_seeds`, `ls_gate`, `ch_shared`.
These follow from a statement or two, which the modules translate as they are:

- `dispose_engines` leaves `_SESSION_FACTORIES` of `session.py` alone, although it
  is documented to clear "all session/client caches" (`engines.py:207`).
- `session_factory()` without a database raises `TypeError` at its first request
  (`engines.py:30`), though `None` is the default (`__init__.py:34`).
- The number of applied migrations the status route reports is that of all rows of the
  migrations table (`routes.py:92`), also of versions without a file, which the number of
  pending ones leaves out: `StatusCountsAll` bounds their sum from below only.
- Readiness `fail` starts with pending migrations when the database is down: such
  a database counts none (`lifespan.py:108`, `runtime.py:127`).
- Mode `check` raises "on drift" (`lifespan.py:59`), but pending migrations are
  degraded, and only errors raise (`context.py:57`).
- A cancellation that reaches `await migration_task` (`lifespan.py:148`) leaves
  without `dispose_engines` while the thread goes on.
- "Only one migration process can run at a time" (`lock.py:24`) holds while
  migrations keep to the ttl they asked for; `ExclusionInTime` says exactly that.
- A database named `default` that is not the default one shares its ClickHouse
  client with requests that name none (`__init__.py:62`): the precondition of
  `ClientOfOwnDatabase`.
- Readiness answers 503 for a database that is reachable and has pending migrations
  (`health.py:98`), where its docstring has "200 when all databases are reachable,
  503 otherwise" (`health.py:62`): `Code`.
- A database that is down fails the whole status request with 500: the count of
  pending migrations and the lock are read without a `try` (`routes.py:98`, `:102`),
  and only a failure after them is the status "error" it is meant to be (`Raise`).
- `POST /migrate` without a database migrates every database in `routes.py:205`, and
  only the default one in `routers.py:152`: `MigrateTargets`.
- A statement whose rows fail to arrive is recorded by `after_cursor_execute` and
  again by `handle_error` (`observation/__init__.py:122`, `:126`): the exception in
  `CountedOnce`.
- Overrides that are not left in reverse order leave the URL of an inner one for good
  (`testing.py:50`): the exception in `OverridesNest`. The look-up of the
  configuration in `override_database` is not under `runtime_flags`.
- `override_database` is documented to replace `sqlalchemy_url` (`testing.py:19`) and
  sets `sqlalchemy_url_async` (`testing.py:41`); the ClickHouse dependencies read
  `sqlalchemy_url` (`engines.py:155`) and do not follow it.
- `migration_state` deletes its versions although they were there before, and in the
  database the URL leads to when it is left (`testing.py:99-104`): `deleted` and
  `place` in `StateHeld`.
- A refresher that `GET /metrics` makes itself has the default interval and no task
  (`metrics.py:39`).

## Order of the work

`EngineCache`, `Registry` and their proofs; `MigrationLock`, `Lease` and their proofs;
`Lifespan`, `Lifecycle` and their proofs; `ClickHouseClients` and its proofs; `Service`, `Request`,
`Overrides` and their proofs. What would come next: `Service` composed with
`Lifespan`, for the requests that arrive during shutdown.

## Not modelled

- `PoolMetricsCollector` copies counters of connection pools, one after the other, into
  a dict: numbers of SQLAlchemy, whose changes are not in the repository.
- The liveness route answers without looking at anything.
- `total_query_time` and `slow_queries` of a request: sums beside `query_count`.
- A dispose that raises: `_dispose_one` returns before it reaches the `dispose()` of an
  engine (`engines.py:193-195`).
- `auto_schema.py` and `types.py` build Pydantic classes from SQLAlchemy models:
  no state and no order of events.
- `setup()` of `__init__.py` hands functions to a registrar of the core package.
- Formatting, logging, the HTTP metrics middleware (it only counts), the contents
  of migrations, connection pools beyond "holds connections or not".
- Warm-up connects with engines of its own and disposes them: no state of the
  models tells a warm pool from a cold one.
