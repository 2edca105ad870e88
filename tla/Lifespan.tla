------------------------------- MODULE Lifespan -------------------------------
(***************************************************************************)
(* dbwarden_lifespan: what an application does to its databases before it  *)
(* serves, the migration it may leave to a thread, and the shutdown that   *)
(* ends with dispose_engines.                                              *)
(*                                                                         *)
(* Startup runs on the event loop without a suspension: a task it creates  *)
(* does not run before the `yield`.  The migration thread and the          *)
(* databases, which fail and recover, go on at any time.                   *)
(***************************************************************************)
EXTENDS Naturals

CONSTANTS
  Db,          \* the configured databases
  DefaultDb,   \* the default of them
  NamedDb,     \* the one a call with `database` names
  Option,      \* the keyword arguments calls are made with
  Environment  \* the values of $ENVIRONMENT

AllOptions ==
  [mode : {"check", "migrate", "none"},
   target : {"default", "named", "all"},  \* database=None, =NamedDb, all_databases
   background : BOOLEAN,                  \* background_migrations
   readiness : {"block", "serve", "fail"},
   fail_fast : BOOLEAN, only_dev : BOOLEAN, allow_in_production : BOOLEAN,
   gate : BOOLEAN,                        \* readiness_gate
   seeds : BOOLEAN,                       \* apply_seeds
   warmup : {"off", "on", "bad_size"},    \* pool_warmup, pool_warmup_size
   metrics : {"off", "on", "bad_interval"}]

ASSUME LifespanAssumption ==
  /\ DefaultDb \in Db
  /\ NamedDb \in Db
  /\ Option \subseteq AllOptions
  /\ Environment \subseteq {"production", "development", "test"}

VARIABLES
  opt, env,   \* the arguments of the call and the environment
  up,         \* the databases that can be reached
  pending,    \* the databases with pending migrations
  seeded,     \* the databases seed data was applied to
  pc,         \* where dbwarden_lifespan is
  left,       \* the databases migrate_cmd has still to migrate
  worker,     \* where migrate_on_startup runs
  task,       \* migration_task
  refresher,  \* the task of the MetricsRefresher
  disposed,   \* has dispose_engines been called?
  cancelled   \* has a cancellation reached `await migration_task`?

vars == <<opt, env, up, pending, seeded, pc, left, worker, task, refresher,
          disposed, cancelled>>

PC == {"new", "rejected", "start", "migrate", "gate", "seeds", "warmup",
       "metrics", "serving", "stop", "stopping", "join", "dispose", "ended"}

TypeOK ==
  /\ opt \in Option
  /\ env \in Environment
  /\ up \subseteq Db
  /\ pending \subseteq Db
  /\ seeded \subseteq Db
  /\ pc \in PC
  /\ left \subseteq Db
  /\ worker \in {"none", "inline", "queued", "thread", "over"}
  /\ task \in {"none", "pending", "done", "cancelled"}
  /\ refresher \in {"none", "running", "stopped"}
  /\ disposed \in BOOLEAN
  /\ cancelled \in BOOLEAN

Init ==
  /\ opt \in Option
  /\ env \in Environment
  /\ up \in SUBSET Db
  /\ pending \in SUBSET Db
  /\ seeded = {}
  /\ pc = "new"
  /\ left = {}
  /\ worker = "none"
  /\ task = "none"
  /\ refresher = "none"
  /\ disposed = FALSE
  /\ cancelled = FALSE

Goto(from, to) == pc = from /\ pc' = to

config == <<opt, env>>
data   == <<up, pending, seeded>>
tasks  == <<worker, task, left>>
ending == <<refresher, disposed, cancelled>>

Targets == CASE opt.target = "all"     -> Db
             [] opt.target = "named"   -> {NamedDb}
             [] opt.target = "default" -> {DefaultDb}

-----------------------------------------------------------------------------
(***************************************************************************)
(* Startup.  An exception goes to the `finally` clause: "stop".            *)
(***************************************************************************)

\* check_database_health: a database that cannot be reached is an error
\* without pending migrations; pending migrations make it degraded.
Status(d) == CASE d \notin up                 -> "error"
               [] d \in up /\ d \in pending   -> "degraded"
               [] OTHER                       -> "ok"

PendingMigrations(d) == d \in up /\ d \in pending

\* The arguments are validated before the `try`: nothing to clean up.
Call ==
  /\ pc = "new"
  /\ pc' = IF \/ opt.background /\ opt.mode # "migrate"
              \/ opt.metrics = "bad_interval"
           THEN "rejected" ELSE "start"
  /\ UNCHANGED <<config, data, tasks, ending>>

\* instrument_app raises: OpenTelemetry is asked for and not installed.
InstrumentationFails ==
  /\ Goto("start", "stop")
  /\ UNCHANGED <<config, data, tasks, ending>>

Serve == opt.background /\ opt.readiness = "serve"
Fail  == opt.background /\ opt.readiness = "fail"

\* The task is created; its thread starts when the loop is next free.
StartBackground ==
  /\ Serve
  /\ Goto("start", "gate")
  /\ task' = "pending"
  /\ worker' = "queued"
  /\ UNCHANGED <<config, data, left, ending>>

RefuseIfPending ==
  /\ Fail
  /\ pc = "start"
  /\ pc' = IF \E d \in Targets : PendingMigrations(d) THEN "stop" ELSE "gate"
  /\ UNCHANGED <<config, data, tasks, ending>>

Skipped == opt.only_dev /\ env # "development"

\* check_schema_on_startup
CheckSchema ==
  /\ pc = "start" /\ opt.mode = "check"
  /\ pc' = IF /\ ~Skipped
              /\ opt.fail_fast
              /\ \E d \in Targets : Status(d) = "error"
           THEN "stop" ELSE "gate"
  /\ UNCHANGED <<config, data, tasks, ending>>

NoMigration ==
  /\ opt.mode = "none"
  /\ Goto("start", "gate")
  /\ UNCHANGED <<config, data, tasks, ending>>

\* Mutant: production is tested after development only.
BlockedOnlyDev ==
  env = "production" /\ ~opt.allow_in_production /\ opt.only_dev

\* migrate_on_startup refuses to run in production without being told to.
Blocked == env = "production" /\ ~opt.allow_in_production

\* migrate_on_startup, called by the coroutine itself.
MigrateInline ==
  /\ pc = "start" /\ opt.mode = "migrate" /\ ~Serve /\ ~Fail
  /\ IF Skipped \/ Blocked
     THEN /\ pc' = IF ~Skipped /\ opt.fail_fast THEN "stop" ELSE "gate"
          /\ UNCHANGED <<worker, left>>
     ELSE /\ pc' = "migrate"
          /\ worker' = "inline"
          /\ left' = Targets
  /\ UNCHANGED <<config, data, task, ending>>

\* migrate_cmd gets one more database up to date.
MigrateOne ==
  /\ worker \in {"inline", "thread"}
  /\ \E d \in left \cap up :
       /\ pending' = pending \ {d}
       /\ left' = left \ {d}
  /\ UNCHANGED <<config, up, seeded, pc, worker, task, ending>>

\* Mutant: the exception of migrate_cmd is logged whatever fail_fast says.
FailureIsLogged ==
  /\ worker \in {"inline", "thread"}
  /\ left # {}
  /\ worker' = "over"
  /\ pc' = IF worker = "inline" THEN "gate" ELSE pc
  /\ UNCHANGED <<config, data, left, task, ending>>

\* Mutant: the thread tries again until it succeeds.
ThreadRetries ==
  /\ worker = "inline"
  /\ left # {}
  /\ worker' = "over"
  /\ pc' = IF opt.fail_fast THEN "stop" ELSE "gate"
  /\ UNCHANGED <<config, data, left, task, ending>>

\* migrate_cmd raises: a database is down or a migration fails.  In the
\* thread the exception is logged and goes no further.
MigrationFails ==
  /\ worker \in {"inline", "thread"}
  /\ left # {}
  /\ worker' = "over"
  /\ pc' = CASE worker = "inline" /\ opt.fail_fast  -> "stop"
             [] worker = "inline" /\ ~opt.fail_fast -> "gate"
             [] worker = "thread"                   -> pc
  /\ UNCHANGED <<config, data, left, task, ending>>

MigrationEnds ==
  /\ worker \in {"inline", "thread"}
  /\ left = {}
  /\ worker' = "over"
  /\ pc' = IF worker = "inline" THEN "gate" ELSE pc
  /\ UNCHANGED <<config, data, left, task, ending>>

\* _check_readiness passes all_databases to resolved_databases as the name
\* of a database, True, which no configuration has: its status is an error.
GatePasses == opt.target = "named" /\ Status(NamedDb) = "ok"

CheckReadiness ==
  /\ pc = "gate"
  /\ pc' = IF opt.gate /\ ~GatePasses THEN "stop" ELSE "seeds"
  /\ UNCHANGED <<config, data, tasks, ending>>

\* _apply_seeds seeds one database after the other.
SeedOne ==
  /\ pc = "seeds" /\ opt.seeds
  /\ \E d \in (Targets \ seeded) \cap up : seeded' = seeded \cup {d}
  /\ UNCHANGED <<config, up, pending, pc, tasks, ending>>

SeedFails ==
  /\ opt.seeds
  /\ Targets \ seeded # {}
  /\ Goto("seeds", "stop")
  /\ UNCHANGED <<config, data, tasks, ending>>

SeedsDone ==
  /\ opt.seeds => Targets \subseteq seeded
  /\ Goto("seeds", "warmup")
  /\ UNCHANGED <<config, data, tasks, ending>>

\* _warmup_pools ignores databases it cannot connect to, and connects to the
\* others with engines of its own that it disposes.
WarmUp ==
  /\ pc = "warmup"
  /\ pc' = IF opt.warmup = "bad_size" THEN "stop" ELSE "metrics"
  /\ UNCHANGED <<config, data, tasks, ending>>

StartRefresher ==
  /\ Goto("metrics", "serving")
  /\ refresher' = IF opt.metrics = "on" THEN "running" ELSE "none"
  /\ UNCHANGED <<config, data, tasks, disposed, cancelled>>

Startup ==
  \/ Call \/ InstrumentationFails \/ StartBackground \/ RefuseIfPending
  \/ CheckSchema \/ NoMigration \/ MigrateInline \/ CheckReadiness
  \/ SeedOne \/ SeedFails \/ SeedsDone \/ WarmUp \/ StartRefresher

-----------------------------------------------------------------------------
(***************************************************************************)
(* The background migration.                                               *)
(***************************************************************************)

\* The lifespan's coroutine is suspended: other tasks may run.
LoopFree == pc \in {"serving", "stopping", "join", "ended"}

\* The task submits _migrate_in_background to a thread.
StartThread ==
  /\ worker = "queued" /\ task = "pending"
  /\ LoopFree
  /\ IF Skipped \/ Blocked
     THEN worker' = "over" /\ UNCHANGED left
     ELSE worker' = "thread" /\ left' = Targets
  /\ UNCHANGED <<config, data, pc, task, ending>>

TaskEnds ==
  /\ worker = "over" /\ task = "pending"
  /\ LoopFree
  /\ task' = "done"
  /\ UNCHANGED <<config, data, pc, worker, left, ending>>

Migration == MigrateOne \/ MigrationFails \/ MigrationEnds \/ StartThread \/ TaskEnds

-----------------------------------------------------------------------------
(***************************************************************************)
(* Shutdown: the `finally` clause.                                         *)
(***************************************************************************)

\* The application stops serving, by a signal, an exception or a
\* cancellation raised at the `yield`.
Shutdown ==
  /\ Goto("serving", "stop")
  /\ UNCHANGED <<config, data, tasks, ending>>

\* MetricsRefresher.stop cancels the task and waits for it.
StopRefresher ==
  /\ pc = "stop"
  /\ pc' = IF refresher = "running" THEN "stopping" ELSE "join"
  /\ UNCHANGED <<config, data, tasks, ending>>

\* Mutant: stop waits for the task without having cancelled it.
RefresherGoesOn ==
  /\ pc = "stopping" /\ refresher = "stopped"
  /\ pc' = "join"
  /\ UNCHANGED <<config, data, tasks, ending>>

\* The cancelled task ends.  A cancellation of the lifespan meanwhile is
\* swallowed by stop's `except CancelledError`.
RefresherEnds ==
  /\ Goto("stopping", "join")
  /\ refresher' = "stopped"
  /\ UNCHANGED <<config, data, tasks, disposed, cancelled>>

\* Mutant: the migration task is not awaited.
JoinAtOnce ==
  /\ Goto("join", "dispose")
  /\ UNCHANGED <<config, data, tasks, ending>>

\* await migration_task
Join ==
  /\ task \in {"none", "done"}
  /\ Goto("join", "dispose")
  /\ UNCHANGED <<config, data, tasks, ending>>

\* Mutant: a cancellation of the wait is caught and disposal goes on.
CancelJoinThenDispose ==
  /\ task = "pending"
  /\ Goto("join", "dispose")
  /\ task' = "cancelled"
  /\ worker' = IF worker = "queued" THEN "over" ELSE worker
  /\ cancelled' = TRUE
  /\ UNCHANGED <<config, data, left, refresher, disposed>>

\* A cancellation of the lifespan while it waits cancels the task, not the
\* thread, and leaves the `finally` clause before dispose_engines.
CancelJoin ==
  /\ task = "pending"
  /\ Goto("join", "ended")
  /\ task' = "cancelled"
  /\ worker' = IF worker = "queued" THEN "over" ELSE worker
  /\ cancelled' = TRUE
  /\ UNCHANGED <<config, data, left, refresher, disposed>>

DisposeEngines ==
  /\ Goto("dispose", "ended")
  /\ disposed' = TRUE
  /\ UNCHANGED <<config, data, tasks, refresher, cancelled>>

Ending ==
  StopRefresher \/ RefresherEnds \/ Join \/ DisposeEngines

\* A database goes down or comes back.
Flip(d) ==
  /\ up' = (up \ {d}) \cup ({d} \ up)
  /\ UNCHANGED <<config, pending, seeded, pc, tasks, ending>>

Next ==
  \/ Startup \/ Migration \/ Shutdown \/ Ending \/ CancelJoin
  \/ \E d \in Db : Flip(d)

\* The event loop and the thread go on; migrate_cmd ends for each database.
Fairness == WF_vars(Startup) /\ WF_vars(Migration) /\ WF_vars(Ending)

Spec == Init /\ [][Next]_vars

FairSpec == Spec /\ Fairness

-----------------------------------------------------------------------------
\* The engines are disposed when nothing uses databases any more: not the
\* migration thread, which a cancellation "cannot stop" (lifespan.py:146-147),
\* nor the metrics task; whatever ended the application and whenever.
EnginesOutliveTheirUsers ==
  disposed => worker \notin {"inline", "queued", "thread"} /\ refresher # "running"

\* "Blocked in production unless allow_in_production=True" (lifespan.py:62),
\* and only_dev confines migrations to development: no path to migrate_cmd,
\* the background thread's included, gets round the two checks.
MigratesOnlyWhereAllowed ==
  [][pending' # pending =>
       /\ opt.mode = "migrate"
       /\ env = "production" => opt.allow_in_production
       /\ opt.only_dev => env = "development"]_vars

\* With "block" and fail_fast, an application that serves has migrated every
\* database it targets: "preserves normal startup" (lifespan.py:81).
BlockServesMigrated ==
  opt.mode = "migrate" /\ ~Serve /\ ~Fail /\ opt.fail_fast /\ ~Skipped =>
    (pc = "serving" => Targets \cap pending = {})

\* Where the application is, and which jobs of its own use its databases, for
\* who does not see the steps of startup and shutdown.
Phase == CASE pc \in {"new", "start", "migrate", "gate", "seeds", "warmup", "metrics"}
                                                        -> "starting"
           [] pc = "serving"                            -> "serving"
           [] pc \in {"stop", "stopping", "join", "dispose"} -> "stopping"
           [] pc \in {"rejected", "ended"}              -> "ended"

Jobs ==
  (IF task = "pending" \/ worker \in {"inline", "queued", "thread"}
   THEN {"migration"} ELSE {})
  \cup (IF refresher = "running" THEN {"refresher"} ELSE {})

ALifecycle == INSTANCE Lifecycle WITH
  phase <- Phase, jobs <- Jobs, behind <- pending, supplied <- seeded,
  closed <- disposed

\* Through every mode, failure and cancellation the lifespan keeps to the
\* order of module Lifecycle: nothing but a job changes migrations, no job
\* begins after startup, and dispose_engines waits for all of them.
ImplementsLifecycle == ALifecycle!LifecycleSpec

\* A background migration comes to an end, databases that go down and come
\* back and a startup that fails notwithstanding.
BackgroundMigrationEnds == worker = "queued" ~> worker = "over"

\* An application that stops, or fails to start, disposes its engines: no
\* wait of the `finally` clause is for ever and no failure leaves it early,
\* except a cancellation that reaches `await migration_task`.
ShutdownDisposes == pc = "stop" ~> disposed \/ cancelled

-----------------------------------------------------------------------------
(***************************************************************************)
(* What the documentation promises and the code does not do.               *)
(***************************************************************************)

\* "Apply pending seed data after migrations" (lifespan.py:76).
SeedsFollowMigrations ==
  [][seeded' # seeded => worker \notin {"queued", "inline", "thread"}]_vars

\* readiness_gate: "raise if any database is unreachable" (lifespan.py:74).
GateRejectsOnlyUnreachable ==
  [][pc = "gate" /\ pc' = "stop" => ~(Targets \subseteq up)]_vars

-----------------------------------------------------------------------------
(***************************************************************************)
(* The inductive invariant the theorems of LifespanProofs rest on.         *)
(***************************************************************************)

\* Where migrate_on_startup runs, and what migration_task stands for; a call
\* that may be refused has not touched the data.
WorkerInv ==
  /\ worker = "inline" <=> pc = "migrate"
  /\ worker \in {"queued", "thread"} => task \in {"pending", "cancelled"}
  /\ pc \in {"new", "start"} => worker = "none" /\ task = "none" /\ seeded = {}
  /\ task = "cancelled" => pc = "ended" /\ ~disposed

\* Nothing that uses databases is left when disposal is reached.
DisposeInv ==
  /\ disposed => pc = "ended"
  /\ pc = "dispose" \/ disposed => task \in {"none", "done"}
  /\ refresher = "running" => pc \in {"serving", "stop", "stopping"}

\* While the coroutine migrates, what is pending is what is left to do; past
\* that nothing is, unless the call was not meant to migrate or goes to stop.
BlockInv ==
  opt.mode = "migrate" /\ ~Serve /\ ~Fail /\ opt.fail_fast /\ ~Skipped =>
    /\ pc = "migrate" => Targets \cap pending \subseteq left
    /\ pc \in {"gate", "seeds", "warmup", "metrics", "serving"} =>
         Targets \cap pending = {}

\* Who calls migrate_cmd has passed the checks of migrate_on_startup.
AllowedInv ==
  /\ pc = "start" /\ opt.background => opt.mode = "migrate"
  /\ worker = "queued" => opt.mode = "migrate"
  /\ worker \in {"inline", "thread"} =>
       opt.mode = "migrate" /\ ~Skipped /\ ~Blocked

IInv == TypeOK /\ WorkerInv /\ DisposeInv /\ BlockInv /\ AllowedInv

=============================================================================
