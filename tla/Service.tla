------------------------------- MODULE Service -------------------------------
(***************************************************************************)
(* What a serving application says of its databases: the health, status    *)
(* and migrate routes (health.py, routers.py, routes.py) and the gauges of *)
(* metrics.py, while a background migration runs in its thread and         *)
(* databases fail and recover.                                             *)
(*                                                                         *)
(* Every handler is a coroutine that calls the databases synchronously and *)
(* awaits nothing in between: the event loop has one job at a time.  What  *)
(* interleaves with the reads of a job is the thread, the databases and    *)
(* time.  A call of a database that is not `up` raises.                    *)
(***************************************************************************)
EXTENDS Integers, FiniteSets

CONSTANTS
  Db,         \* cfg.databases
  DefaultDb,  \* cfg.default
  Version,    \* versions that have a file or a row in a migrations table
  Files,      \* the versions each database has a migration file of
  MaxSurplus, \* bounds the Surplus of each migrations table
  Interval,   \* metrics_refresh_interval, in ticks
  AuthMode,   \* auth_mode of the routers, or what the environment says
  NoName,     \* a request that names no database
  Unknown     \* a name that is not configured

ASSUME ServiceAssumption ==
  /\ DefaultDb \in Db
  /\ IsFiniteSet(Version)
  /\ Files \in [Db -> SUBSET Version]
  /\ MaxSurplus \in [Db -> Nat]
  /\ Interval \in Nat \ {0}
  /\ AuthMode \in {"open", "authenticated"}
  /\ NoName \notin Db
  /\ Unknown \notin Db \cup {NoName}

VARIABLES
  up,         \* the databases that answer
  rows,       \* the rows of each migrations table: a version and which copy
  path,       \* the job of the event loop
  body,       \* the body of POST /migrate and the router it came to
  at,         \* where the job is
  left,       \* the databases it has still to visit
  db,         \* the one it visits
  n, m,       \* pending and applied migrations it has counted there
  found,      \* the status it has found for each database
  code,       \* the status code of the response, 0 before there is one
  gauge,      \* the pending migrations the metrics show
  refresher,  \* app.state.dbwarden_metrics_refresher; "off": metrics disabled
  age,        \* time since last_refresh, up to Interval; Interval for None
  sleep       \* what is left of the sleep of MetricsRefresher._run

databases == <<up, rows>>
request   == <<path, body>>
visit     == <<db, n, m>>
gauges    == <<gauge, refresher, age, sleep>>
vars == <<databases, request, at, left, visit, found, code, gauges>>

\* The rows of a version: more than one after migrations that overlapped.
Copies(d, v) == {r \in rows[d] : r[1] = v}

\* What compute_pending_migrations counts: the files whose version is not
\* among the rows.  A missing table is an empty one.
pending == [d \in Db |-> Cardinality({v \in Files[d] : Copies(d, v) = {}})]

\* The rows beyond one for each file that is applied: further copies, and
\* versions whose file is gone.
Surplus(d) == Cardinality(rows[d]) - (Cardinality(Files[d]) - pending[d])

Unset == -1
Path  == {"none", "health", "readiness", "one", "status", "migrate",
          "metrics", "task"}
Stage == {"idle", "next", "pending", "applied", "lock", "select", "migrate",
          "refresh", "set", "respond"}
Body  == [database : Db \cup {NoName, Unknown},
          limit : {"none", "some", "dry_run"},  \* count or to_version: "some"
          router : {"routes", "routers"}]
NoBody == [database |-> NoName, limit |-> "none", router |-> "routes"]

TypeOK ==
  /\ up \subseteq Db
  /\ rows \in [Db -> SUBSET (Version \X Nat)]
  /\ \A d \in Db : IsFiniteSet(rows[d])
  /\ path \in Path
  /\ body \in Body
  /\ at \in Stage
  /\ left \subseteq Db
  /\ db \in Db
  /\ n \in Nat
  /\ m \in Nat
  /\ found \in [Db -> {"none", "ok", "degraded", "error"}]
  /\ code \in {0, 200, 401, 403, 404, 500, 503}
  /\ gauge \in [Db -> Nat \cup {Unset}]
  /\ refresher \in {"off", "none", "scrapes", "periodic"}
  /\ age \in 0..Interval
  /\ sleep \in 0..Interval

NothingFound == [d \in Db |-> "none"]

Init ==
  /\ up \in SUBSET Db
  /\ rows \in [Db -> {applied \X {0} : applied \in SUBSET Version}]
  /\ \A d \in Db : Surplus(d) <= MaxSurplus[d]
  /\ path = "none"
  /\ body = NoBody
  /\ at = "idle"
  /\ left = {}
  /\ db = DefaultDb
  /\ n = 0
  /\ m = 0
  /\ found = NothingFound
  /\ code = 0
  /\ gauge = [d \in Db |-> Unset]
  /\ refresher \in {"off", "none", "periodic"}
  /\ age = Interval
  /\ sleep = 0

Goto(from, to) == at = from /\ at' = to
ForgetVisit == db' = DefaultDb /\ n' = 0 /\ m' = 0

Respond(c) ==
  /\ at' = "respond"
  /\ left' = {}
  /\ code' = c
  /\ ForgetVisit

\* The response is sent, or the refresh of the periodic task is over.
Sent ==
  /\ Goto("respond", "idle")
  /\ path' = "none" /\ body' = NoBody
  /\ found' = NothingFound
  /\ code' = 0
  /\ UNCHANGED <<databases, left, visit, gauges>>

-----------------------------------------------------------------------------
(***************************************************************************)
(* Requests.                                                               *)
(***************************************************************************)

\* require_auth: 0 lets the request pass.
Refusal(key) == CASE AuthMode = "open" \/ key = "right" -> 0
                  [] AuthMode # "open" /\ key = "none"  -> 401
                  [] OTHER                              -> 403

\* Mutant: the name is not looked up in the configuration.
NamedUnchecked(name) == {name}

Named(name) == {name} \cap Db

\* Mutant: without all_databases only the default database is migrated.
DefaultOnly(b) == IF b.database = NoName THEN {DefaultDb} ELSE Named(b.database)

\* The databases migrate_cmd is called for: routers.py does not pass
\* all_databases.
MigrateTargets(b) == CASE b.database # NoName    -> Named(b.database)
                       [] b.database = NoName /\ b.router = "routes" -> Db
                       [] OTHER                  -> {DefaultDb}

\* A request without a database it knows is answered 404.
Receive(p, b, key, targets, entry) ==
  /\ at = "idle"
  /\ path' = p
  /\ IF Refusal(key) = 0 /\ targets # {}
     THEN at' = entry /\ body' = b /\ left' = targets /\ UNCHANGED code
     ELSE /\ at' = "respond"
          /\ code' = IF Refusal(key) # 0 THEN Refusal(key) ELSE 404
          /\ UNCHANGED <<body, left>>
  /\ UNCHANGED <<databases, visit, found, gauges>>

Key == {"none", "wrong", "right"}

HealthRequest ==
  \E key \in Key :
    \/ Receive("health", NoBody, key, Db, "next")
    \/ Receive("readiness", NoBody, key, Db, "next")
    \/ \E name \in Db \cup {Unknown} :
         Receive("one", NoBody, key, Named(name), "next")

StatusRequest == \E key \in Key : Receive("status", NoBody, key, Db, "next")

\* The routers differ only if no database is named.
MigrateRequest ==
  \E key \in Key, b \in Body :
    /\ b.database # NoName => b.router = "routes"
    /\ Receive("migrate", b, key, MigrateTargets(b), "migrate")

-----------------------------------------------------------------------------
(***************************************************************************)
(* Health and status: one database after the other.                        *)
(***************************************************************************)

Checking == path \in {"health", "readiness", "one"}

\* An exception: check_database_health makes it a status, the status route
\* does not catch it.
Raise ==
  IF Checking
  THEN /\ at' = "next"
       /\ found' = [found EXCEPT ![db] = "error"]
       /\ ForgetVisit
       /\ UNCHANGED <<left, code>>
  ELSE Respond(500) /\ UNCHANGED found

\* check_database_health begins with SELECT 1.
Connect(d) ==
  /\ Checking
  /\ at = "next" /\ d \in left
  /\ left' = left \ {d}
  /\ IF d \in up
     THEN at' = "pending" /\ db' = d /\ UNCHANGED found
     ELSE /\ found' = [found EXCEPT ![d] = "error"]
          /\ UNCHANGED <<at, db>>
  /\ UNCHANGED <<databases, request, n, m, code, gauges>>

\* Mutant: the status route counts what is applied before what is pending.
AppliedFirst == [next |-> "applied", applied |-> "pending", pending |-> "lock"]

\* The order of the status route's reads.
StatusOrder == [next |-> "pending", pending |-> "applied", applied |-> "lock"]

StatusOf(d) ==
  /\ path = "status"
  /\ Goto("next", StatusOrder.next)
  /\ d \in left
  /\ left' = left \ {d}
  /\ db' = d
  /\ UNCHANGED <<databases, request, n, m, found, code, gauges>>

\* Mutant: what cannot be counted is not pending.
CountOrZero ==
  /\ Goto("pending", IF Checking THEN "lock" ELSE StatusOrder.pending)
  /\ n' = IF db \in up THEN pending[db] ELSE 0
  /\ UNCHANGED <<databases, request, left, db, m, found, code, gauges>>

\* compute_pending_migrations.
CountPending ==
  /\ at = "pending"
  /\ IF db \in up
     THEN /\ at' = IF Checking THEN "lock" ELSE StatusOrder.pending
          /\ n' = pending[db]
          /\ UNCHANGED <<left, db, m, found, code>>
     ELSE Raise
  /\ UNCHANGED <<databases, request, gauges>>

\* _compute_applied_migrations counts the rows, whatever files there are:
\* also those of versions without a file and further copies.  It answers 0
\* when it fails.
CountApplied ==
  /\ Goto("applied", StatusOrder.applied)
  /\ m' = IF db \in up THEN Cardinality(rows[db]) ELSE 0
  /\ UNCHANGED <<databases, request, left, db, n, found, code, gauges>>

\* The status of a database that answered.
Verdict(behind) == IF behind THEN "degraded" ELSE "ok"

\* check_lock; the answer is reported and decides nothing.
CheckLock ==
  /\ at = "lock"
  /\ CASE db \notin up -> Raise
       [] db \in up /\ Checking ->
            /\ at' = "next"
            /\ found' = [found EXCEPT ![db] = Verdict(n > 0)]
            /\ ForgetVisit
            /\ UNCHANGED <<left, code>>
       [] OTHER -> at' = "select" /\ UNCHANGED <<left, visit, found, code>>
  /\ UNCHANGED <<databases, request, gauges>>

\* Whether seeds are pending is a choice: the seeds plugin may be absent, and
\* its errors count 0.
SeedsPending == BOOLEAN

\* The status route ends with SELECT 1.
Select ==
  /\ Goto("select", "next")
  /\ \E seeds \in SeedsPending :
       found' = [found EXCEPT ![db] =
                   IF db \in up THEN Verdict(n > 0 \/ seeds) ELSE "error"]
  /\ ForgetVisit
  /\ UNCHANGED <<databases, request, left, code, gauges>>

\* _aggregate_status and the codes of the routes.
Aggregate == CASE \E d \in Db : found[d] = "error"    -> "error"
               [] (\A d \in Db : found[d] # "error")
                    /\ \E d \in Db : found[d] = "degraded" -> "degraded"
               [] OTHER -> "ok"

Code == IF \/ path = "status"
           \/ Aggregate = "ok"
           \/ Aggregate = "degraded" /\ path # "readiness" THEN 200 ELSE 503

Reply ==
  /\ at = "next" /\ left = {}
  /\ Respond(Code)
  /\ UNCHANGED <<databases, request, found, gauges>>

-----------------------------------------------------------------------------
(***************************************************************************)
(* Migrations: migrate_cmd, called by POST /migrate on the event loop and  *)
(* by the background migration in its thread.                              *)
(***************************************************************************)

\* A version is applied and gets a row; a migration that has listed it before
\* another one applied it applies it again.
Apply(d) ==
  /\ d \in up
  /\ \E v \in Files[d] :
       LET copy == Cardinality(Copies(d, v))
       IN  /\ copy = 0 \/ Surplus(d) < MaxSurplus[d]
           /\ rows' = [rows EXCEPT ![d] = @ \cup {<<v, copy>>}]
  /\ UNCHANGED up

MigrateVersion(d) ==
  /\ at = "migrate" /\ d \in left
  /\ body.limit # "dry_run"
  /\ Apply(d)
  /\ UNCHANGED <<request, at, left, visit, found, code, gauges>>

\* count and to_version may end a migration early.
MigrateNext(d) ==
  /\ at = "migrate" /\ d \in left \cap up
  /\ body.limit = "none" => pending[d] = 0
  /\ left' = left \ {d}
  /\ UNCHANGED <<databases, request, at, visit, found, code, gauges>>

MigrateEnds ==
  /\ at = "migrate"
  /\ \/ Respond(500)
     \/ left = {} /\ Respond(200)
  /\ UNCHANGED <<databases, request, found, gauges>>

\* The thread may end, or fail, at any time: nothing here waits for it, and it
\* then takes no further step.
ThreadMigrates(d) ==
  /\ Apply(d)
  /\ UNCHANGED <<request, at, left, visit, found, code, gauges>>

Flip(d) ==
  /\ up' = IF d \in up THEN up \ {d} ELSE up \cup {d}
  /\ UNCHANGED <<rows, request, at, left, visit, found, code, gauges>>

-----------------------------------------------------------------------------
(***************************************************************************)
(* Metrics.  A refresh has no suspension while it holds its asyncio.Lock.  *)
(***************************************************************************)

Fresh == age < Interval

\* GET /metrics; the router makes a refresher, without a task, if the
\* lifespan has left none.
Scrape ==
  /\ at = "idle"
  /\ path' = "metrics"
  /\ refresher' = IF refresher = "none" THEN "scrapes" ELSE refresher
  /\ IF refresher = "off" \/ Fresh
     THEN at' = "respond" /\ code' = 200 /\ UNCHANGED left
     ELSE at' = "refresh" /\ left' = Db /\ UNCHANGED code
  /\ UNCHANGED <<databases, body, visit, found, gauge, age, sleep>>

\* Mutant: the task does not look at the time again under the lock.
WakeAlways ==
  /\ at = "idle"
  /\ refresher = "periodic" /\ sleep = 0
  /\ path' = "task" /\ at' = "refresh" /\ left' = Db
  /\ UNCHANGED <<databases, body, visit, found, code, gauges>>

\* The periodic task has slept; refresh() does nothing if a scrape has
\* refreshed the gauges in the meantime.
Wake ==
  /\ at = "idle"
  /\ refresher = "periodic" /\ sleep = 0
  /\ IF Fresh
     THEN sleep' = Interval /\ UNCHANGED <<path, at, left>>
     ELSE path' = "task" /\ at' = "refresh" /\ left' = Db /\ UNCHANGED sleep
  /\ UNCHANGED <<databases, body, visit, found, code, gauge, refresher, age>>

\* Mutant: the first database that fails ends the loop.
RefreshUpToFailure(d) ==
  /\ at = "refresh" /\ d \in left
  /\ IF d \in up
     THEN at' = "set" /\ db' = d /\ n' = pending[d] /\ left' = left \ {d}
     ELSE left' = {} /\ UNCHANGED <<at, db, n>>
  /\ UNCHANGED <<databases, request, m, found, code, gauges>>

\* Mutant: what cannot be counted is shown as 0.
RefreshOrZero(d) ==
  /\ Goto("refresh", "set") /\ d \in left
  /\ left' = left \ {d}
  /\ db' = d
  /\ n' = IF d \in up THEN pending[d] ELSE 0
  /\ UNCHANGED <<databases, request, m, found, code, gauges>>

\* A database that fails keeps its gauge.
Refresh(d) ==
  /\ at = "refresh" /\ d \in left
  /\ left' = left \ {d}
  /\ IF d \in up
     THEN at' = "set" /\ db' = d /\ n' = pending[d]
     ELSE UNCHANGED <<at, db, n>>
  /\ UNCHANGED <<databases, request, m, found, code, gauges>>

SetGauge ==
  /\ Goto("set", "refresh")
  /\ gauge' = [gauge EXCEPT ![db] = n]
  /\ ForgetVisit
  /\ UNCHANGED <<databases, request, left, found, code, refresher, age, sleep>>

\* last_refresh is set whatever has failed.
Refreshed ==
  /\ at = "refresh" /\ left = {}
  /\ age' = 0
  /\ Respond(IF path = "metrics" THEN 200 ELSE 0)
  /\ sleep' = IF path = "task" THEN Interval ELSE sleep
  /\ UNCHANGED <<databases, request, found, gauge, refresher>>

Tick ==
  /\ age < Interval \/ sleep > 0
  /\ age' = IF age < Interval THEN age + 1 ELSE age
  /\ sleep' = IF sleep > 0 THEN sleep - 1 ELSE sleep
  /\ UNCHANGED <<databases, request, at, left, visit, found, code, gauge, refresher>>

-----------------------------------------------------------------------------
\* What a job does once it has the event loop.
Work ==
  \/ \E d \in Db : \/ Connect(d) \/ StatusOf(d) \/ MigrateVersion(d)
                   \/ MigrateNext(d) \/ Refresh(d)
  \/ CountPending \/ CountApplied \/ CheckLock \/ Select \/ Reply
  \/ MigrateEnds \/ SetGauge \/ Refreshed \/ Sent

Next ==
  \/ HealthRequest \/ StatusRequest \/ MigrateRequest \/ Scrape \/ Wake
  \/ Work
  \/ \E d \in Db : ThreadMigrates(d) \/ Flip(d)
  \/ Tick

\* A call of a database returns or raises; the loop takes ready tasks in
\* turn, so that requests do not keep the periodic task waiting.
Fairness ==
  /\ WF_vars(Work)
  /\ WF_vars(Tick)
  /\ SF_vars(Wake)

Spec == Init /\ [][Next]_vars /\ Fairness

-----------------------------------------------------------------------------
\* What health, readiness or status has called "ok", now or in the response
\* under way, has no pending migration, although the count and the check of
\* the connection are separate calls and databases fail in between; and 200
\* from readiness vouches for every database.
OkMeansMigrated ==
  /\ \A d \in Db : found[d] = "ok" => pending[d] = 0
  /\ path = "readiness" /\ code = 200 => \A d \in Db : pending[d] = 0

\* A gauge that has been set never shows less than what is pending, however
\* stale it is and whatever failed when it was to be refreshed.
GaugeNeverOptimistic == \A d \in Db : gauge[d] # Unset => gauge[d] >= pending[d]

\* A gauge that has been set never rises: a refresh shows a new count or, if
\* the database fails, what it has shown before (metrics.py:104), and no
\* migration is undone meanwhile.
GaugesNeverRise ==
  [][\A d \in Db : gauge[d] # Unset => gauge'[d] \in 0..gauge[d]]_vars

\* Scrapes and the task together count the databases at most once in an
\* interval: neither sets a gauge, or begins a new interval, before the one
\* that the other may have begun is over (metrics.py:85 and :90).
OncePerInterval == [][gauge' # gauge \/ age' < age => age = Interval]_vars

\* The status route reports no fewer migrations as pending than there are, and
\* its two counts leave no file out, although a version may be applied between
\* the two reads: it is then in both.  The number of applied migrations may be
\* larger than that of the files, for every row counts; it is 0 also when it
\* could not be read.
StatusCountsAll ==
  path = "status" /\ at \in {"lock", "select"} =>
    /\ n >= pending[db]
    /\ m > 0 => n + m >= Cardinality(Files[db])

\* When POST /migrate reports success of a migration without limits, the
\* database it named is migrated; if it named none, every database is
\* (routes.py) or the default one (routers.py), also with a background
\* migration at work beside it.
SuccessMeansMigrated ==
  path = "migrate" /\ code = 200 /\ body.limit = "none" =>
    \A d \in Db :
      \/ d = body.database
      \/ body.database = NoName /\ (body.router = "routes" \/ d = DefaultDb)
      => pending[d] = 0

\* With a periodic refresher the gauge of a database that has stopped failing
\* becomes right and stays right, even if other databases fail for ever and
\* scrapes keep the refresher from its own refreshes.
GaugesCatchUp ==
  refresher = "periodic" =>
    \A d \in Db : <>[](d \in up) => <>[](gauge[d] = pending[d])

=============================================================================
