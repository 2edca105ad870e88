------------------------------- MODULE Request -------------------------------
(***************************************************************************)
(* A request on its way through the library: QueryTracingMiddleware        *)
(* registers its listeners and counts the request's statements             *)
(* (observation/__init__.py), the tenant is resolved (tenancy.py), and a   *)
(* dependency looks its database up under runtime_flags (runtime.py).      *)
(*                                                                         *)
(* Requests are coroutines, of one event loop or of several in one         *)
(* process; their dependencies and statements may run in threads.  Beside  *)
(* them background migrations hold runtime_flags in threads of their own.  *)
(***************************************************************************)
EXTENDS Naturals

CONSTANTS
  Request, Migration,   \* requests; background migrations
  Loop,                 \* event loops
  Worker,               \* whatever executes statements of a request
  ThreadWorker,         \* those of them that are threads
  OwnerOf,              \* the request of a worker
  DevOf,                \* the flag `dev` an actor passes to runtime_flags
  Db,                   \* cfg.databases
  Name,                 \* what headers and hosts may say, names of databases too
  Mapping,              \* host_mapping, for every host
  Empty, None,          \* "" and None
  Statements,           \* bound: how many statements a worker executes
  MaxTime               \* bound: the longest time a statement takes

Actor == Request \cup Migration

ASSUME RequestAssumption ==
  /\ Request \cap Migration = {}
  /\ "process" \notin Loop \cup Actor
  /\ Loop \cap Actor = {}
  /\ ThreadWorker \subseteq Worker
  /\ OwnerOf \in [Worker -> Request]
  /\ DevOf \in [Actor -> BOOLEAN]
  /\ Db \subseteq Name
  /\ Empty # None
  /\ {Empty, None} \cap Name = {}
  /\ None \notin Request
  /\ Mapping \in [Name -> Name \cup {Empty}]
  /\ Statements \in Nat
  /\ MaxTime \in Nat \ {0}

VARIABLES
  loop,        \* the event loop of each request
  threaded,    \* the requests whose dependency runs in a thread
  scoping,     \* does the core package keep flags per process or per thread?
  registered,  \* _tracing_events_registered
  lock,        \* who holds _tracing_events_lock
  listeners,   \* how often the listeners are registered
  pc,          \* where each request and migration is
  dev,         \* is_dev_mode(), in each scope
  saved,       \* previous_dev of runtime_flags
  seen,        \* the flag get_database or migrate_cmd worked under
  wpc,         \* what each worker does
  todo,        \* how many statements it may still begin
  old,         \* slowest_query_time as it has read it
  elapsed,     \* the time of the statement it records
  count,       \* query_count of each request
  slowest,     \* slowest_query_time of each request
  finished,    \* history: how many statements of a request have ended
  longest,     \* history: the longest time recorded for one
  doubled,     \* history: has one raised after it had been executed?
  raced        \* history: have two workers updated slowest together?

setting == <<loop, threaded, scoping>>
events  == <<registered, lock, listeners>>
flags   == <<dev, saved, seen>>
work    == <<wpc, todo, old, elapsed>>
stats   == <<count, slowest>>
history == <<finished, longest, doubled, raced>>
vars == <<setting, events, pc, flags, work, stats, history>>

Scope == Loop \cup Actor \cup {"process"}
PC == {"new",
       "wait", "locked", "added",                      \* _register_tracing_events
       "resolve",                                      \* resolve_tenant
       "lookup", "flagged", "configured", "raised",    \* runtime_flags
       "run", "ended"}
Times == 0..MaxTime

TypeOK ==
  /\ loop \in [Request -> Loop]
  /\ threaded \subseteq Request
  /\ scoping \in {"process", "thread"}
  /\ registered \in BOOLEAN
  /\ lock \in Request \cup {None}
  /\ listeners \in 0..1
  /\ pc \in [Actor -> PC]
  /\ dev \in [Scope -> BOOLEAN]
  /\ saved \in [Actor -> BOOLEAN]
  /\ seen \in [Actor -> BOOLEAN]
  /\ wpc \in [Worker -> {"idle", "execute", "record", "record_error", "fetch"}]
  /\ todo \in [Worker -> 0..Statements]
  /\ old \in [Worker -> Times]
  /\ elapsed \in [Worker -> Times]
  /\ count \in [Request -> Nat]
  /\ slowest \in [Request -> Times]
  /\ finished \in [Request -> Nat]
  /\ longest \in [Request -> Times]
  /\ doubled \in [Request -> BOOLEAN]
  /\ raced \in [Request -> BOOLEAN]

Init ==
  /\ loop \in [Request -> Loop]
  /\ threaded \in SUBSET Request
  /\ scoping \in {"process", "thread"}
  /\ registered = FALSE
  /\ lock = None
  /\ listeners = 0
  /\ pc = [a \in Actor |-> "new"]
  /\ dev = [s \in Scope |-> FALSE]
  /\ saved = [a \in Actor |-> FALSE]
  /\ seen = DevOf
  /\ wpc = [w \in Worker |-> "idle"]
  /\ todo = [w \in Worker |-> Statements]
  /\ old = [w \in Worker |-> 0]
  /\ elapsed = [w \in Worker |-> 0]
  /\ count = [r \in Request |-> 0]
  /\ slowest = [r \in Request |-> 0]
  /\ finished = [r \in Request |-> 0]
  /\ longest = [r \in Request |-> 0]
  /\ doubled = [r \in Request |-> FALSE]
  /\ raced = [r \in Request |-> FALSE]

Goto(a, from, to) == pc[a] = from /\ pc' = [pc EXCEPT ![a] = to]

Coroutine(a) == a \in Request \ threaded

\* Between two awaits a coroutine has its loop for itself: while it registers
\* listeners, and inside runtime_flags unless that is in a thread.
HoldsLoop(r) ==
  \/ pc[r] \in {"wait", "locked", "added"}
  \/ Coroutine(r) /\ pc[r] \in {"flagged", "configured", "raised"}

MayRun(a) ==
  Coroutine(a) \/ (a \in Request /\ pc[a] \in {"new", "resolve", "run"}) =>
    \A b \in Request \ {a} : loop[b] = loop[a] => ~HoldsLoop(b)

-----------------------------------------------------------------------------
(***************************************************************************)
(* _register_tracing_events, when the middleware gets the request.         *)
(***************************************************************************)

CheckRegistered(r) ==
  /\ MayRun(r)
  /\ Goto(r, "new", IF registered THEN "resolve" ELSE "wait")
  /\ UNCHANGED <<setting, events, flags, work, stats, history>>

TakeLock(r) ==
  /\ Goto(r, "wait", "locked")
  /\ lock = None
  /\ lock' = r
  /\ UNCHANGED <<setting, registered, listeners, flags, work, stats, history>>

\* Mutant: the flag is not tested again under the lock.
ListenUnchecked(r) ==
  /\ Goto(r, "locked", "added")
  /\ listeners' = listeners + 1
  /\ UNCHANGED <<setting, registered, lock, flags, work, stats, history>>

Listen(r) ==
  /\ IF registered
     THEN Goto(r, "locked", "resolve") /\ lock' = None /\ UNCHANGED listeners
     ELSE Goto(r, "locked", "added") /\ listeners' = listeners + 1 /\ UNCHANGED lock
  /\ UNCHANGED <<setting, registered, flags, work, stats, history>>

SetRegistered(r) ==
  /\ Goto(r, "added", "resolve")
  /\ registered' = TRUE
  /\ lock' = None
  /\ UNCHANGED <<setting, listeners, flags, work, stats, history>>

-----------------------------------------------------------------------------
(***************************************************************************)
(* Tenancy.                                                                *)
(***************************************************************************)

Said == Name \cup {Empty, None}  \* a header, or a host

\* A host is mapped if host_mapping has it, which may map it to "".
Mapped(host) == IF host \in Name THEN Mapping[host] ELSE host

\* TenantResolver.__call__: only "both" passes over a value that is empty.
TenantOf(source, precedence, header, host) ==
  LET first  == IF precedence = "header" THEN header ELSE Mapped(host)
      second == IF precedence = "header" THEN Mapped(host) ELSE header
  IN CASE source = "header"                                -> header
       [] source = "host"                                  -> Mapped(host)
       [] source = "both" /\ first \in Name                -> first
       [] source = "both" /\ first \notin Name /\ second \in Name -> second
       [] OTHER                                            -> None

Tenants == {TenantOf(source, precedence, header, host) :
              source \in {"header", "host", "both"}, precedence \in {"header", "host"},
              header \in Said, host \in Said}

\* resolve_tenant: 400 for no value or an empty one, 404 for an unknown one.
Resolve(r) ==
  /\ MayRun(r)
  /\ \E tenant \in Tenants :
       Goto(r, "resolve", IF tenant \in Db THEN "lookup" ELSE "ended")
  /\ UNCHANGED <<setting, events, flags, work, stats, history>>

-----------------------------------------------------------------------------
(***************************************************************************)
(* runtime_flags round get_database in a request, and round migrate_cmd in *)
(* a background migration.  `dev` and strict_translation are saved and     *)
(* restored alike: `dev` stands for both.                                  *)
(***************************************************************************)

ScopeOf(a) == CASE scoping = "process"                  -> "process"
                [] scoping = "thread" /\ Coroutine(a)   -> loop[a]
                [] OTHER                                -> a

SetFlags(a, to) == dev' = [dev EXCEPT ![ScopeOf(a)] = to]

EnterFlags(a) ==
  /\ MayRun(a)
  /\ Goto(a, IF a \in Request THEN "lookup" ELSE "new", "flagged")
  /\ saved' = [saved EXCEPT ![a] = dev[ScopeOf(a)]]
  /\ SetFlags(a, DevOf[a])
  /\ UNCHANGED <<setting, events, seen, work, stats, history>>

\* get_database raises if the configuration cannot be read.
GetDatabase(r) ==
  /\ \/ /\ Goto(r, "flagged", "configured")
        /\ seen' = [seen EXCEPT ![r] = dev[ScopeOf(r)]]
     \/ Goto(r, "flagged", "raised") /\ UNCHANGED seen
  /\ UNCHANGED <<setting, events, dev, saved, work, stats, history>>

\* Each version is migrated under the flags of the moment.
Migrate(g) ==
  /\ pc[g] = "flagged"
  /\ seen' = [seen EXCEPT ![g] = dev[ScopeOf(g)]]
  /\ UNCHANGED <<setting, events, pc, dev, saved, work, stats, history>>

\* Mutant: without try and finally, an exception leaves the flags as they are.
RestoreUnlessRaised(a) ==
  /\ \/ Goto(a, "configured", "run")
     \/ Goto(a, "raised", "ended")
     \/ a \in Migration /\ Goto(a, "flagged", "ended")
  /\ IF pc[a] = "raised" THEN UNCHANGED dev ELSE SetFlags(a, saved[a])
  /\ UNCHANGED <<setting, events, saved, seen, work, stats, history>>

\* The `finally` clause.
Restore(a) ==
  /\ \/ Goto(a, "configured", "run")
     \/ Goto(a, "raised", "ended")
     \/ a \in Migration /\ Goto(a, "flagged", "ended")
  /\ SetFlags(a, saved[a])
  /\ saved' = [saved EXCEPT ![a] = FALSE]
  /\ UNCHANGED <<setting, events, seen, work, stats, history>>

-----------------------------------------------------------------------------
(***************************************************************************)
(* Statements.  The threads and child tasks of a request have its          *)
(* _QueryStats in their context, also when they outlive it.                *)
(***************************************************************************)

\* The two steps of recording are one for coroutines of the same loop.
WorkerMayRun(w) ==
  w \notin ThreadWorker =>
    /\ \A b \in Request : loop[b] = loop[OwnerOf[w]] => ~HoldsLoop(b)
    /\ \A v \in Worker \ (ThreadWorker \cup {w}) :
         loop[OwnerOf[v]] = loop[OwnerOf[w]] => wpc[v] \notin {"record", "record_error"}

WGoto(w, from, to) == wpc[w] = from /\ wpc' = [wpc EXCEPT ![w] = to]

Others(w) == {v \in Worker \ {w} : /\ OwnerOf[v] = OwnerOf[w]
                                   /\ wpc[v] \in {"record", "record_error"}}

Begin(w) ==
  /\ WorkerMayRun(w)
  /\ pc[OwnerOf[w]] = "run"
  /\ todo[w] > 0
  /\ WGoto(w, "idle", "execute")
  /\ todo' = [todo EXCEPT ![w] = @ - 1]
  /\ UNCHANGED <<setting, events, pc, flags, old, elapsed, stats, history>>

\* _record_query up to the call of max(): query_count is incremented and
\* slowest_query_time read.  Every listener does it.
Record(w, to, time) ==
  LET r == OwnerOf[w] IN
  /\ wpc' = [wpc EXCEPT ![w] = to]
  /\ elapsed' = [elapsed EXCEPT ![w] = time]
  /\ old' = [old EXCEPT ![w] = slowest[r]]
  /\ count' = [count EXCEPT ![r] = @ + listeners]
  /\ longest' = [longest EXCEPT ![r] = IF time > @ THEN time ELSE @]
  /\ raced' = [raced EXCEPT ![r] = @ \/ Others(w) # {}]
  /\ UNCHANGED <<setting, events, pc, flags, todo, slowest>>

\* after_cursor_execute, or handle_error.
Execute(w) ==
  /\ WorkerMayRun(w)
  /\ wpc[w] = "execute"
  /\ \E to \in {"record", "record_error"}, time \in Times : Record(w, to, time)
  /\ finished' = [finished EXCEPT ![OwnerOf[w]] = @ + 1]
  /\ UNCHANGED doubled

\* The end of _record_query; rows are fetched of a statement that succeeded.
Recorded(w) ==
  /\ \/ WGoto(w, "record", "fetch") /\ UNCHANGED elapsed
     \/ WGoto(w, "record_error", "idle") /\ elapsed' = [elapsed EXCEPT ![w] = 0]
  /\ old' = [old EXCEPT ![w] = 0]
  /\ UNCHANGED <<setting, events, pc, flags, todo, count, history>>

\* Mutant: slowest_query_time is added up like total_query_time.
AddUp(w) ==
  /\ slowest' = [slowest EXCEPT ![OwnerOf[w]] = old[w] + elapsed[w]]
  /\ Recorded(w)

\* Mutant: the last statement is taken for the slowest.
KeepLast(w) ==
  /\ slowest' = [slowest EXCEPT ![OwnerOf[w]] = elapsed[w]]
  /\ Recorded(w)

\* slowest_query_time = max(...)
Store(w) ==
  /\ slowest' = [slowest EXCEPT ![OwnerOf[w]] =
                   IF elapsed[w] > old[w] THEN elapsed[w] ELSE old[w]]
  /\ Recorded(w)

\* Rows arrive, or an error does, which handle_error records once more, with
\* the time since the statement began.
Fetch(w) ==
  /\ WorkerMayRun(w)
  /\ \/ /\ WGoto(w, "fetch", "idle")
        /\ elapsed' = [elapsed EXCEPT ![w] = 0]
        /\ UNCHANGED <<setting, events, pc, flags, todo, old, stats, history>>
     \/ /\ wpc[w] = "fetch"
        /\ \E time \in elapsed[w]..MaxTime : Record(w, "record_error", time)
        /\ doubled' = [doubled EXCEPT ![OwnerOf[w]] = TRUE]
        /\ UNCHANGED finished

\* The middleware resets its context and logs.
End(r) ==
  /\ MayRun(r)
  /\ Goto(r, "run", "ended")
  /\ UNCHANGED <<setting, events, flags, work, stats, history>>

Next ==
  \/ \E r \in Request : \/ CheckRegistered(r) \/ TakeLock(r) \/ Listen(r)
                        \/ SetRegistered(r) \/ Resolve(r) \/ GetDatabase(r)
                        \/ End(r)
  \/ \E a \in Actor : EnterFlags(a) \/ Restore(a)
  \/ \E g \in Migration : Migrate(g)
  \/ \E w \in Worker : Begin(w) \/ Execute(w) \/ Store(w) \/ Fetch(w)

Spec == Init /\ [][Next]_vars

-----------------------------------------------------------------------------
\* Every statement of a request is counted, and counted once, whatever else
\* runs in the process and however many middlewares registered listeners -
\* but for statements whose rows failed to arrive, which count twice.
CountedOnce ==
  \A r \in Request :
    /\ count[r] >= finished[r]
    /\ ~doubled[r] => count[r] = finished[r]

\* slowest_query_time is never more than the longest time recorded, and is
\* that time when nobody is about to store one, unless two workers of the
\* request were between reading and storing it at once.
SlowestIsLongest ==
  \A r \in Request :
    /\ slowest[r] <= longest[r]
    /\ \/ raced[r]
       \/ \E w \in Worker : OwnerOf[w] = r /\ wpc[w] \in {"record", "record_error"}
       \/ slowest[r] = longest[r]

\* Those who have been inside runtime_flags in a scope.
Users(s) == {a \in Actor : /\ ScopeOf(a) = s
                           /\ pc[a] \in {"flagged", "configured", "raised", "run", "ended"}}

OneLoop(a, b) == Coroutine(a) /\ Coroutine(b) /\ loop[a] = loop[b]

\* As long as a scope is used by coroutines of one event loop only, or by one
\* thread only, each works under the flags it asked for, and when none is
\* inside runtime_flags the flags are what they were.
FlagsKept ==
  \A s \in Scope :
    (\A a, b \in Users(s) : a = b \/ OneLoop(a, b))
    => /\ \A a \in Users(s) : seen[a] = DevOf[a]
       /\ \/ \E a \in Users(s) : pc[a] \in {"flagged", "configured", "raised"}
          \/ dev[s] = FALSE

=============================================================================
