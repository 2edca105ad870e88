----------------------------- MODULE EngineCache -----------------------------
(***************************************************************************)
(* The process-wide caches of SQLAlchemy engines: the asynchronous and the *)
(* synchronous one of engines.py, guarded by _LOCK, and the one of         *)
(* session.py, guarded by _SESSION_LOCK.  Requests look engines up and     *)
(* create them on a miss; dispose_engines, called by a lifespan that shuts *)
(* down, detaches the caches of engines.py and passes every factory they   *)
(* held to _dispose_one.                                                   *)
(*                                                                         *)
(* Asynchronous dependencies and dispose_engines run on the event loop,    *)
(* where code without an await is not interrupted by other coroutines, but *)
(* the thread pool that runs synchronous dependencies preempts them        *)
(* anywhere.  Each actor is one call: a request, or one dispose_engines.   *)
(***************************************************************************)
EXTENDS Naturals

CONSTANTS
  LoopCaller,    \* requests served by coroutines on the event loop
  ThreadCaller,  \* requests whose synchronous dependency runs in a thread
  Disposer,      \* calls of dispose_engines, on the event loop
  Db,            \* configured database names
  DefaultDb,     \* the one get_database(None) returns
  Target,        \* what a URL names apart from its password
  AsyncTarget,   \* the targets _to_async_url finds an asynchronous driver for
  Password,      \* the passwords a URL may carry
  Engine,        \* the engines a behaviour may create: bounds their number
  NoName,        \* the database argument None
  NoUrl, NoEngine, Free

Caller == LoopCaller \cup ThreadCaller
Actor  == Caller \cup Disposer

\* _ASYNC_SESSION_FACTORIES, _SYNC_SESSION_FACTORIES and _SESSION_FACTORIES.
Kind == {"async", "sync", "session"}

\* The caches dispose_engines knows: those of engines.py.
Disposable == {"async", "sync"}

Lock == {"_LOCK", "_SESSION_LOCK"}

LockOf(k) == IF k = "session" THEN "_SESSION_LOCK" ELSE "_LOCK"

Url == [target : Target, password : Password]

\* Mutant: the digest leaves the password out.
KeyWithoutPassword(u) == <<u.target, CHOOSE p \in Password : TRUE>>

\* The cache key: a digest of the whole URL, credentials included.
CacheKey(u) == <<u.target, u.password>>

Key == Target \X Password

ASSUME ConstantsAssumption ==
  /\ LoopCaller \cap ThreadCaller = {}
  /\ Caller \cap Disposer = {}
  /\ Free \notin Actor
  /\ NoEngine \notin Engine
  /\ NoUrl \notin Url
  /\ NoUrl \notin [kind : Kind, url : Url]
  /\ NoName \notin Db
  /\ DefaultDb \in Db
  /\ AsyncTarget \subseteq Target

VARIABLES
  cfg,       \* the URL each database is configured with
  lock,      \* the holder of each lock
  cache,     \* the engine cached under each key of each cache
  made,      \* the cache and URL each engine was created for
  detached,  \* engines dispose_engines took out of the caches
  passed,    \* engines whose factory was passed to _dispose_one
  cutOff,    \* requests that had a factory when it was taken out of its cache
  open,      \* engines whose current pool holds connections
  pc,        \* where each actor is
  kind, url, \* the cache a caller looks in and the URL it resolved
  got,       \* the engine behind the factory a caller was given
  todo       \* what a dispose call has still to dispose

vars == <<cfg, lock, cache, made, detached, passed, cutOff, open, pc,
          kind, url, got, todo>>

callerVars == <<kind, url, got>>
poolVars   == <<detached, passed, cutOff, open>>

CallerPC ==
  {"new",         \* the request has not reached its dependency
   "lookup",      \* URL resolved, waiting for the lock
   "check",       \* holds the lock, about to test the cache
   "create",      \* holds the lock, missed, about to create and store
   "ready",       \* has its factory
   "session",     \* inside `async with factory() as session`
   "done", "type_error", "value_error", "engine_error"}

DisposerPC == {"new", "lock", "detach", "dispose", "done"}

TypeOK ==
  /\ cfg \in [Db -> Url]
  /\ lock \in [Lock -> Actor \cup {Free}]
  /\ cache \in [Kind -> [Key -> Engine \cup {NoEngine}]]
  /\ made \in [Engine -> [kind : Kind, url : Url] \cup {NoUrl}]
  /\ detached \subseteq Engine
  /\ passed \subseteq Engine
  /\ cutOff \subseteq Caller
  /\ open \subseteq Engine
  /\ pc \in [Actor -> CallerPC \cup DisposerPC]
  /\ kind \in [Caller -> Kind]
  /\ url \in [Caller -> Url \cup {NoUrl}]
  /\ got \in [Caller -> Engine \cup {NoEngine}]
  /\ todo \in [Disposer -> SUBSET Engine]

CachedIn(K) ==
  {e \in Engine : \E k \in K, key \in Key : cache[k][key] = e}

Goto(a, from, to) == pc[a] = from /\ pc' = [pc EXCEPT ![a] = to]

-----------------------------------------------------------------------------
(***************************************************************************)
(* The event loop.  From the first statement of a dependency to the        *)
(* yielded session, and in the whole of dispose_engines, there is no       *)
(* await: no other coroutine runs in between.                              *)
(***************************************************************************)
MidSegment(a) ==
  \/ a \in LoopCaller /\ pc[a] \in {"lookup", "check", "create", "ready"}
  \/ a \in Disposer /\ pc[a] \in {"lock", "detach", "dispose"}

LoopFree(a) ==
  a \notin ThreadCaller => \A b \in LoopCaller \cup Disposer : ~MidSegment(b)

\* A request that has got its factory and not yet let go of it.
HasFactory(c) == pc[c] \in {"ready", "session"}

-----------------------------------------------------------------------------
KindsOf(c) == IF c \in LoopCaller THEN {"async", "session"} ELSE {"sync"}

\* _database_name: session.py keeps None for get_database, which takes the
\* default; engines.py has no case for None and raises TypeError.
DatabaseName(k, n) == IF n = NoName /\ k = "session" THEN DefaultDb ELSE n

\* The configuration is read and its URL kept in a local variable; a type
\* without an asynchronous driver is refused before the cache is looked at.
Resolve(c, k, n) ==
  /\ pc[c] = "new"
  /\ k \in KindsOf(c)
  /\ LoopFree(c)
  /\ kind' = [kind EXCEPT ![c] = k]
  /\ \/ /\ DatabaseName(k, n) = NoName
        /\ pc' = [pc EXCEPT ![c] = "type_error"]
        /\ UNCHANGED url
     \/ /\ DatabaseName(k, n) # NoName
        /\ url' = [url EXCEPT ![c] = cfg[DatabaseName(k, n)]]
        /\ pc' = [pc EXCEPT ![c] =
                    IF k = "sync" \/ url'[c].target \in AsyncTarget
                    THEN "lookup" ELSE "value_error"]
  /\ UNCHANGED <<cfg, lock, cache, made, poolVars, got, todo>>

\* Mutant: the cache is tested without waiting for the lock.
AcquireUnguarded(c) ==
  /\ Goto(c, "lookup", "check")
  /\ lock' = [lock EXCEPT ![LockOf(kind[c])] = c]
  /\ UNCHANGED <<cfg, cache, made, poolVars, callerVars, todo>>

\* with _LOCK: blocks the thread while another actor holds the lock.
Acquire(c) ==
  /\ Goto(c, "lookup", "check")
  /\ lock[LockOf(kind[c])] = Free
  /\ lock' = [lock EXCEPT ![LockOf(kind[c])] = c]
  /\ UNCHANGED <<cfg, cache, made, poolVars, callerVars, todo>>

Slot(c) == cache[kind[c]][CacheKey(url[c])]

\* Mutant: the early return of a hit leaves the lock taken.
HitKeepsLock(c) ==
  /\ Goto(c, "check", "ready")
  /\ Slot(c) # NoEngine
  /\ got' = [got EXCEPT ![c] = Slot(c)]
  /\ UNCHANGED <<cfg, lock, cache, made, poolVars, kind, url, todo>>

Hit(c) ==
  /\ Goto(c, "check", "ready")
  /\ Slot(c) # NoEngine
  /\ got' = [got EXCEPT ![c] = Slot(c)]
  /\ lock' = [lock EXCEPT ![LockOf(kind[c])] = Free]
  /\ UNCHANGED <<cfg, cache, made, poolVars, kind, url, todo>>

Miss(c) ==
  /\ Goto(c, "check", "create")
  /\ Slot(c) = NoEngine
  /\ UNCHANGED <<cfg, lock, cache, made, poolVars, callerVars, todo>>

\* Create the engine and its factory, store the factory, leave the lock.
Store(c) ==
  /\ Goto(c, "create", "ready")
  /\ \E e \in {x \in Engine : made[x] = NoUrl} :
       /\ made' = [made EXCEPT ![e] = [kind |-> kind[c], url |-> url[c]]]
       /\ cache' = [cache EXCEPT ![kind[c]][CacheKey(url[c])] = e]
       /\ got' = [got EXCEPT ![c] = e]
  /\ lock' = [lock EXCEPT ![LockOf(kind[c])] = Free]
  /\ UNCHANGED <<cfg, poolVars, kind, url, todo>>

\* Mutant: the exception leaves the lock taken.
CreateFailsKeepsLock(c) ==
  /\ Goto(c, "create", "engine_error")
  /\ UNCHANGED <<cfg, lock, cache, made, poolVars, callerVars, todo>>

\* create_engine raises (a driver that is not installed): nothing is cached.
CreateFails(c) ==
  /\ Goto(c, "create", "engine_error")
  /\ lock' = [lock EXCEPT ![LockOf(kind[c])] = Free]
  /\ UNCHANGED <<cfg, cache, made, poolVars, callerVars, todo>>

OpenSession(c) ==
  /\ Goto(c, "ready", "session")
  /\ UNCHANGED <<cfg, lock, cache, made, poolVars, callerVars, todo>>

\* The handler's statements take a connection from the engine's pool.
Execute(c) ==
  /\ pc[c] = "session"
  /\ LoopFree(c)
  /\ open' = open \cup {got[c]}
  /\ UNCHANGED <<cfg, lock, cache, made, detached, passed, cutOff, pc,
                 callerVars, todo>>

\* The session goes back; its connection stays in the pool.
CloseSession(c) ==
  /\ LoopFree(c)
  /\ Goto(c, "session", "done")
  /\ UNCHANGED <<cfg, lock, cache, made, poolVars, callerVars, todo>>

-----------------------------------------------------------------------------
DisposeCall(d) ==
  /\ LoopFree(d)
  /\ Goto(d, "new", "lock")
  /\ UNCHANGED <<cfg, lock, cache, made, poolVars, callerVars, todo>>

\* Mutant: the factories are listed before _LOCK is taken.
SnapshotUnguarded(d) ==
  /\ Goto(d, "lock", "detach")
  /\ todo' = [todo EXCEPT ![d] = CachedIn(Disposable)]
  /\ UNCHANGED <<cfg, lock, cache, made, poolVars, callerVars>>

\* Take _LOCK and list the factories of the two caches.
Snapshot(d) ==
  /\ Goto(d, "lock", "detach")
  /\ lock["_LOCK"] = Free
  /\ lock' = [lock EXCEPT !["_LOCK"] = d]
  /\ todo' = [todo EXCEPT ![d] = CachedIn(Disposable)]
  /\ UNCHANGED <<cfg, cache, made, poolVars, callerVars>>

\* Mutant: only one of the two caches is cleared.
DetachSyncOnly(d) ==
  /\ Goto(d, "detach", "dispose")
  /\ cache' = [cache EXCEPT !["sync"] = [key \in Key |-> NoEngine]]
  /\ detached' = detached \cup todo[d]
  /\ cutOff' = cutOff \cup {c \in Caller : HasFactory(c) /\ got[c] \in todo[d]}
  /\ lock' = [lock EXCEPT !["_LOCK"] = Free]
  /\ UNCHANGED <<cfg, made, passed, open, callerVars, todo>>

Detach(d) ==
  /\ Goto(d, "detach", "dispose")
  /\ cache' = [k \in Kind |-> IF k \in Disposable
                              THEN [key \in Key |-> NoEngine] ELSE cache[k]]
  /\ detached' = detached \cup todo[d]
  /\ cutOff' = cutOff \cup {c \in Caller : HasFactory(c) /\ got[c] \in todo[d]}
  /\ lock' = [lock EXCEPT !["_LOCK"] = Free]
  /\ UNCHANGED <<cfg, made, passed, open, callerVars, todo>>

\* _dispose_one looks for the engine in the factory's attribute bind.  Neither
\* sessionmaker nor async_sessionmaker has one (the engine is in kw["bind"]):
\* it returns at once and the pool stays as it is.
DisposeOne(d) ==
  /\ pc[d] = "dispose"
  /\ \E e \in todo[d] :
       /\ todo' = [todo EXCEPT ![d] = @ \ {e}]
       /\ passed' = passed \cup {e}
  /\ UNCHANGED <<cfg, lock, cache, made, detached, cutOff, open, pc, callerVars>>

DisposeReturn(d) ==
  /\ todo[d] = {}
  /\ Goto(d, "dispose", "done")
  /\ UNCHANGED <<cfg, lock, cache, made, poolVars, callerVars, todo>>

-----------------------------------------------------------------------------
\* A database gets another URL: override_database, or rotated credentials.
Reconfigure(n, u) ==
  /\ cfg' = [cfg EXCEPT ![n] = u]
  /\ UNCHANGED <<lock, cache, made, poolVars, pc, callerVars, todo>>

Init ==
  /\ cfg \in [Db -> Url]
  /\ lock = [l \in Lock |-> Free]
  /\ cache = [k \in Kind |-> [key \in Key |-> NoEngine]]
  /\ made = [e \in Engine |-> NoUrl]
  /\ detached = {} /\ passed = {} /\ cutOff = {} /\ open = {}
  /\ pc = [a \in Actor |-> "new"]
  /\ kind = [c \in Caller |-> "sync"]
  /\ url = [c \in Caller |-> NoUrl]
  /\ got = [c \in Caller |-> NoEngine]
  /\ todo = [d \in Disposer |-> {}]

\* One dependency, from its lookup to the yielded session.
Lookup(c) ==
  \/ Acquire(c) \/ Hit(c) \/ Miss(c) \/ Store(c) \/ CreateFails(c)
  \/ OpenSession(c)

Dispose(d) ==
  Snapshot(d) \/ Detach(d) \/ DisposeOne(d) \/ DisposeReturn(d)

Next ==
  \/ \E c \in Caller :
       \/ \E k \in Kind, n \in Db \cup {NoName} : Resolve(c, k, n)
       \/ Lookup(c) \/ Execute(c) \/ CloseSession(c)
  \/ \E d \in Disposer : DisposeCall(d) \/ Dispose(d)
  \/ \E n \in Db, u \in Url : Reconfigure(n, u)

\* Code that runs holds no lock across an await, so the scheduler lets every
\* lookup and every dispose call that has started go on.
Fairness ==
  /\ \A c \in Caller : WF_vars(Lookup(c))
  /\ \A d \in Disposer : WF_vars(Dispose(d))

Spec == Init /\ [][Next]_vars

FairSpec == Spec /\ Fairness

-----------------------------------------------------------------------------
\* An actor that is between the two ends of the `with` of l.
Holds(a, l) ==
  IF a \in Caller THEN pc[a] \in {"check", "create"} /\ LockOf(kind[a]) = l
                  ELSE pc[a] = "detach" /\ l = "_LOCK"

Cached(e) == e \in CachedIn(Kind)

\* An engine that was taken out to be disposed is in no cache: a lookup that
\* starts after dispose_engines detached the caches "always creates a fresh
\* pool" (engines.py:224), whatever a thread was looking up meanwhile.
CachedEnginesAreLive == \A e \in detached : ~Cached(e)

\* Two lookups of one URL share one engine, at whatever points they
\* interleave: an engine stays in its slot from its creation until
\* dispose_engines takes it out, and is never overwritten by a second one.
OneEnginePerKey ==
  \A e \in Engine : made[e] # NoUrl =>
    \/ e \in detached
    \/ cache[made[e].kind][CacheKey(made[e].url)] = e

\* A request gets a session of the very URL it resolved, although databases
\* are reconfigured meanwhile: "different tenants must not reuse an engine
\* when only their password differs" (engines.py:41-42).
SessionMatchesUrl ==
  \A c \in Caller : HasFactory(c) =>
    /\ got[c] \in Engine
    /\ made[got[c]] = [kind |-> kind[c], url |-> url[c]]

\* No engine of the caches of engines.py escapes a shutdown, whatever threads
\* store between the listing of the factories and the clearing of the caches:
\* it is still cached, or its factory was passed to _dispose_one, or a dispose
\* call that is under way will pass it.
NoEngineSkipped ==
  \A e \in Engine : made[e] # NoUrl /\ made[e].kind \in Disposable =>
    \/ Cached(e)
    \/ e \in passed
    \/ \E d \in Disposer : pc[d] = "dispose" /\ e \in todo[d]

\* While a request has its factory, the engine behind it stays cached, unless
\* dispose_engines takes that very factory out meanwhile: only requests under
\* way at a shutdown go on with a pool that no cache refers to.
EngineStaysCached ==
  \A c \in Caller : HasFactory(c) => Cached(got[c]) \/ c \in cutOff

\* A pool with connections belongs to a cache, to a dispose call that is under
\* way, or to a request the caches were detached under: "this disposes every
\* cached SQLAlchemy engine (async and sync)" (engines.py:216).
NoLeakedPool ==
  \A e \in open :
    \/ Cached(e)
    \/ \E d \in Disposer : pc[d] = "dispose" /\ e \in todo[d]
    \/ \E c \in cutOff : got[c] = e

\* The caches are a Registry: although a lookup takes several steps under
\* its lock and a dispose call lists the factories before it clears the
\* caches, each takes effect at one instant: a lookup when it leaves its
\* lock, a clearing when the caches are empty.  The places of the table are
\* the slots of the three caches.
OneTable == [s \in Kind \X Key |-> cache[s[1]][s[2]]]

Wanted(c) ==
  IF pc[c] \in {"lookup", "check", "create"}
  THEN <<kind[c], CacheKey(url[c])>> ELSE <<>>

Given(c) == IF HasFactory(c) THEN got[c] ELSE NoEngine

ARegistry == INSTANCE Registry WITH
  Requester <- Caller, Place <- Kind \X Key, Cleared <- Disposable \X Key,
  Item <- Engine, Nothing <- NoEngine, Nowhere <- <<>>,
  table <- OneTable, used <- {e \in Engine : made[e] # NoUrl},
  wants <- [c \in Caller |-> Wanted(c)], given <- [c \in Caller |-> Given(c)],
  retired <- detached, discarded <- passed

ImplementsRegistry == ARegistry!RegistrySpec

\* A request that has resolved its URL gets a session or an error: no lock
\* is left taken on an early return or an exception.
LookupCompletes ==
  \A c \in Caller :
    pc[c] = "lookup" ~> pc[c] \in {"session", "done", "engine_error"}

\* A dispose call returns, whatever lookups compete with it for the lock.
DisposeCompletes == \A d \in Disposer : pc[d] = "lock" ~> pc[d] = "done"

-----------------------------------------------------------------------------
(***************************************************************************)
(* The inductive invariant the theorems of EngineCacheProofs rest on.      *)
(***************************************************************************)
\* The holder of a lock is the actor between its two ends of the `with`.
LockInv == \A a \in Actor, l \in Lock : lock[l] = a <=> Holds(a, l)

\* A slot holds an engine that was created for it.
SlotInv ==
  \A k \in Kind, key \in Key : cache[k][key] # NoEngine =>
    /\ made[cache[k][key]] # NoUrl
    /\ made[cache[k][key]].kind = k
    /\ CacheKey(made[cache[k][key]].url) = key

\* Past its resolution a caller has a URL, and from a miss to the store that
\* follows it its slot stays empty.
CallerInv ==
  \A c \in Caller :
    /\ pc[c] \in {"lookup", "check", "create", "ready", "session"} =>
         url[c] \in Url
    /\ pc[c] = "create" => Slot(c) = NoEngine

\* The list made under the lock is what the caches hold until they are
\* cleared; then nothing of it is cached any more.
DisposerInv ==
  \A d \in Disposer :
    /\ pc[d] = "detach" => todo[d] = CachedIn(Disposable)
    /\ pc[d] = "dispose" => todo[d] \subseteq detached

DetachedInv ==
  /\ passed \subseteq detached
  /\ \A e \in detached : made[e] # NoUrl /\ ~Cached(e)

IInv ==
  /\ TypeOK
  /\ LockInv /\ SlotInv /\ CallerInv /\ DisposerInv /\ DetachedInv
  /\ OneEnginePerKey /\ SessionMatchesUrl /\ NoEngineSkipped /\ EngineStaysCached

=============================================================================
