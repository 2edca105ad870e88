-------------------------- MODULE ClickHouseClients --------------------------
(***************************************************************************)
(* The process-wide ClickHouse clients of engines.py: one cache filled by  *)
(* asynchronous dependencies, one by synchronous ones.  No lock guards     *)
(* them: a coroutine tests its cache, awaits the connection and only then  *)
(* stores the client; a thread may be preempted anywhere.  dispose_engines *)
(* drops every client, on the event loop.                                  *)
(***************************************************************************)
EXTENDS Naturals

CONSTANTS
  AsyncCaller,  \* requests served by coroutines on the event loop
  SyncCaller,   \* requests whose synchronous dependency runs in a thread
  Disposer,     \* calls of dispose_engines, on the event loop
  Db,           \* configured database names
  DefaultDb,    \* the one get_database(None) returns
  DefaultKey,   \* the cache key "default"
  Client,       \* the clients a behaviour may create: bounds their number
  NoName,       \* the database argument None
  NoClient, NoDb

Caller == AsyncCaller \cup SyncCaller
Actor  == Caller \cup Disposer
Name   == Db \cup {NoName}
Key    == Db \cup {DefaultKey}
Kind   == {"async", "sync"}

ASSUME ClientsAssumption ==
  /\ AsyncCaller \cap SyncCaller = {}
  /\ Caller \cap Disposer = {}
  /\ DefaultDb \in Db
  /\ NoName \notin Db
  /\ NoDb \notin Db
  /\ NoClient \notin Client

VARIABLES
  cache,  \* _CLICKHOUSE_ASYNC_CLIENTS and _CLICKHOUSE_SYNC_CLIENTS
  made,   \* the database each client was created for
  pc,     \* where each actor is
  name,   \* the database argument of each request
  got     \* the client a request has created or was given

vars == <<cache, made, pc, name, got>>

PC == {"new",
       "connect",  \* missed; for a coroutine: awaits the connection
       "store",    \* connected
       "read",     \* about to subscript the cache
       "ready",    \* the handler has the client
       "done", "import_error", "connect_error", "key_error"}

TypeOK ==
  /\ cache \in [Kind -> [Key -> Client \cup {NoClient}]]
  /\ made \in [Client -> Db \cup {NoDb}]
  /\ pc \in [Actor -> PC]
  /\ name \in [Caller -> Name]
  /\ got \in [Caller -> Client \cup {NoClient}]

Init ==
  /\ cache = [k \in Kind |-> [y \in Key |-> NoClient]]
  /\ made = [x \in Client |-> NoDb]
  /\ pc = [a \in Actor |-> "new"]
  /\ name \in [Caller -> Name]
  /\ got = [c \in Caller |-> NoClient]

KindOf(c) == IF c \in AsyncCaller THEN "async" ELSE "sync"

\* Mutant: the closure has lost the name of its database.
KeyOfAny(n) == DefaultKey

\* name = database or "default"
KeyOf(n) == IF n = NoName THEN DefaultKey ELSE n

\* The database get_database(n) returns, whose URL a client is created for.
DatabaseOf(n) == IF n = NoName THEN DefaultDb ELSE n

Slot(c) == cache[KindOf(c)][KeyOf(name[c])]

\* A coroutine that has its connection stores and reads without an await.
LoopFree(a) ==
  a \notin SyncCaller => \A b \in AsyncCaller : pc[b] \notin {"store", "read"}

Goto(a, from, to) == pc[a] = from /\ pc' = [pc EXCEPT ![a] = to]

Hit(c) ==
  /\ LoopFree(c)
  /\ Goto(c, "new", "read")
  /\ Slot(c) # NoClient
  /\ UNCHANGED <<cache, made, name, got>>

\* clickhouse_connect is imported on a miss only, and may be absent.
Miss(c) ==
  /\ LoopFree(c)
  /\ Goto(c, "new", "connect") \/ Goto(c, "new", "import_error")
  /\ Slot(c) = NoClient
  /\ UNCHANGED <<cache, made, name, got>>

Connect(c) ==
  /\ LoopFree(c)
  /\ Goto(c, "connect", "store")
  /\ \E x \in {y \in Client : made[y] = NoDb} :
       /\ made' = [made EXCEPT ![x] = DatabaseOf(name[c])]
       /\ got' = [got EXCEPT ![c] = x]
  /\ UNCHANGED <<cache, name>>

ConnectFails(c) ==
  /\ LoopFree(c)
  /\ Goto(c, "connect", "connect_error")
  /\ UNCHANGED <<cache, made, name, got>>

\* Mutant: a new client is yielded as it is.
YieldUncached(c) ==
  /\ Goto(c, "store", "ready")
  /\ UNCHANGED <<cache, made, name, got>>

\* Mutant: the client is stored under the name of its database.
StoreUnderDb(c) ==
  /\ Goto(c, "store", "read")
  /\ cache' = [cache EXCEPT ![KindOf(c)][DatabaseOf(name[c])] = got[c]]
  /\ UNCHANGED <<made, name, got>>

\* Whatever another request stored in the meantime is replaced.
Store(c) ==
  /\ Goto(c, "store", "read")
  /\ cache' = [cache EXCEPT ![KindOf(c)][KeyOf(name[c])] = got[c]]
  /\ UNCHANGED <<made, name, got>>

\* yield _CLICKHOUSE_..._CLIENTS[name]
Read(c) ==
  /\ IF Slot(c) # NoClient
     THEN Goto(c, "read", "ready") /\ got' = [got EXCEPT ![c] = Slot(c)]
     ELSE Goto(c, "read", "key_error") /\ UNCHANGED got
  /\ UNCHANGED <<cache, made, name>>

Finish(c) ==
  /\ LoopFree(c)
  /\ Goto(c, "ready", "done")
  /\ UNCHANGED <<cache, made, name, got>>

\* dispose_engines clears both caches.
Clear(d) ==
  /\ LoopFree(d)
  /\ Goto(d, "new", "done")
  /\ cache' = [k \in Kind |-> [y \in Key |-> NoClient]]
  /\ UNCHANGED <<made, name, got>>

Next ==
  \/ \E c \in Caller :
       \/ Hit(c) \/ Miss(c) \/ Connect(c) \/ ConnectFails(c) \/ Store(c)
       \/ Read(c) \/ Finish(c)
  \/ \E d \in Disposer : Clear(d)

Spec == Init /\ [][Next]_vars

-----------------------------------------------------------------------------
\* A request gets a client of its own database, however requests that miss
\* together replace each other's clients, unless a database that is not the
\* default one is called "default" (__init__.py:62).
ClientOfOwnDatabase ==
  (DefaultKey \in Db => DefaultKey = DefaultDb) =>
    \A c \in Caller : pc[c] = "ready" => made[got[c]] = DatabaseOf(name[c])

\* The subscript that ends a dependency (engines.py:159, :186) raises only in
\* a thread that dispose_engines has overtaken: a coroutine never sees its
\* client go, and requests that race each other never lose one.
KeyErrorOnlyAtShutdown ==
  \A c \in Caller : pc[c] = "key_error" =>
    c \in SyncCaller /\ \E d \in Disposer : pc[d] = "done"

\* A client is in no request's hands before it is cached, and whoever uses
\* one that is no longer cached lost a race to create it or was overtaken by
\* dispose_engines.
UncachedOnlyAfterRace ==
  \A c \in Caller : pc[c] = "ready" /\ Slot(c) # got[c] =>
    \/ \E d \in Disposer : pc[d] = "done"
    \/ \E b \in Caller \ {c} :
         /\ KindOf(b) = KindOf(c) /\ KeyOf(name[b]) = KeyOf(name[c])
         /\ pc[b] \in {"read", "ready", "done"} /\ got[b] # got[c]

\* _make_clickhouse_dep "yields a shared AsyncClient" (engines.py:138):
\* until dispose_engines is called, one database has one.
SharedClient ==
  (\A d \in Disposer : pc[d] = "new") =>
    \A b, c \in AsyncCaller :
      pc[b] = "ready" /\ pc[c] = "ready" /\ name[b] = name[c] => got[b] = got[c]

=============================================================================
