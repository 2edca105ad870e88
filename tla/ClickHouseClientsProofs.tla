----------------------- MODULE ClickHouseClientsProofs -----------------------
(***************************************************************************)
(* Whose client a request gets and what a shutdown may do to it, for every *)
(* number of requests, shutdowns, databases and clients.                   *)
(***************************************************************************)
EXTENDS ClickHouseClients, TLAPS

\* The name "default" is free, or that of the default database.
KeysAreNames == DefaultKey \in Db => DefaultKey = DefaultDb

DatabaseOfKey(y) == IF y = DefaultKey THEN DefaultDb ELSE y

ShutDown == \E d \in Disposer : pc[d] = "done"

\* What is cached under a key was made for the database of the key.
CacheInv ==
  KeysAreNames =>
    \A k \in Kind, y \in Key :
      cache[k][y] # NoClient => made[cache[k][y]] = DatabaseOfKey(y)

\* What a request is about to store, or was given, was made for its database.
GotInv ==
  \A c \in Caller :
    /\ pc[c] = "store" => got[c] # NoClient /\ made[got[c]] = DatabaseOf(name[c])
    /\ pc[c] = "ready" => got[c] # NoClient
    /\ pc[c] = "ready" /\ KeysAreNames => made[got[c]] = DatabaseOf(name[c])

\* Whoever is about to subscript the cache finds a client there, unless it is
\* a thread and the caches have been cleared.
FilledInv ==
  \A c \in Caller :
    pc[c] = "read" => Slot(c) # NoClient \/ (c \in SyncCaller /\ ShutDown)

IInv ==
  /\ TypeOK
  /\ CacheInv
  /\ GotInv
  /\ FilledInv
  /\ KeyErrorOnlyAtShutdown
  /\ UncachedOnlyAfterRace

-----------------------------------------------------------------------------
\* A request's key and database are a key and a database.
LEMMA NamesAreKnown ==
  ASSUME TypeOK, NEW c \in Caller
  PROVE  /\ KeyOf(name[c]) \in Key
         /\ KindOf(c) \in Kind
         /\ DatabaseOf(name[c]) \in Db
         /\ Slot(c) \in Client \cup {NoClient}
  <1>1. name[c] \in Db \cup {NoName}
    BY DEF TypeOK, Name
  <1>2. KeyOf(name[c]) \in Key /\ KindOf(c) \in Kind /\ DatabaseOf(name[c]) \in Db
    BY <1>1, ClientsAssumption DEF KeyOf, Key, KindOf, Kind, DatabaseOf
  <1>. QED  BY <1>2 DEF Slot, TypeOK

\* The key of a request leads to the request's database.
LEMMA KeyLeadsToDatabase ==
  ASSUME TypeOK, KeysAreNames, NEW c \in Caller
  PROVE  DatabaseOfKey(KeyOf(name[c])) = DatabaseOf(name[c])
  <1>1. name[c] \in Db \cup {NoName}
    BY DEF TypeOK, Name
  <1>. QED  BY <1>1, ClientsAssumption DEF KeysAreNames, DatabaseOfKey, KeyOf, DatabaseOf

\* Init establishes the invariant: nothing is cached, nobody has begun.
LEMMA InitInv == Init => IInv
  <1>. SUFFICES ASSUME Init PROVE IInv
    OBVIOUS
  <1>1. TypeOK
    BY ClientsAssumption DEF Init, TypeOK, PC
  <1>2. \A c \in Caller : pc[c] = "new"
    BY DEF Init, Actor
  <1>3. CacheInv
    BY DEF Init, CacheInv
  <1>. QED
    BY <1>1, <1>2, <1>3 DEF IInv, GotInv, FilledInv, KeyErrorOnlyAtShutdown,
                            UncachedOnlyAfterRace

\* A request that begins, fails to connect or ends changes no client.
LEMMA ControlStep ==
  ASSUME IInv, NEW c \in Caller,
         Hit(c) \/ Miss(c) \/ ConnectFails(c) \/ Finish(c)
  PROVE  IInv'
  <1>. USE DEF Goto
  <1>1. UNCHANGED <<cache, made, name, got>>
    BY DEF Hit, Miss, ConnectFails, Finish
  <1>2. \E p \in PC : pc' = [pc EXCEPT ![c] = p] /\ p \notin {"store", "ready", "key_error"}
                      /\ (p = "read" => Slot(c) # NoClient)
                      /\ (pc[c] = "ready" => p = "done")
                      /\ pc[c] \notin {"read", "done"}
    BY DEF Hit, Miss, ConnectFails, Finish, PC
  <1>3. TypeOK'
    BY <1>1, <1>2 DEF IInv, TypeOK, Actor
  <1>4. CacheInv'
    BY <1>1 DEF IInv, CacheInv
  <1>5. \A x \in Caller : Slot(x)' = Slot(x)
    BY <1>1 DEF Slot
  <1>6. \A x \in Actor : x # c => pc'[x] = pc[x]
    BY <1>2 DEF IInv, TypeOK
  <1>7. ShutDown => ShutDown'
    BY <1>6, ClientsAssumption DEF ShutDown, Actor
  <1>8. \A x \in Caller : pc'[x] \in {"store", "ready", "key_error"} => pc[x] = pc'[x]
    BY <1>2, <1>6 DEF IInv, TypeOK, Actor
  <1>9. GotInv'
    BY <1>1, <1>8 DEF IInv, GotInv
  <1>10. FilledInv'
    <2>. SUFFICES ASSUME NEW x \in Caller, pc'[x] = "read"
                  PROVE  Slot(x)' # NoClient \/ (x \in SyncCaller /\ ShutDown')
      BY DEF FilledInv
    <2>1. CASE x = c
      BY <2>1, <1>2, <1>5 DEF IInv, TypeOK, Actor
    <2>2. CASE x # c
      BY <2>2, <1>5, <1>6, <1>7 DEF IInv, FilledInv, Actor
    <2>. QED  BY <2>1, <2>2
  <1>11. KeyErrorOnlyAtShutdown'
    BY <1>6, <1>7, <1>8 DEF IInv, KeyErrorOnlyAtShutdown, ShutDown
  <1>12. UncachedOnlyAfterRace'
    <2>. SUFFICES ASSUME NEW x \in Caller, pc'[x] = "ready", Slot(x)' # got'[x], ~ShutDown'
                  PROVE  \E b \in Caller \ {x} :
                           /\ KindOf(b) = KindOf(x) /\ KeyOf(name'[b]) = KeyOf(name'[x])
                           /\ pc'[b] \in {"read", "ready", "done"} /\ got'[b] # got'[x]
      BY DEF UncachedOnlyAfterRace, ShutDown
    <2>1. PICK b \in Caller \ {x} :
                 /\ KindOf(b) = KindOf(x) /\ KeyOf(name[b]) = KeyOf(name[x])
                 /\ pc[b] \in {"read", "ready", "done"} /\ got[b] # got[x]
      BY <1>1, <1>5, <1>7, <1>8 DEF IInv, UncachedOnlyAfterRace, ShutDown
    <2>2. pc'[b] \in {"read", "ready", "done"}
      BY <2>1, <1>2, <1>6 DEF IInv, TypeOK, Actor
    <2>. QED  BY <2>1, <2>2, <1>1
  <1>. QED
    BY <1>3, <1>4, <1>9, <1>10, <1>11, <1>12 DEF IInv

\* A connection makes a client that no cache and no request has.
LEMMA ConnectStep ==
  ASSUME IInv, NEW c \in Caller, Connect(c)
  PROVE  IInv'
  <1>. USE DEF Goto
  <1>1. PICK x \in Client : /\ made[x] = NoDb
                            /\ made' = [made EXCEPT ![x] = DatabaseOf(name[c])]
                            /\ got' = [got EXCEPT ![c] = x]
    BY DEF Connect
  <1>2. /\ pc[c] = "connect" /\ pc' = [pc EXCEPT ![c] = "store"]
        /\ UNCHANGED <<cache, name>>
    BY DEF Connect
  <1>3. TypeOK'
    BY <1>1, <1>2, NamesAreKnown DEF IInv, TypeOK, Actor, PC
  <1>4. \A b \in Caller : Slot(b)' = Slot(b)
    BY <1>2 DEF Slot
  <1>5. ShutDown' <=> ShutDown
    BY <1>2, ClientsAssumption DEF IInv, TypeOK, ShutDown, Actor
  <1>6. CacheInv'
    <2>. SUFFICES ASSUME KeysAreNames, NEW k \in Kind, NEW y \in Key,
                         cache[k][y] # NoClient
                  PROVE  made'[cache[k][y]] = DatabaseOfKey(y)
      BY <1>2 DEF CacheInv
    <2>1. made[cache[k][y]] = DatabaseOfKey(y) /\ cache[k][y] \in Client
      BY DEF IInv, CacheInv, TypeOK
    <2>2. DatabaseOfKey(y) \in Db
      BY ClientsAssumption DEF DatabaseOfKey, Key
    <2>3. cache[k][y] # x
      BY <1>1, <2>1, <2>2, ClientsAssumption
    <2>. QED  BY <1>1, <2>1, <2>3 DEF IInv, TypeOK
  <1>7. GotInv'
    <2>. SUFFICES ASSUME NEW b \in Caller
                  PROVE  /\ pc'[b] = "store" =>
                              got'[b] # NoClient /\ made'[got'[b]] = DatabaseOf(name[b])
                         /\ pc'[b] = "ready" => got'[b] # NoClient
                         /\ pc'[b] = "ready" /\ KeysAreNames =>
                              made'[got'[b]] = DatabaseOf(name[b])
      BY <1>2 DEF GotInv
    <2>1. CASE b = c
      BY <2>1, <1>1, <1>2, ClientsAssumption DEF IInv, TypeOK, Actor
    <2>2. CASE b # c
      <3>1. pc'[b] = pc[b] /\ got'[b] = got[b]
        BY <2>2, <1>1, <1>2 DEF IInv, TypeOK, Actor
      <3>2. made[got[b]] = DatabaseOf(name[b]) => made'[got[b]] = made[got[b]]
        BY <1>1, NamesAreKnown, ClientsAssumption DEF IInv, TypeOK
      <3>. QED  BY <3>1, <3>2 DEF IInv, GotInv
    <2>. QED  BY <2>1, <2>2
  <1>8. FilledInv' /\ KeyErrorOnlyAtShutdown'
    BY <1>2, <1>4, <1>5 DEF IInv, TypeOK, FilledInv, KeyErrorOnlyAtShutdown, ShutDown, Actor
  <1>9. UncachedOnlyAfterRace'
    <2>. SUFFICES ASSUME NEW a \in Caller, pc'[a] = "ready", Slot(a)' # got'[a], ~ShutDown
                  PROVE  \E b \in Caller \ {a} :
                           /\ KindOf(b) = KindOf(a) /\ KeyOf(name[b]) = KeyOf(name[a])
                           /\ pc'[b] \in {"read", "ready", "done"} /\ got'[b] # got'[a]
      BY <1>2, <1>5 DEF UncachedOnlyAfterRace, ShutDown
    <2>1. a # c /\ pc[a] = "ready" /\ got'[a] = got[a]
      BY <1>1, <1>2 DEF IInv, TypeOK, Actor
    <2>2. PICK b \in Caller \ {a} :
                 /\ KindOf(b) = KindOf(a) /\ KeyOf(name[b]) = KeyOf(name[a])
                 /\ pc[b] \in {"read", "ready", "done"} /\ got[b] # got[a]
      BY <2>1, <1>4 DEF IInv, UncachedOnlyAfterRace, ShutDown
    <2>3. b # c /\ pc'[b] = pc[b] /\ got'[b] = got[b]
      BY <2>2, <1>1, <1>2 DEF IInv, TypeOK, Actor
    <2>. QED  BY <2>1, <2>2, <2>3
  <1>. QED  BY <1>3, <1>6, <1>7, <1>8, <1>9 DEF IInv

\* A store fills the slot of its request with a client of the right database;
\* whoever uses the client it replaces has lost a race to this request.
LEMMA StoreStep ==
  ASSUME IInv, NEW c \in Caller, Store(c)
  PROVE  IInv'
  <1>. USE DEF Goto
  <1>1. /\ pc[c] = "store" /\ pc' = [pc EXCEPT ![c] = "read"]
        /\ cache' = [cache EXCEPT ![KindOf(c)][KeyOf(name[c])] = got[c]]
        /\ UNCHANGED <<made, name, got>>
    BY DEF Store
  <1>2. /\ KeyOf(name[c]) \in Key /\ KindOf(c) \in Kind
        /\ got[c] \in Client /\ got[c] # NoClient
        /\ made[got[c]] = DatabaseOf(name[c])
    BY <1>1, NamesAreKnown, ClientsAssumption DEF IInv, TypeOK, GotInv
  <1>3. TypeOK'
    BY <1>1, <1>2 DEF IInv, TypeOK, Actor, PC
  <1>4. \A b \in Caller :
          Slot(b)' = IF KindOf(b) = KindOf(c) /\ KeyOf(name[b]) = KeyOf(name[c])
                     THEN got[c] ELSE Slot(b)
    BY <1>1, <1>2, NamesAreKnown DEF IInv, TypeOK, Slot
  <1>5. ShutDown' <=> ShutDown
    BY <1>1, ClientsAssumption DEF IInv, TypeOK, ShutDown, Actor
  <1>6. CacheInv'
    <2>. SUFFICES ASSUME KeysAreNames, NEW k \in Kind, NEW y \in Key,
                         cache'[k][y] # NoClient
                  PROVE  made[cache'[k][y]] = DatabaseOfKey(y)
      BY <1>1 DEF CacheInv
    <2>1. CASE k = KindOf(c) /\ y = KeyOf(name[c])
      BY <2>1, <1>1, <1>2, KeyLeadsToDatabase DEF IInv, TypeOK
    <2>2. CASE ~(k = KindOf(c) /\ y = KeyOf(name[c]))
      <3>1. cache'[k][y] = cache[k][y]
        BY <2>2, <1>1, <1>2 DEF IInv, TypeOK
      <3>. QED  BY <3>1 DEF IInv, CacheInv
    <2>. QED  BY <2>1, <2>2
  <1>7. GotInv'
    BY <1>1 DEF IInv, TypeOK, GotInv, Actor
  <1>8. FilledInv'
    BY <1>1, <1>2, <1>4, <1>5 DEF IInv, TypeOK, FilledInv, Actor
  <1>9. KeyErrorOnlyAtShutdown'
    BY <1>1, <1>5 DEF IInv, TypeOK, KeyErrorOnlyAtShutdown, ShutDown, Actor
  <1>10. UncachedOnlyAfterRace'
    <2>. SUFFICES ASSUME NEW a \in Caller, pc'[a] = "ready", Slot(a)' # got[a], ~ShutDown
                  PROVE  \E b \in Caller \ {a} :
                           /\ KindOf(b) = KindOf(a) /\ KeyOf(name[b]) = KeyOf(name[a])
                           /\ pc'[b] \in {"read", "ready", "done"} /\ got[b] # got[a]
      BY <1>1, <1>5 DEF UncachedOnlyAfterRace, ShutDown
    <2>1. a # c /\ pc[a] = "ready" /\ pc'[c] = "read"
      BY <1>1 DEF IInv, TypeOK, Actor
    <2>2. CASE KindOf(a) = KindOf(c) /\ KeyOf(name[a]) = KeyOf(name[c])
      BY <2>1, <2>2, <1>4
    <2>3. CASE ~(KindOf(a) = KindOf(c) /\ KeyOf(name[a]) = KeyOf(name[c]))
      <3>1. PICK b \in Caller \ {a} :
                   /\ KindOf(b) = KindOf(a) /\ KeyOf(name[b]) = KeyOf(name[a])
                   /\ pc[b] \in {"read", "ready", "done"} /\ got[b] # got[a]
        BY <2>1, <2>3, <1>4 DEF IInv, UncachedOnlyAfterRace, ShutDown
      <3>2. pc'[b] = pc[b]
        BY <3>1, <1>1 DEF IInv, TypeOK, Actor
      <3>. QED  BY <3>1, <3>2
    <2>. QED  BY <2>2, <2>3
  <1>. QED  BY <1>3, <1>6, <1>7, <1>8, <1>9, <1>10 DEF IInv

\* The subscript gives a request what is cached for it.
LEMMA ReadStep ==
  ASSUME IInv, NEW c \in Caller, Read(c)
  PROVE  IInv'
  <1>. USE DEF Goto
  <1>1. UNCHANGED <<cache, made, name>> /\ pc[c] = "read"
    BY DEF Read
  <1>2. \A b \in Caller : Slot(b)' = Slot(b)
    BY <1>1 DEF Slot
  <1>3. CASE Slot(c) # NoClient
    <2>1. pc' = [pc EXCEPT ![c] = "ready"] /\ got' = [got EXCEPT ![c] = Slot(c)]
      BY <1>3 DEF Read
    <2>2. Slot(c) \in Client
      BY <1>3, NamesAreKnown DEF IInv
    <2>3. KeysAreNames => made[Slot(c)] = DatabaseOf(name[c])
      BY <1>3, NamesAreKnown, KeyLeadsToDatabase DEF IInv, CacheInv, Slot
    <2>4. TypeOK'
      BY <1>1, <2>1, <2>2 DEF IInv, TypeOK, Actor, PC
    <2>5. ShutDown' <=> ShutDown
      BY <2>1, ClientsAssumption DEF IInv, TypeOK, ShutDown, Actor
    <2>6. CacheInv'
      BY <1>1 DEF IInv, CacheInv
    <2>7. GotInv'
      BY <1>1, <1>3, <2>1, <2>3 DEF IInv, TypeOK, GotInv, Actor
    <2>8. FilledInv' /\ KeyErrorOnlyAtShutdown'
      BY <1>2, <2>1, <2>5 DEF IInv, TypeOK, FilledInv, KeyErrorOnlyAtShutdown, ShutDown, Actor
    <2>9. UncachedOnlyAfterRace'
      <3>. SUFFICES ASSUME NEW a \in Caller, pc'[a] = "ready", Slot(a) # got'[a], ~ShutDown
                    PROVE  \E b \in Caller \ {a} :
                             /\ KindOf(b) = KindOf(a) /\ KeyOf(name[b]) = KeyOf(name[a])
                             /\ pc'[b] \in {"read", "ready", "done"} /\ got'[b] # got'[a]
        BY <1>1, <1>2, <2>5 DEF UncachedOnlyAfterRace, ShutDown
      <3>1. a # c /\ pc[a] = "ready" /\ got'[a] = got[a]
        BY <2>1 DEF IInv, TypeOK, Actor
      <3>2. PICK b \in Caller \ {a} :
                   /\ KindOf(b) = KindOf(a) /\ KeyOf(name[b]) = KeyOf(name[a])
                   /\ pc[b] \in {"read", "ready", "done"} /\ got[b] # got[a]
        BY <3>1 DEF IInv, UncachedOnlyAfterRace, ShutDown
      <3>3. CASE b = c
        <4>1. Slot(b) = Slot(a)
          BY <3>2 DEF Slot
        <4>. QED  BY <3>1, <3>2, <3>3, <4>1, <2>1 DEF IInv, TypeOK, Actor
      <3>4. CASE b # c
        BY <3>1, <3>2, <3>4, <2>1 DEF IInv, TypeOK, Actor
      <3>. QED  BY <3>3, <3>4
    <2>. QED  BY <2>4, <2>6, <2>7, <2>8, <2>9 DEF IInv
  <1>4. CASE Slot(c) = NoClient
    <2>1. pc' = [pc EXCEPT ![c] = "key_error"] /\ UNCHANGED got
      BY <1>4 DEF Read
    <2>2. c \in SyncCaller /\ ShutDown
      BY <1>1, <1>4 DEF IInv, FilledInv
    <2>3. ShutDown'
      BY <2>1, <2>2, ClientsAssumption DEF IInv, TypeOK, ShutDown, Actor
    <2>4. TypeOK'
      BY <1>1, <2>1 DEF IInv, TypeOK, Actor, PC
    <2>5. CacheInv'
      BY <1>1 DEF IInv, CacheInv
    <2>6. GotInv' /\ FilledInv'
      BY <1>1, <1>2, <2>1, <2>2, <2>3 DEF IInv, TypeOK, GotInv, FilledInv, Actor
    <2>7. KeyErrorOnlyAtShutdown'
      BY <2>1, <2>2, <2>3 DEF IInv, TypeOK, KeyErrorOnlyAtShutdown, ShutDown, Actor
    <2>8. UncachedOnlyAfterRace'
      BY <2>3 DEF UncachedOnlyAfterRace, ShutDown
    <2>. QED  BY <2>4, <2>5, <2>6, <2>7, <2>8 DEF IInv
  <1>. QED  BY <1>3, <1>4

\* A shutdown finds no coroutine between its store and its subscript.
LEMMA ClearStep ==
  ASSUME IInv, NEW d \in Disposer, Clear(d)
  PROVE  IInv'
  <1>. USE DEF Goto
  <1>1. /\ pc' = [pc EXCEPT ![d] = "done"]
        /\ cache' = [k \in Kind |-> [y \in Key |-> NoClient]]
        /\ UNCHANGED <<made, name, got>>
    BY DEF Clear
  <1>2. \A b \in AsyncCaller : pc[b] # "read"
    BY ClientsAssumption DEF Clear, LoopFree, Caller
  <1>3. ShutDown'
    BY <1>1 DEF IInv, TypeOK, ShutDown, Actor
  <1>4. \A b \in Caller : pc'[b] = pc[b]
    BY <1>1, ClientsAssumption DEF IInv, TypeOK, Actor
  <1>5. TypeOK'
    BY <1>1 DEF IInv, TypeOK, Actor, PC
  <1>6. CacheInv'
    BY <1>1 DEF CacheInv
  <1>7. GotInv'
    BY <1>1, <1>4 DEF IInv, GotInv
  <1>8. FilledInv'
    BY <1>2, <1>3, <1>4 DEF FilledInv, Caller
  <1>9. KeyErrorOnlyAtShutdown' /\ UncachedOnlyAfterRace'
    BY <1>3, <1>4 DEF IInv, KeyErrorOnlyAtShutdown, UncachedOnlyAfterRace, ShutDown
  <1>. QED  BY <1>5, <1>6, <1>7, <1>8, <1>9 DEF IInv

\* Every step keeps the invariant.
LEMMA NextInv == IInv /\ [Next]_vars => IInv'
  <1>. SUFFICES ASSUME IInv, [Next]_vars PROVE IInv'
    OBVIOUS
  <1>1. CASE UNCHANGED vars
    BY <1>1 DEF vars, IInv, TypeOK, CacheInv, GotInv, FilledInv, KeyErrorOnlyAtShutdown,
                UncachedOnlyAfterRace, ShutDown, Slot
  <1>2. CASE Next
    BY <1>2, ControlStep, ConnectStep, StoreStep, ReadStep, ClearStep DEF Next
  <1>. QED  BY <1>1, <1>2

\* The inductive invariant holds of every reachable state.
THEOREM Invariance == Spec => []IInv
  BY InitInv, NextInv, PTL DEF Spec

-----------------------------------------------------------------------------
\* The variables keep their types: every client belongs to a configured
\* database.
THEOREM TypeCorrectness == Spec => []TypeOK
  <1>1. IInv => TypeOK  BY DEF IInv
  <1>. QED  BY <1>1, Invariance, PTL

\* A request's client was made for the request's database, however many
\* requests replace each other's clients.
THEOREM OwnDatabase == Spec => []ClientOfOwnDatabase
  <1>1. IInv => ClientOfOwnDatabase
    BY DEF IInv, GotInv, KeysAreNames, ClientOfOwnDatabase
  <1>. QED  BY <1>1, Invariance, PTL

\* The subscript of a cache fails in threads overtaken by a shutdown only.
THEOREM KeyErrorsAreLate == Spec => []KeyErrorOnlyAtShutdown
  <1>1. IInv => KeyErrorOnlyAtShutdown  BY DEF IInv
  <1>. QED  BY <1>1, Invariance, PTL

\* Only a race or a shutdown leaves a request with a client that is not cached.
THEOREM UncachedAfterRace == Spec => []UncachedOnlyAfterRace
  <1>1. IInv => UncachedOnlyAfterRace  BY DEF IInv
  <1>. QED  BY <1>1, Invariance, PTL

=============================================================================
