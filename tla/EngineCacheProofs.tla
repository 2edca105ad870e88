-------------------------- MODULE EngineCacheProofs --------------------------
(***************************************************************************)
(* The engine caches keep their invariants for every set of requests, of   *)
(* dispose calls, of databases and of URLs.                                *)
(***************************************************************************)
EXTENDS EngineCache, TLAPS

\* Equal keys are the keys of equal URLs.
LEMMA KeyIsInjective ==
  ASSUME NEW u \in Url, NEW v \in Url, CacheKey(u) = CacheKey(v)
  PROVE  u = v
  BY DEF Url, CacheKey

\* The key of a URL indexes the caches.
LEMMA KeyOfUrl ==
  ASSUME NEW u \in Url PROVE CacheKey(u) \in Key
  BY DEF Url, CacheKey, Key

\* Init establishes the invariant.
LEMMA InitInv == Init => IInv
  <1>. SUFFICES ASSUME Init PROVE IInv
    OBVIOUS
  <1>1. TypeOK
    BY DEF Init, TypeOK, Kind, CallerPC, Actor
  <1>2. LockInv
    BY ConstantsAssumption DEF Init, LockInv, Holds, Actor
  <1>3. SlotInv /\ OneEnginePerKey /\ NoEngineSkipped
    BY DEF Init, SlotInv, OneEnginePerKey, NoEngineSkipped
  <1>4. CallerInv /\ DisposerInv /\ SessionMatchesUrl
    BY DEF Init, CallerInv, DisposerInv, SessionMatchesUrl, HasFactory, Actor, Caller
  <1>5. DetachedInv /\ EngineStaysCached
    BY DEF Init, DetachedInv, EngineStaysCached, HasFactory, Actor, Caller
  <1>. QED  BY <1>1, <1>2, <1>3, <1>4, <1>5 DEF IInv

\* What a step that leaves the engines and the caches alone has to keep.
LEMMA EnginesUnchanged ==
  ASSUME IInv, UNCHANGED <<cache, made, poolVars>>
  PROVE  /\ SlotInv' /\ DetachedInv' /\ OneEnginePerKey'
         /\ \A K : CachedIn(K)' = CachedIn(K)
         /\ \A e \in Engine : Cached(e)' <=> Cached(e)
  BY DEF IInv, SlotInv, DetachedInv, OneEnginePerKey, CachedIn, Cached, poolVars

\* A request that gets its engine from a cache, or has it already, keeps an
\* engine that is cached as long as none leaves the caches.
LEMMA EngineKept ==
  ASSUME IInv, UNCHANGED cutOff, CachedIn(Kind) \subseteq CachedIn(Kind)',
         \A c \in Caller : HasFactory(c)' =>
           \/ HasFactory(c) /\ got'[c] = got[c]
           \/ got'[c] \in CachedIn(Kind)'
  PROVE  EngineStaysCached'
  BY DEF IInv, EngineStaysCached, Cached

\* A URL that was resolved stays the caller's whatever happens to `cfg`.
LEMMA ResolveStep ==
  ASSUME IInv, NEW c \in Caller, NEW k \in Kind, NEW n \in Db \cup {NoName}, Resolve(c, k, n)
  PROVE  IInv'
  <1>1. UNCHANGED <<cache, made, poolVars>>
    BY DEF Resolve
  <1>2. TypeOK'
    <2>1. DatabaseName(k, n) # NoName => cfg[DatabaseName(k, n)] \in Url
      BY ConstantsAssumption DEF DatabaseName, IInv, TypeOK
    <2>2. url' \in [Caller -> Url \cup {NoUrl}]
      BY <2>1 DEF Resolve, IInv, TypeOK
    <2>3. pc' \in [Actor -> CallerPC \cup DisposerPC]
      BY DEF Resolve, IInv, TypeOK, CallerPC, Actor
    <2>. QED  BY <1>1, <2>2, <2>3 DEF Resolve, IInv, TypeOK, poolVars
  <1>3. LockInv'
    BY ConstantsAssumption
       DEF IInv, TypeOK, LockInv, Holds, Resolve, Goto, Actor, callerVars, LockOf, Lock
  <1>4. CallerInv' /\ SessionMatchesUrl'
    BY <1>1, ConstantsAssumption
       DEF IInv, TypeOK, CallerInv, SessionMatchesUrl, HasFactory, Resolve, Goto, Slot, Actor, Caller, callerVars, DatabaseName
  <1>5. DisposerInv' /\ NoEngineSkipped'
    BY <1>1, EnginesUnchanged, ConstantsAssumption
       DEF IInv, TypeOK, DisposerInv, NoEngineSkipped, Resolve, Goto, Actor, poolVars
  <1>6. EngineStaysCached'
    <2>1. CachedIn(Kind)' = CachedIn(Kind)
      BY <1>1, EnginesUnchanged
    <2>. QED
      BY <1>1, <2>1, EngineKept, ConstantsAssumption
         DEF IInv, TypeOK, Resolve, Goto, Actor, HasFactory, poolVars, callerVars
  <1>. QED  BY <1>1, <1>2, <1>3, <1>4, <1>5, <1>6, EnginesUnchanged DEF IInv

\* A lock that is free gets one holder.
LEMMA AcquireStep ==
  ASSUME IInv, NEW c \in Caller, Acquire(c)
  PROVE  IInv'
  <1>1. UNCHANGED <<cache, made, poolVars>>
    BY DEF Acquire
  <1>2. TypeOK'
    BY ConstantsAssumption DEF IInv, TypeOK, Acquire, Goto, CallerPC, DisposerPC, Actor, poolVars, callerVars, Lock, LockOf
  <1>3. LockInv'
    BY ConstantsAssumption
       DEF IInv, TypeOK, LockInv, Holds, Acquire, Goto, Actor, callerVars, LockOf, Lock
  <1>4. CallerInv' /\ SessionMatchesUrl'
    BY <1>1, ConstantsAssumption
       DEF IInv, TypeOK, CallerInv, SessionMatchesUrl, HasFactory, Acquire, Goto, Slot, Actor, Caller, callerVars
  <1>5. DisposerInv' /\ NoEngineSkipped'
    BY <1>1, EnginesUnchanged, ConstantsAssumption
       DEF IInv, TypeOK, DisposerInv, NoEngineSkipped, Acquire, Goto, Actor, poolVars
  <1>6. EngineStaysCached'
    <2>1. CachedIn(Kind)' = CachedIn(Kind)
      BY <1>1, EnginesUnchanged
    <2>. QED
      BY <1>1, <2>1, EngineKept, ConstantsAssumption
         DEF IInv, TypeOK, Acquire, Goto, Actor, HasFactory, poolVars, callerVars
  <1>. QED  BY <1>1, <1>2, <1>3, <1>4, <1>5, <1>6, EnginesUnchanged DEF IInv

\* While a caller has the lock, its slot exists and an engine there is one
\* that was made for its cache and its URL.
LEMMA SlotOfCaller ==
  ASSUME IInv, NEW c \in Caller, pc[c] \in {"lookup", "check", "create"}
  PROVE  /\ kind[c] \in Kind /\ url[c] \in Url /\ CacheKey(url[c]) \in Key
         /\ Slot(c) # NoEngine =>
              /\ Slot(c) \in Engine
              /\ made[Slot(c)] = [kind |-> kind[c], url |-> url[c]]
  <1>1. kind[c] \in Kind /\ url[c] \in Url /\ CacheKey(url[c]) \in Key
    BY KeyOfUrl DEF IInv, TypeOK, CallerInv
  <1>2. ASSUME Slot(c) # NoEngine
        PROVE  /\ Slot(c) \in Engine
               /\ made[Slot(c)] = [kind |-> kind[c], url |-> url[c]]
    <2>1. Slot(c) \in Engine
      BY <1>1, <1>2 DEF IInv, TypeOK, Slot
    <2>2. made[Slot(c)] \in [kind : Kind, url : Url]
      BY <1>1, <1>2, <2>1 DEF IInv, TypeOK, SlotInv, Slot
    <2>3. made[Slot(c)].kind = kind[c] /\ made[Slot(c)].url = url[c]
      BY <1>1, <1>2, <2>2, KeyIsInjective DEF IInv, SlotInv, Slot
    <2>. QED  BY <2>1, <2>2, <2>3
  <1>. QED  BY <1>1, <1>2

\* A hit hands out the engine of the caller's own slot.
LEMMA HitStep ==
  ASSUME IInv, NEW c \in Caller, Hit(c)
  PROVE  IInv'
  <1>1. UNCHANGED <<cache, made, poolVars>>
    BY DEF Hit
  <1>2. /\ Slot(c) \in Engine
        /\ made[Slot(c)] = [kind |-> kind[c], url |-> url[c]]
    BY SlotOfCaller DEF Hit, Goto
  <1>3. TypeOK'
    BY <1>2, ConstantsAssumption
       DEF IInv, TypeOK, Hit, Goto, CallerPC, Actor, poolVars, Lock, LockOf
  <1>4. LockInv'
    BY ConstantsAssumption
       DEF IInv, TypeOK, LockInv, Holds, Hit, Goto, Actor, LockOf, Lock
  <1>5. CallerInv'
    BY <1>1, ConstantsAssumption
       DEF IInv, TypeOK, CallerInv, Hit, Goto, Slot, Actor, Caller
  <1>6. SessionMatchesUrl'
    BY <1>1, <1>2, ConstantsAssumption
       DEF IInv, TypeOK, SessionMatchesUrl, HasFactory, Hit, Goto, Actor, Caller
  <1>7. DisposerInv' /\ NoEngineSkipped'
    BY <1>1, EnginesUnchanged, ConstantsAssumption
       DEF IInv, TypeOK, DisposerInv, NoEngineSkipped, Hit, Goto, Actor, poolVars
  <1>8. EngineStaysCached'
    <2>1. CachedIn(Kind)' = CachedIn(Kind)
      BY <1>1, EnginesUnchanged
    <2>2. Slot(c) \in CachedIn(Kind)
      BY <1>2, SlotOfCaller DEF Hit, Goto, Slot, CachedIn
    <2>. QED
      BY <1>1, <2>1, <2>2, EngineKept, ConstantsAssumption
         DEF IInv, TypeOK, Hit, Goto, Actor, HasFactory, poolVars
  <1>. QED
    BY <1>1, <1>3, <1>4, <1>5, <1>6, <1>7, <1>8, EnginesUnchanged DEF IInv

\* A miss keeps the lock.
LEMMA MissStep ==
  ASSUME IInv, NEW c \in Caller, Miss(c)
  PROVE  IInv'
  <1>1. UNCHANGED <<cache, made, poolVars>>
    BY DEF Miss
  <1>2. TypeOK'
    BY ConstantsAssumption DEF IInv, TypeOK, Miss, Goto, CallerPC, DisposerPC, Actor, poolVars, callerVars
  <1>3. LockInv'
    BY ConstantsAssumption
       DEF IInv, TypeOK, LockInv, Holds, Miss, Goto, Actor, callerVars, LockOf, Lock
  <1>4. CallerInv' /\ SessionMatchesUrl'
    BY <1>1, ConstantsAssumption
       DEF IInv, TypeOK, CallerInv, SessionMatchesUrl, HasFactory, Miss, Goto, Slot, Actor, Caller, callerVars
  <1>5. DisposerInv' /\ NoEngineSkipped'
    BY <1>1, EnginesUnchanged, ConstantsAssumption
       DEF IInv, TypeOK, DisposerInv, NoEngineSkipped, Miss, Goto, Actor, poolVars
  <1>6. EngineStaysCached'
    <2>1. CachedIn(Kind)' = CachedIn(Kind)
      BY <1>1, EnginesUnchanged
    <2>. QED
      BY <1>1, <2>1, EngineKept, ConstantsAssumption
         DEF IInv, TypeOK, Miss, Goto, Actor, HasFactory, poolVars, callerVars
  <1>. QED  BY <1>1, <1>2, <1>3, <1>4, <1>5, <1>6, EnginesUnchanged DEF IInv

\* A creation that fails caches nothing.
LEMMA CreateFailsStep ==
  ASSUME IInv, NEW c \in Caller, CreateFails(c)
  PROVE  IInv'
  <1>1. UNCHANGED <<cache, made, poolVars>>
    BY DEF CreateFails
  <1>2. TypeOK'
    BY ConstantsAssumption DEF IInv, TypeOK, CreateFails, Goto, CallerPC, DisposerPC, Actor, poolVars, callerVars, Lock, LockOf
  <1>3. LockInv'
    BY ConstantsAssumption
       DEF IInv, TypeOK, LockInv, Holds, CreateFails, Goto, Actor, callerVars, LockOf, Lock
  <1>4. CallerInv' /\ SessionMatchesUrl'
    BY <1>1, ConstantsAssumption
       DEF IInv, TypeOK, CallerInv, SessionMatchesUrl, HasFactory, CreateFails, Goto, Slot, Actor, Caller, callerVars
  <1>5. DisposerInv' /\ NoEngineSkipped'
    BY <1>1, EnginesUnchanged, ConstantsAssumption
       DEF IInv, TypeOK, DisposerInv, NoEngineSkipped, CreateFails, Goto, Actor, poolVars
  <1>6. EngineStaysCached'
    <2>1. CachedIn(Kind)' = CachedIn(Kind)
      BY <1>1, EnginesUnchanged
    <2>. QED
      BY <1>1, <2>1, EngineKept, ConstantsAssumption
         DEF IInv, TypeOK, CreateFails, Goto, Actor, HasFactory, poolVars, callerVars
  <1>. QED  BY <1>1, <1>2, <1>3, <1>4, <1>5, <1>6, EnginesUnchanged DEF IInv

\* A session keeps the engine of its factory.
LEMMA OpenStep ==
  ASSUME IInv, NEW c \in Caller, OpenSession(c)
  PROVE  IInv'
  <1>1. UNCHANGED <<cache, made, poolVars>>
    BY DEF OpenSession
  <1>2. TypeOK'
    BY ConstantsAssumption DEF IInv, TypeOK, OpenSession, Goto, CallerPC, DisposerPC, Actor, poolVars, callerVars
  <1>3. LockInv'
    BY ConstantsAssumption
       DEF IInv, TypeOK, LockInv, Holds, OpenSession, Goto, Actor, callerVars, LockOf, Lock
  <1>4. CallerInv' /\ SessionMatchesUrl'
    BY <1>1, ConstantsAssumption
       DEF IInv, TypeOK, CallerInv, SessionMatchesUrl, HasFactory, OpenSession, Goto, Slot, Actor, Caller, callerVars
  <1>5. DisposerInv' /\ NoEngineSkipped'
    BY <1>1, EnginesUnchanged, ConstantsAssumption
       DEF IInv, TypeOK, DisposerInv, NoEngineSkipped, OpenSession, Goto, Actor, poolVars
  <1>6. EngineStaysCached'
    <2>1. CachedIn(Kind)' = CachedIn(Kind)
      BY <1>1, EnginesUnchanged
    <2>. QED
      BY <1>1, <2>1, EngineKept, ConstantsAssumption
         DEF IInv, TypeOK, OpenSession, Goto, Actor, HasFactory, poolVars, callerVars
  <1>. QED  BY <1>1, <1>2, <1>3, <1>4, <1>5, <1>6, EnginesUnchanged DEF IInv

\* A request that is over has no session.
LEMMA CloseStep ==
  ASSUME IInv, NEW c \in Caller, CloseSession(c)
  PROVE  IInv'
  <1>1. UNCHANGED <<cache, made, poolVars>>
    BY DEF CloseSession
  <1>2. TypeOK'
    BY ConstantsAssumption DEF IInv, TypeOK, CloseSession, Goto, CallerPC, DisposerPC, Actor, poolVars, callerVars
  <1>3. LockInv'
    BY ConstantsAssumption
       DEF IInv, TypeOK, LockInv, Holds, CloseSession, Goto, Actor, callerVars, LockOf, Lock
  <1>4. CallerInv' /\ SessionMatchesUrl'
    BY <1>1, ConstantsAssumption
       DEF IInv, TypeOK, CallerInv, SessionMatchesUrl, HasFactory, CloseSession, Goto, Slot, Actor, Caller, callerVars
  <1>5. DisposerInv' /\ NoEngineSkipped'
    BY <1>1, EnginesUnchanged, ConstantsAssumption
       DEF IInv, TypeOK, DisposerInv, NoEngineSkipped, CloseSession, Goto, Actor, poolVars
  <1>6. EngineStaysCached'
    <2>1. CachedIn(Kind)' = CachedIn(Kind)
      BY <1>1, EnginesUnchanged
    <2>. QED
      BY <1>1, <2>1, EngineKept, ConstantsAssumption
         DEF IInv, TypeOK, CloseSession, Goto, Actor, HasFactory, poolVars, callerVars
  <1>. QED  BY <1>1, <1>2, <1>3, <1>4, <1>5, <1>6, EnginesUnchanged DEF IInv

\* A dispose call starts without a lock.
LEMMA DisposeCallStep ==
  ASSUME IInv, NEW d \in Disposer, DisposeCall(d)
  PROVE  IInv'
  <1>1. UNCHANGED <<cache, made, poolVars>>
    BY DEF DisposeCall
  <1>2. TypeOK'
    BY ConstantsAssumption DEF IInv, TypeOK, DisposeCall, Goto, CallerPC, DisposerPC, Actor, poolVars, callerVars
  <1>3. LockInv'
    BY ConstantsAssumption
       DEF IInv, TypeOK, LockInv, Holds, DisposeCall, Goto, Actor, callerVars, LockOf, Lock
  <1>4. CallerInv' /\ SessionMatchesUrl'
    BY <1>1, ConstantsAssumption
       DEF IInv, TypeOK, CallerInv, SessionMatchesUrl, HasFactory, DisposeCall, Goto, Slot, Actor, Caller, callerVars
  <1>5. DisposerInv' /\ NoEngineSkipped'
    BY <1>1, EnginesUnchanged, ConstantsAssumption
       DEF IInv, TypeOK, DisposerInv, NoEngineSkipped, DisposeCall, Goto, Actor, poolVars
  <1>6. EngineStaysCached'
    <2>1. CachedIn(Kind)' = CachedIn(Kind)
      BY <1>1, EnginesUnchanged
    <2>. QED
      BY <1>1, <2>1, EngineKept, ConstantsAssumption
         DEF IInv, TypeOK, DisposeCall, Goto, Actor, HasFactory, poolVars, callerVars
  <1>. QED  BY <1>1, <1>2, <1>3, <1>4, <1>5, <1>6, EnginesUnchanged DEF IInv

\* The list is made of the caches as they are.
LEMMA SnapshotStep ==
  ASSUME IInv, NEW d \in Disposer, Snapshot(d)
  PROVE  IInv'
  <1>1. UNCHANGED <<cache, made, poolVars>>
    BY DEF Snapshot
  <1>2. TypeOK'
    BY ConstantsAssumption DEF IInv, TypeOK, Snapshot, Goto, CallerPC, DisposerPC, Actor, poolVars, callerVars, Lock, CachedIn
  <1>3. LockInv'
    BY ConstantsAssumption
       DEF IInv, TypeOK, LockInv, Holds, Snapshot, Goto, Actor, callerVars, LockOf, Lock
  <1>4. CallerInv' /\ SessionMatchesUrl'
    BY <1>1, ConstantsAssumption
       DEF IInv, TypeOK, CallerInv, SessionMatchesUrl, HasFactory, Snapshot, Goto, Slot, Actor, Caller, callerVars
  <1>5. DisposerInv' /\ NoEngineSkipped'
    BY <1>1, EnginesUnchanged, ConstantsAssumption
       DEF IInv, TypeOK, DisposerInv, NoEngineSkipped, Snapshot, Goto, Actor, poolVars
  <1>6. EngineStaysCached'
    <2>1. CachedIn(Kind)' = CachedIn(Kind)
      BY <1>1, EnginesUnchanged
    <2>. QED
      BY <1>1, <2>1, EngineKept, ConstantsAssumption
         DEF IInv, TypeOK, Snapshot, Goto, Actor, HasFactory, poolVars, callerVars
  <1>. QED  BY <1>1, <1>2, <1>3, <1>4, <1>5, <1>6, EnginesUnchanged DEF IInv

\* A dispose call ends with nothing left to dispose.
LEMMA DisposeReturnStep ==
  ASSUME IInv, NEW d \in Disposer, DisposeReturn(d)
  PROVE  IInv'
  <1>1. UNCHANGED <<cache, made, poolVars>>
    BY DEF DisposeReturn
  <1>2. TypeOK'
    BY ConstantsAssumption DEF IInv, TypeOK, DisposeReturn, Goto, CallerPC, DisposerPC, Actor, poolVars, callerVars
  <1>3. LockInv'
    BY ConstantsAssumption
       DEF IInv, TypeOK, LockInv, Holds, DisposeReturn, Goto, Actor, callerVars, LockOf, Lock
  <1>4. CallerInv' /\ SessionMatchesUrl'
    BY <1>1, ConstantsAssumption
       DEF IInv, TypeOK, CallerInv, SessionMatchesUrl, HasFactory, DisposeReturn, Goto, Slot, Actor, Caller, callerVars
  <1>5. DisposerInv' /\ NoEngineSkipped'
    BY <1>1, EnginesUnchanged, ConstantsAssumption
       DEF IInv, TypeOK, DisposerInv, NoEngineSkipped, DisposeReturn, Goto, Actor, poolVars
  <1>6. EngineStaysCached'
    <2>1. CachedIn(Kind)' = CachedIn(Kind)
      BY <1>1, EnginesUnchanged
    <2>. QED
      BY <1>1, <2>1, EngineKept, ConstantsAssumption
         DEF IInv, TypeOK, DisposeReturn, Goto, Actor, HasFactory, poolVars, callerVars
  <1>. QED  BY <1>1, <1>2, <1>3, <1>4, <1>5, <1>6, EnginesUnchanged DEF IInv

\* The handler's statements and a new configuration touch neither the caches
\* nor what callers and dispose calls rely on.
LEMMA OtherStep ==
  ASSUME IInv,
         \/ \E c \in Caller : Execute(c)
         \/ \E n \in Db, u \in Url : Reconfigure(n, u)
  PROVE  IInv'
  <1>1. UNCHANGED <<lock, cache, made, detached, passed, cutOff, pc, callerVars, todo>>
    BY DEF Execute, Reconfigure, poolVars
  <1>2. TypeOK'
    <2>1. CASE \E c \in Caller : Execute(c)
      <3>1. PICK c \in Caller : Execute(c)  BY <2>1
      <3>2. got[c] \in Engine
        BY <3>1 DEF IInv, SessionMatchesUrl, HasFactory, Execute
      <3>. QED  BY <3>1, <3>2 DEF IInv, TypeOK, Execute, callerVars
    <2>2. CASE \E n \in Db, u \in Url : Reconfigure(n, u)
      BY <2>2 DEF IInv, TypeOK, Reconfigure, callerVars, poolVars
    <2>. QED  BY <2>1, <2>2
  <1>3. LockInv' /\ CallerInv' /\ SessionMatchesUrl'
    BY <1>1 DEF IInv, LockInv, Holds, CallerInv, SessionMatchesUrl, HasFactory, Slot, callerVars
  <1>4. SlotInv' /\ OneEnginePerKey' /\ DetachedInv' /\ DisposerInv'
    BY <1>1 DEF IInv, SlotInv, OneEnginePerKey, DetachedInv, DisposerInv, Cached, CachedIn
  <1>5. NoEngineSkipped'
    BY <1>1 DEF IInv, NoEngineSkipped, Cached, CachedIn
  <1>6. EngineStaysCached'
    BY <1>1 DEF IInv, EngineStaysCached, HasFactory, Cached, CachedIn, callerVars
  <1>. QED  BY <1>2, <1>3, <1>4, <1>5, <1>6 DEF IInv

\* A new engine goes to an empty slot: no other engine leaves the caches.
LEMMA StoreStep ==
  ASSUME IInv, NEW c \in Caller, Store(c)
  PROVE  IInv'
  <1>. DEFINE k == kind[c]  key == CacheKey(url[c])
              r == [kind |-> kind[c], url |-> url[c]]
  <1>1. PICK e \in Engine :
          /\ made[e] = NoUrl
          /\ made' = [made EXCEPT ![e] = r]
          /\ cache' = [cache EXCEPT ![k][key] = e]
          /\ got' = [got EXCEPT ![c] = e]
    BY DEF Store
  <1>2. /\ k \in Kind /\ url[c] \in Url /\ key \in Key
        /\ cache[k][key] = NoEngine
    BY SlotOfCaller DEF Store, Goto, IInv, CallerInv, Slot
  <1>3. r \in [kind : Kind, url : Url] /\ r.kind = k /\ r.url = url[c] /\ r # NoUrl
    BY <1>2, ConstantsAssumption
  <1>. HIDE DEF r, k, key
  <1>4. TypeOK'
    BY <1>1, <1>2, <1>3, ConstantsAssumption
       DEF IInv, TypeOK, Store, Goto, CallerPC, Actor, poolVars, Lock, LockOf
  <1>5. LockInv'
    BY ConstantsAssumption
       DEF IInv, TypeOK, LockInv, Holds, Store, Goto, Actor, LockOf, Lock
  <1>6. /\ made'[e] = r
        /\ \A x \in Engine : x # e => made'[x] = made[x]
        /\ cache'[k][key] = e
        /\ \A j \in Kind, y \in Key :
             <<j, y>> # <<k, key>> => cache'[j][y] = cache[j][y]
    BY <1>1, <1>2 DEF IInv, TypeOK
  <1>7. \A x \in Engine : Cached(x)' <=> Cached(x) \/ x = e
    BY <1>2, <1>6, ConstantsAssumption DEF Cached, CachedIn
  <1>8. ~Cached(e) /\ e \notin detached /\ e \notin passed
    BY <1>1, ConstantsAssumption DEF IInv, SlotInv, DetachedInv, Cached, CachedIn
  <1>9. SlotInv'
    BY <1>1, <1>2, <1>3, <1>6, ConstantsAssumption
       DEF IInv, TypeOK, SlotInv, k, key, r
  <1>10. DetachedInv'
    BY <1>6, <1>7, <1>8 DEF IInv, TypeOK, DetachedInv, Store, poolVars
  <1>11. OneEnginePerKey'
    <2>. SUFFICES ASSUME NEW x \in Engine, made'[x] # NoUrl, x \notin detached'
                  PROVE  cache'[made'[x].kind][CacheKey(made'[x].url)] = x
      BY DEF OneEnginePerKey
    <2>1. CASE x = e
      BY <1>3, <1>6, <2>1 DEF k, key, r
    <2>2. CASE x # e
      <3>1. made[x] \in [kind : Kind, url : Url] /\ x \notin detached
        BY <1>6, <2>2 DEF IInv, TypeOK, Store, poolVars
      <3>2. made[x].kind \in Kind /\ CacheKey(made[x].url) \in Key
        BY <3>1, KeyOfUrl
      <3>3. cache[made[x].kind][CacheKey(made[x].url)] = x
        BY <1>6, <2>2, <3>1 DEF IInv, OneEnginePerKey
      <3>4. <<made[x].kind, CacheKey(made[x].url)>> # <<k, key>>
        BY <1>2, <3>3, ConstantsAssumption
      <3>. QED  BY <1>6, <2>2, <3>2, <3>3, <3>4
    <2>. QED  BY <2>1, <2>2
  <1>12. CallerInv'
    <2>. SUFFICES ASSUME NEW b \in Caller
                  PROVE  /\ pc'[b] \in {"lookup", "check", "create", "ready", "session"}
                              => url'[b] \in Url
                         /\ pc'[b] = "create" => Slot(b)' = NoEngine
      BY DEF CallerInv
    <2>1. pc'[b] \in {"lookup", "check", "create"} => b # c /\ pc[b] = pc'[b]
      BY DEF IInv, TypeOK, Store, Goto, Actor
    <2>2. UNCHANGED <<kind, url>>
      BY DEF Store
    <2>3. ASSUME pc'[b] = "create" PROVE Slot(b)' = NoEngine
      <3>1. /\ b # c /\ pc[b] = "create" /\ Slot(b) = NoEngine
            /\ kind[b] \in Kind /\ CacheKey(url[b]) \in Key
        BY <2>1, <2>3, SlotOfCaller DEF IInv, CallerInv
      <3>2. kind[b] # kind[c]
        BY <3>1, ConstantsAssumption
           DEF IInv, LockInv, Holds, Store, Goto, Actor, Lock, LockOf
      <3>. QED  BY <1>6, <2>2, <3>1, <3>2 DEF Slot, k
    <2>4. pc'[b] \in {"ready", "session"} => b = c \/ pc[b] = pc'[b]
      BY DEF IInv, TypeOK, Store, Goto, Actor
    <2>. QED  BY <1>2, <2>1, <2>2, <2>3, <2>4 DEF IInv, CallerInv
  <1>13. DisposerInv'
    <2>. SUFFICES ASSUME NEW d \in Disposer
                  PROVE  /\ pc'[d] = "detach" => todo'[d] = CachedIn(Disposable)'
                         /\ pc'[d] = "dispose" => todo'[d] \subseteq detached'
      BY DEF DisposerInv
    <2>1. pc'[d] = pc[d] /\ UNCHANGED <<todo, detached>>
      BY ConstantsAssumption DEF IInv, TypeOK, Store, Goto, Actor, poolVars
    <2>2. ASSUME pc[d] = "detach" PROVE CachedIn(Disposable)' = CachedIn(Disposable)
      <3>1. k = "session"
        BY <1>2, <2>2, ConstantsAssumption
           DEF IInv, LockInv, Holds, Store, Goto, Actor, Lock, LockOf, Kind, k
      <3>2. \A j \in Disposable, y \in Key : cache'[j][y] = cache[j][y]
        BY <1>6, <3>1 DEF Disposable, Kind
      <3>. QED  BY <3>2 DEF CachedIn
    <2>. QED  BY <2>1, <2>2 DEF IInv, DisposerInv
  <1>14. SessionMatchesUrl'
    <2>. SUFFICES ASSUME NEW b \in Caller, pc'[b] \in {"ready", "session"}
                  PROVE  /\ got'[b] \in Engine
                         /\ made'[got'[b]] = [kind |-> kind'[b], url |-> url'[b]]
      BY DEF SessionMatchesUrl, HasFactory
    <2>1. UNCHANGED <<kind, url>>
      BY DEF Store
    <2>2. CASE b = c
      BY <1>1, <1>6, <2>1, <2>2 DEF IInv, TypeOK, r
    <2>3. CASE b # c
      <3>1. got'[b] = got[b] /\ pc'[b] = pc[b]
        BY <1>1, <2>3 DEF IInv, TypeOK, Store, Goto, Actor
      <3>2. got[b] \in Engine /\ made[got[b]] = [kind |-> kind[b], url |-> url[b]]
        BY <3>1 DEF IInv, SessionMatchesUrl, HasFactory
      <3>3. kind[b] \in Kind /\ url[b] \in Url
        BY <3>1 DEF IInv, TypeOK, CallerInv
      <3>4. got[b] # e
        BY <1>1, <3>2, <3>3, ConstantsAssumption
      <3>. QED  BY <1>6, <2>1, <3>1, <3>2, <3>4
    <2>. QED  BY <2>2, <2>3
  <1>15. NoEngineSkipped'
    <2>1. UNCHANGED <<passed, todo>> /\ \A d \in Disposer : pc'[d] = pc[d]
      BY ConstantsAssumption DEF IInv, TypeOK, Store, Goto, Actor, poolVars
    <2>. QED  BY <1>6, <1>7, <2>1 DEF IInv, NoEngineSkipped
  <1>16. EngineStaysCached'
    <2>1. e \in CachedIn(Kind)' /\ CachedIn(Kind) \subseteq CachedIn(Kind)'
      BY <1>7 DEF Cached, CachedIn
    <2>2. \A b \in Caller : b # c => pc'[b] = pc[b] /\ got'[b] = got[b]
      BY <1>1 DEF IInv, TypeOK, Store, Goto, Actor
    <2>3. got'[c] = e
      BY <1>1 DEF IInv, TypeOK
    <2>. QED  BY <2>1, <2>2, <2>3, EngineKept DEF Store, HasFactory, poolVars
  <1>. QED
    BY <1>4, <1>5, <1>9, <1>10, <1>11, <1>12, <1>13, <1>14, <1>15, <1>16 DEF IInv

\* What is taken out of the caches is what the dispose call will dispose.
LEMMA DetachStep ==
  ASSUME IInv, NEW d \in Disposer, Detach(d)
  PROVE  IInv'
  <1>1. /\ cache' = [k \in Kind |-> IF k \in Disposable
                                    THEN [key \in Key |-> NoEngine] ELSE cache[k]]
        /\ detached' = detached \cup todo[d]
        /\ cutOff' = cutOff \cup {c \in Caller : HasFactory(c) /\ got[c] \in todo[d]}
        /\ todo[d] = CachedIn(Disposable)
        /\ UNCHANGED <<cfg, made, passed, open, kind, url, got, todo>>
    BY DEF Detach, Goto, IInv, DisposerInv, callerVars
  <1>2. /\ \A k \in Kind, key \in Key :
             cache'[k][key] = IF k \in Disposable THEN NoEngine ELSE cache[k][key]
    BY <1>1
  <1>3. /\ pc[d] = "detach" /\ pc'[d] = "dispose"
        /\ \A a \in Actor \ {d} : pc'[a] = pc[a]
    BY DEF Detach, Goto, IInv, TypeOK, Actor
  <1>4. \A x \in Engine : Cached(x)' <=> Cached(x) /\ x \notin todo[d]
    <2>. SUFFICES ASSUME NEW x \in Engine
                  PROVE  Cached(x)' <=> Cached(x) /\ x \notin todo[d]
      OBVIOUS
    <2>1. ASSUME NEW k \in Kind, NEW j \in Kind, NEW y \in Key, NEW z \in Key,
                 cache[k][y] = x, cache[j][z] = x
          PROVE  k = j
      BY <2>1, ConstantsAssumption DEF IInv, SlotInv
    <2>2. Cached(x)' <=> \E k \in Kind \ Disposable, y \in Key : cache[k][y] = x
      BY <1>2, ConstantsAssumption DEF Cached, CachedIn
    <2>3. x \in todo[d] <=> \E k \in Disposable, y \in Key : cache[k][y] = x
      BY <1>1 DEF CachedIn
    <2>4. Cached(x) <=> \E k \in Kind, y \in Key : cache[k][y] = x
      BY DEF Cached, CachedIn
    <2>5. Disposable \subseteq Kind
      BY DEF Disposable, Kind
    <2>. QED  BY <2>1, <2>2, <2>3, <2>4, <2>5
  <1>5. TypeOK'
    BY <1>1, ConstantsAssumption
       DEF IInv, TypeOK, Detach, Goto, DisposerPC, Actor, Lock
  <1>6. LockInv'
    BY ConstantsAssumption
       DEF IInv, TypeOK, LockInv, Holds, Detach, Goto, Actor, LockOf, Lock, callerVars
  <1>7. SlotInv'
    BY <1>1, <1>2 DEF IInv, SlotInv
  <1>8. CallerInv'
    <2>. SUFFICES ASSUME NEW c \in Caller
                  PROVE  /\ pc'[c] \in {"lookup", "check", "create", "ready", "session"}
                              => url'[c] \in Url
                         /\ pc'[c] = "create" => Slot(c)' = NoEngine
      BY DEF CallerInv
    <2>1. pc'[c] = pc[c]
      BY <1>3, ConstantsAssumption DEF Actor
    <2>. QED  BY <1>1, <1>2, <2>1, SlotOfCaller DEF IInv, CallerInv, Slot
  <1>9. SessionMatchesUrl'
    BY <1>1, <1>3, ConstantsAssumption DEF IInv, SessionMatchesUrl, HasFactory, Actor
  <1>10. DisposerInv'
    <2>. SUFFICES ASSUME NEW b \in Disposer
                  PROVE  /\ pc'[b] = "detach" => todo'[b] = CachedIn(Disposable)'
                         /\ pc'[b] = "dispose" => todo'[b] \subseteq detached'
      BY DEF DisposerInv
    <2>1. ASSUME b # d PROVE pc'[b] = pc[b] /\ pc[b] # "detach"
      BY <1>3, <2>1, ConstantsAssumption DEF IInv, LockInv, Holds, Actor, Lock
    <2>. QED  BY <1>1, <1>3, <2>1 DEF IInv, DisposerInv
  <1>11. DetachedInv'
    <2>1. \A x \in todo[d] : made[x] # NoUrl
      BY <1>1, ConstantsAssumption DEF IInv, SlotInv, CachedIn, Disposable, Kind
    <2>. QED  BY <1>1, <1>4, <2>1 DEF IInv, TypeOK, DetachedInv
  <1>12. OneEnginePerKey'
    <2>. SUFFICES ASSUME NEW x \in Engine, made[x] # NoUrl, x \notin detached,
                         x \notin todo[d]
                  PROVE  cache'[made[x].kind][CacheKey(made[x].url)] = x
      BY <1>1 DEF OneEnginePerKey
    <2>1. made[x].kind \in Kind /\ CacheKey(made[x].url) \in Key
      BY KeyOfUrl DEF IInv, TypeOK
    <2>2. cache[made[x].kind][CacheKey(made[x].url)] = x
      BY DEF IInv, OneEnginePerKey
    <2>3. made[x].kind \notin Disposable
      BY <1>1, <2>1, <2>2 DEF CachedIn
    <2>. QED  BY <1>2, <2>1, <2>2, <2>3
  <1>13. NoEngineSkipped'
    <2>1. \A b \in Disposer : pc[b] = "dispose" => pc'[b] = "dispose"
      BY <1>3, ConstantsAssumption DEF Actor
    <2>. QED  BY <1>1, <1>3, <1>4, <2>1 DEF IInv, NoEngineSkipped
  <1>14. EngineStaysCached'
    <2>. SUFFICES ASSUME NEW c \in Caller, HasFactory(c)'
                  PROVE  Cached(got[c])' \/ c \in cutOff'
      BY DEF EngineStaysCached
    <2>1. HasFactory(c) /\ got'[c] = got[c]
      BY <1>1, <1>3, ConstantsAssumption DEF HasFactory, Actor
    <2>2. got[c] \in Engine
      BY <2>1 DEF IInv, SessionMatchesUrl, HasFactory
    <2>3. Cached(got[c]) \/ c \in cutOff
      BY <2>1 DEF IInv, EngineStaysCached
    <2>. QED  BY <1>1, <1>4, <2>1, <2>2, <2>3
  <1>. QED
    BY <1>5, <1>6, <1>7, <1>8, <1>9, <1>10, <1>11, <1>12, <1>13, <1>14 DEF IInv

\* A factory leaves the list of a dispose call by being passed on.
LEMMA DisposeOneStep ==
  ASSUME IInv, NEW d \in Disposer, DisposeOne(d)
  PROVE  IInv'
  <1>1. PICK e \in todo[d] :
          /\ todo' = [todo EXCEPT ![d] = @ \ {e}]
          /\ passed' = passed \cup {e}
    BY DEF DisposeOne
  <1>2. /\ UNCHANGED <<cfg, lock, cache, made, detached, cutOff, open, pc, callerVars>>
        /\ e \in Engine /\ e \in detached
    BY DEF DisposeOne, IInv, TypeOK, DisposerInv
  <1>3. TypeOK'
    BY <1>1, <1>2 DEF IInv, TypeOK, callerVars
  <1>4. LockInv' /\ CallerInv' /\ SessionMatchesUrl'
    BY <1>2 DEF IInv, LockInv, Holds, CallerInv, SessionMatchesUrl, HasFactory, Slot, callerVars
  <1>5. SlotInv' /\ OneEnginePerKey'
    BY <1>2 DEF IInv, SlotInv, OneEnginePerKey
  <1>6. DetachedInv'
    BY <1>1, <1>2 DEF IInv, DetachedInv, Cached, CachedIn
  <1>7. DisposerInv'
    BY <1>1, <1>2 DEF IInv, TypeOK, DisposerInv, CachedIn, DisposeOne
  <1>8. NoEngineSkipped'
    BY <1>1, <1>2 DEF IInv, TypeOK, NoEngineSkipped, Cached, CachedIn
  <1>9. EngineStaysCached'
    BY <1>2 DEF IInv, EngineStaysCached, HasFactory, Cached, CachedIn, callerVars
  <1>. QED  BY <1>3, <1>4, <1>5, <1>6, <1>7, <1>8, <1>9 DEF IInv

-----------------------------------------------------------------------------
\* Every step keeps the invariant.
LEMMA NextInv == IInv /\ [Next]_vars => IInv'
  <1>. SUFFICES ASSUME IInv, [Next]_vars PROVE IInv'
    OBVIOUS
  <1>1. ASSUME NEW c \in Caller, Lookup(c) PROVE IInv'
    BY <1>1, AcquireStep, HitStep, MissStep, StoreStep, CreateFailsStep, OpenStep
       DEF Lookup
  <1>2. ASSUME NEW d \in Disposer, Dispose(d) PROVE IInv'
    BY <1>2, SnapshotStep, DetachStep, DisposeOneStep, DisposeReturnStep DEF Dispose
  <1>3. CASE UNCHANGED vars
    <2>1. TypeOK' /\ LockInv' /\ SlotInv' /\ DetachedInv'
      BY <1>3 DEF vars, IInv, TypeOK, LockInv, Holds, SlotInv, DetachedInv,
                  Cached, CachedIn
    <2>2. CallerInv' /\ DisposerInv' /\ OneEnginePerKey' /\ SessionMatchesUrl'
      BY <1>3 DEF vars, IInv, CallerInv, Slot, DisposerInv, CachedIn,
                  OneEnginePerKey, SessionMatchesUrl, HasFactory
    <2>3. NoEngineSkipped' /\ EngineStaysCached'
      BY <1>3 DEF vars, IInv, NoEngineSkipped, EngineStaysCached, HasFactory,
                  Cached, CachedIn
    <2>. QED  BY <2>1, <2>2, <2>3 DEF IInv
  <1>. QED
    BY <1>1, <1>2, <1>3, ResolveStep, CloseStep, DisposeCallStep, OtherStep DEF Next

\* The inductive invariant holds of every reachable state.
THEOREM Invariance == Spec => []IInv
  BY InitInv, NextInv, PTL DEF Spec

-----------------------------------------------------------------------------
\* The variables keep their types: only engines are cached and passed on.
THEOREM TypeCorrectness == Spec => []TypeOK
  <1>1. IInv => TypeOK  BY DEF IInv
  <1>. QED  BY <1>1, Invariance, PTL

\* No cache ever holds an engine that was taken out to be disposed, so no
\* lookup is given one.
THEOREM LiveCaches == Spec => []CachedEnginesAreLive
  <1>1. IInv => CachedEnginesAreLive
    BY DEF IInv, DetachedInv, CachedEnginesAreLive
  <1>. QED  BY <1>1, Invariance, PTL

\* Lookups of one URL share one engine, however many there are.
THEOREM SharedEngines == Spec => []OneEnginePerKey
  <1>1. IInv => OneEnginePerKey  BY DEF IInv
  <1>. QED  BY <1>1, Invariance, PTL

\* No request gets a session of another URL than its own.
THEOREM OwnDatabase == Spec => []SessionMatchesUrl
  <1>1. IInv => SessionMatchesUrl  BY DEF IInv
  <1>. QED  BY <1>1, Invariance, PTL

\* Whatever threads store while a shutdown lists and clears the caches, no
\* engine of engines.py leaves them without being passed to _dispose_one.
THEOREM NothingSkipped == Spec => []NoEngineSkipped
  <1>1. IInv => NoEngineSkipped  BY DEF IInv
  <1>. QED  BY <1>1, Invariance, PTL

\* Only requests that were under way when the caches were detached go on with
\* an engine that no cache refers to.
THEOREM EnginesStayCached == Spec => []EngineStaysCached
  <1>1. IInv => EngineStaysCached  BY DEF IInv
  <1>. QED  BY <1>1, Invariance, PTL

-----------------------------------------------------------------------------
\* Two actors are never inside the `with` of one lock together, and nobody
\* ends, or waits for a lock, while it holds one: an early return or an
\* exception on the way out of a lookup cannot block the others.
LockDiscipline ==
  \A l \in Lock :
    /\ \A a, b \in Actor : Holds(a, l) /\ Holds(b, l) => a = b
    /\ lock[l] # Free => lock[l] \in Actor /\ Holds(lock[l], l)

\* Two actors are never inside the `with` of one lock, and a lock that is
\* taken is held by an actor inside its `with`, which waits for nothing.
THEOREM LocksAreDisciplined == Spec => []LockDiscipline
  <1>1. IInv => LockDiscipline
    <2>. SUFFICES ASSUME IInv, NEW l \in Lock
                  PROVE  /\ \A a, b \in Actor : Holds(a, l) /\ Holds(b, l) => a = b
                         /\ lock[l] # Free => lock[l] \in Actor /\ Holds(lock[l], l)
      BY DEF LockDiscipline
    <2>1. \A a \in Actor : lock[l] = a <=> Holds(a, l)
      BY DEF IInv, LockInv
    <2>2. lock[l] \in Actor \cup {Free}
      BY DEF IInv, TypeOK
    <2>. QED  BY <2>1, <2>2
  <1>. QED  BY <1>1, Invariance, PTL

-----------------------------------------------------------------------------
(***************************************************************************)
(* The caches implement Registry.                                          *)
(***************************************************************************)
AWants == [c \in Caller |-> Wanted(c)]
AGiven == [c \in Caller |-> Given(c)]
AUsed  == {e \in Engine : made[e] # NoUrl}

\* What Registry sees of the callers changes at most for the one that moves.
LEMMA CallerMoves ==
  ASSUME NEW c \in Caller,
         \A x \in Caller \ {c} : /\ pc'[x] = pc[x] /\ kind'[x] = kind[x]
                                 /\ url'[x] = url[x] /\ got'[x] = got[x]
  PROVE  /\ AWants' = [AWants EXCEPT ![c] = Wanted(c)']
         /\ AGiven' = [AGiven EXCEPT ![c] = Given(c)']
  BY DEF AWants, AGiven, Wanted, Given, HasFactory

\* A step that changes neither the caches nor what a caller wants or was
\* given is none of Registry.
LEMMA Stutters ==
  ASSUME UNCHANGED <<cache, made, detached, passed>>,
         \A c \in Caller : UNCHANGED <<Wanted(c), Given(c)>>
  PROVE  UNCHANGED ARegistry!registryVars
  <1>1. OneTable' = OneTable
    BY DEF OneTable
  <1>2. AWants' = AWants /\ AGiven' = AGiven /\ AUsed' = AUsed
    BY DEF AWants, AGiven, AUsed
  <1>. QED  BY <1>1, <1>2 DEF ARegistry!registryVars, AWants, AGiven, AUsed

\* The slot a caller wants is a place of the table.
LEMMA WantedPlace ==
  ASSUME IInv, NEW c \in Caller, pc[c] \in {"lookup", "check", "create"}
  PROVE  /\ AWants[c] \in Kind \X Key
         /\ AWants[c] = <<kind[c], CacheKey(url[c])>>
         /\ AWants[c] # <<>>
         /\ OneTable[AWants[c]] = Slot(c)
         /\ OneTable[AWants[c]] \in Engine \cup {NoEngine}
         /\ AGiven[c] = NoEngine
  <1>1. kind[c] \in Kind /\ CacheKey(url[c]) \in Key
    BY KeyOfUrl DEF IInv, TypeOK, CallerInv
  <1>2. AWants[c] = <<kind[c], CacheKey(url[c])>>
    BY DEF AWants, Wanted
  <1>3. OneTable[AWants[c]] = Slot(c)
    BY <1>1, <1>2 DEF OneTable, Slot
  <1>4. Slot(c) \in Engine \cup {NoEngine}
    BY <1>1 DEF Slot, IInv, TypeOK
  <1>5. AGiven[c] = NoEngine
    BY DEF AGiven, Given, HasFactory
  <1>. QED  BY <1>1, <1>2, <1>3, <1>4, <1>5

\* Resolving its URL makes a request want a slot, or ends it.
LEMMA ResolveRefines ==
  ASSUME IInv, NEW c \in Caller, NEW k \in Kind, NEW n \in Db \cup {NoName},
         Resolve(c, k, n)
  PROVE  [ARegistry!RegistryNext]_(ARegistry!registryVars)
  <1>1. Wanted(c) = <<>> /\ Given(c) = NoEngine /\ Given(c)' = NoEngine
    BY DEF Resolve, Wanted, Given, HasFactory, IInv, TypeOK, Actor
  <1>2. \A x \in Caller \ {c} : /\ pc'[x] = pc[x] /\ kind'[x] = kind[x]
                                /\ url'[x] = url[x] /\ got'[x] = got[x]
    BY DEF Resolve, callerVars, IInv, TypeOK, Actor
  <1>3. UNCHANGED <<cache, made, detached, passed>>
    BY DEF Resolve, poolVars
  <1>4. CASE pc'[c] = "lookup"
    <2>1. url'[c] \in Url /\ kind'[c] = k
      <3>1. DatabaseName(k, n) # NoName => DatabaseName(k, n) \in Db
        BY ConstantsAssumption DEF DatabaseName
      <3>. QED  BY <1>4, <3>1 DEF Resolve, IInv, TypeOK, Actor
    <2>2. Wanted(c)' = <<k, CacheKey(url'[c])>> /\ Wanted(c)' \in Kind \X Key
      BY <1>4, <2>1 DEF Wanted, CacheKey, Url, Key
    <2>3. AWants' = [AWants EXCEPT ![c] = Wanted(c)'] /\ AGiven' = AGiven
      BY <1>1, <1>2, CallerMoves DEF AGiven
    <2>4. OneTable' = OneTable /\ AUsed' = AUsed
      BY <1>3 DEF OneTable, AUsed
    <2>5. AWants[c] = <<>> /\ AGiven[c] = NoEngine
      BY <1>1 DEF AWants, AGiven
    <2>6. ARegistry!Want(c)
      BY <1>3, <2>2, <2>3, <2>4, <2>5 DEF ARegistry!Want, AWants, AGiven, AUsed
    <2>. QED  BY <2>6 DEF ARegistry!RegistryNext
  <1>5. CASE pc'[c] # "lookup"
    <2>1. Wanted(c)' = <<>>
      BY <1>5 DEF Resolve, Wanted, IInv, TypeOK, Actor
    <2>. QED  BY <1>1, <1>2, <1>3, <2>1, Stutters DEF Wanted, Given, HasFactory
  <1>. QED  BY <1>4, <1>5

\* Hit, Store and CreateFails are the instants at which a lookup takes effect.
LEMMA AnswerRefines ==
  ASSUME IInv, NEW c \in Caller, Hit(c) \/ Store(c) \/ CreateFails(c)
  PROVE  [ARegistry!RegistryNext]_(ARegistry!registryVars)
  <1>1. pc[c] \in {"check", "create"}
    BY DEF Hit, Store, CreateFails, Goto
  <1>2. /\ AWants[c] \in Kind \X Key
        /\ AWants[c] = <<kind[c], CacheKey(url[c])>>
        /\ AWants[c] # <<>>
        /\ OneTable[AWants[c]] = Slot(c)
        /\ AGiven[c] = NoEngine
    BY <1>1, WantedPlace
  <1>3. \A x \in Caller \ {c} : /\ pc'[x] = pc[x] /\ kind'[x] = kind[x]
                                /\ url'[x] = url[x] /\ got'[x] = got[x]
    BY DEF Hit, Store, CreateFails, Goto, callerVars, IInv, TypeOK, Actor
  <1>4. pc'[c] \in {"ready", "engine_error"} /\ Wanted(c)' = <<>>
    BY DEF Hit, Store, CreateFails, Goto, Wanted, IInv, TypeOK, Actor
  <1>5. AWants' = [AWants EXCEPT ![c] = <<>>] /\ AGiven' = [AGiven EXCEPT ![c] = Given(c)']
    BY <1>3, <1>4, CallerMoves
  <1>6. UNCHANGED <<detached, passed>>
    BY DEF Hit, Store, CreateFails, poolVars
  <1>7. CASE Hit(c)
    <2>1. Given(c)' = Slot(c) /\ Slot(c) # NoEngine
      BY <1>7 DEF Hit, Goto, Given, HasFactory, IInv, TypeOK, Actor
    <2>2. OneTable' = OneTable /\ AUsed' = AUsed
      BY <1>7 DEF Hit, OneTable, AUsed
    <2>3. ARegistry!Find(c)
      BY <1>2, <1>5, <1>6, <2>1, <2>2 DEF ARegistry!Find, AWants, AGiven, AUsed
    <2>. QED  BY <2>3 DEF ARegistry!RegistryNext
  <1>8. CASE CreateFails(c)
    <2>1. Given(c)' = NoEngine /\ Slot(c) = NoEngine
      BY <1>8 DEF CreateFails, Goto, Given, HasFactory, IInv, CallerInv, TypeOK, Actor
    <2>2. OneTable' = OneTable /\ AUsed' = AUsed
      BY <1>8 DEF CreateFails, OneTable, AUsed
    <2>3. AGiven' = AGiven
      BY <1>2, <1>5, <2>1 DEF AGiven
    <2>4. ARegistry!Fail(c)
      BY <1>2, <1>5, <1>6, <2>1, <2>2, <2>3 DEF ARegistry!Fail, AWants, AGiven, AUsed
    <2>. QED  BY <2>4 DEF ARegistry!RegistryNext
  <1>9. CASE Store(c)
    <2>1. PICK e \in Engine :
            /\ made[e] = NoUrl
            /\ made' = [made EXCEPT ![e] = [kind |-> kind[c], url |-> url[c]]]
            /\ cache' = [cache EXCEPT ![kind[c]][CacheKey(url[c])] = e]
            /\ got' = [got EXCEPT ![c] = e]
      BY <1>9 DEF Store
    <2>2. Given(c)' = e /\ Slot(c) = NoEngine
      BY <1>9, <2>1 DEF Store, Goto, Given, HasFactory, IInv, CallerInv, TypeOK, Actor
    <2>3. OneTable' = [OneTable EXCEPT ![AWants[c]] = e]
      <3>1. kind[c] \in Kind /\ CacheKey(url[c]) \in Key
        BY <1>2
      <3>2. \A k \in Kind, q \in Key :
              cache'[k][q] = IF k = kind[c] /\ q = CacheKey(url[c]) THEN e ELSE cache[k][q]
        BY <2>1, <3>1 DEF IInv, TypeOK
      <3>3. \A s \in Kind \X Key : /\ s[1] \in Kind /\ s[2] \in Key
                                   /\ s = AWants[c] <=> s[1] = kind[c] /\ s[2] = CacheKey(url[c])
        BY <1>2
      <3>4. \A s \in Kind \X Key :
              OneTable'[s] = IF s = AWants[c] THEN e ELSE OneTable[s]
        BY <3>2, <3>3 DEF OneTable
      <3>. QED  BY <1>2, <3>4 DEF OneTable
    <2>4. e \in Engine \ AUsed /\ AUsed' = AUsed \cup {e}
      <3>1. [kind |-> kind[c], url |-> url[c]] # NoUrl
        BY <1>9, ConstantsAssumption DEF Store, Goto, IInv, TypeOK, CallerInv
      <3>. QED  BY <2>1, <3>1 DEF AUsed, IInv, TypeOK
    <2>5. ARegistry!Create(c)
      BY <1>2, <1>5, <1>6, <2>2, <2>3, <2>4 DEF ARegistry!Create, AWants, AGiven, AUsed
    <2>. QED  BY <2>5 DEF ARegistry!RegistryNext
  <1>. QED  BY <1>7, <1>8, <1>9

\* Between these instants Registry sees nothing of a request; in the end the
\* request lets go of what it was given.
LEMMA RequestRefines ==
  ASSUME IInv, NEW c \in Caller,
         Acquire(c) \/ Miss(c) \/ OpenSession(c) \/ Execute(c) \/ CloseSession(c)
  PROVE  [ARegistry!RegistryNext]_(ARegistry!registryVars)
  <1>1. UNCHANGED <<cache, made, detached, passed, kind, url, got>>
    BY DEF Acquire, Miss, OpenSession, Execute, CloseSession, poolVars, callerVars
  <1>2. CASE Acquire(c) \/ Miss(c) \/ OpenSession(c) \/ Execute(c)
    <2>1. \A x \in Caller : UNCHANGED <<Wanted(x), Given(x)>>
      BY <1>1, <1>2
         DEF Acquire, Miss, OpenSession, Execute, Goto, Wanted, Given, HasFactory, IInv, TypeOK, Actor
    <2>. QED  BY <1>1, <2>1, Stutters
  <1>3. CASE CloseSession(c)
    <2>1. pc[c] = "session" /\ Wanted(c)' = Wanted(c) /\ Given(c)' = NoEngine
      BY <1>3, <1>1 DEF CloseSession, Goto, Wanted, Given, HasFactory, IInv, TypeOK, Actor
    <2>2. \A x \in Caller \ {c} : pc'[x] = pc[x]
      BY <1>3 DEF CloseSession, Goto, IInv, TypeOK, Actor
    <2>3. AWants' = AWants /\ AGiven' = [AGiven EXCEPT ![c] = NoEngine]
      BY <1>1, <2>1, <2>2, CallerMoves DEF AWants
    <2>4. OneTable' = OneTable /\ AUsed' = AUsed
      BY <1>1 DEF OneTable, AUsed
    <2>5. ARegistry!LetGo(c)
      BY <1>1, <2>3, <2>4 DEF ARegistry!LetGo, AWants, AGiven, AUsed
    <2>. QED  BY <2>5 DEF ARegistry!RegistryNext
  <1>. QED  BY <1>2, <1>3

\* A dispose call takes effect when it has emptied the caches; what it has
\* listed is then what the caches held.
LEMMA DisposeRefines ==
  ASSUME IInv, NEW d \in Disposer, DisposeCall(d) \/ Dispose(d)
  PROVE  [ARegistry!RegistryNext]_(ARegistry!registryVars)
  <1>1. \A c \in Caller : UNCHANGED <<Wanted(c), Given(c)>>
    <2>1. UNCHANGED callerVars /\ \A c \in Caller : pc'[c] = pc[c]
      BY ConstantsAssumption
         DEF DisposeCall, Dispose, Snapshot, Detach, DisposeOne, DisposeReturn, Goto,
             IInv, TypeOK, Actor
    <2>. QED  BY <2>1 DEF Wanted, Given, HasFactory, callerVars
  <1>2. AWants' = AWants /\ AGiven' = AGiven
    BY <1>1 DEF AWants, AGiven
  <1>3. CASE DisposeCall(d) \/ Snapshot(d) \/ DisposeReturn(d)
    BY <1>1, <1>3, Stutters DEF DisposeCall, Snapshot, DisposeReturn, poolVars
  <1>4. CASE Detach(d)
    <2>1. UNCHANGED <<made, passed>> /\ detached' = detached \cup CachedIn(Disposable)
      BY <1>4 DEF Detach, Goto, IInv, DisposerInv
    <2>2. CachedIn(Disposable)
            = {OneTable[s] : s \in Disposable \X Key} \ {NoEngine}
      <3>1. \A s \in Disposable \X Key : OneTable[s] = cache[s[1]][s[2]]
        BY DEF OneTable, Disposable, Kind
      <3>2. \A k \in Disposable, q \in Key : cache[k][q] \in Engine \cup {NoEngine}
        BY DEF Disposable, Kind, IInv, TypeOK
      <3>3. ASSUME NEW e \in CachedIn(Disposable)
            PROVE  e \in {OneTable[s] : s \in Disposable \X Key} \ {NoEngine}
        <4>1. PICK k \in Disposable, q \in Key : cache[k][q] = e
          BY DEF CachedIn
        <4>2. <<k, q>> \in Disposable \X Key /\ OneTable[<<k, q>>] = e
          BY <3>1, <4>1
        <4>. QED  BY <4>2, ConstantsAssumption DEF CachedIn
      <3>4. ASSUME NEW s \in Disposable \X Key, OneTable[s] # NoEngine
            PROVE  OneTable[s] \in CachedIn(Disposable)
        BY <3>1, <3>2, <3>4 DEF CachedIn
      <3>. QED  BY <3>3, <3>4
    <2>3. OneTable' = [s \in Kind \X Key |->
                         IF s \in Disposable \X Key THEN NoEngine ELSE OneTable[s]]
      BY <1>4 DEF Detach, OneTable
    <2>4. AUsed' = AUsed
      BY <2>1 DEF AUsed
    <2>5. ARegistry!Clear
      BY <1>2, <2>1, <2>2, <2>3, <2>4 DEF ARegistry!Clear, AWants, AGiven, AUsed
    <2>. QED  BY <2>5 DEF ARegistry!RegistryNext
  <1>5. CASE DisposeOne(d)
    <2>1. UNCHANGED <<cache, made, detached>>
      BY <1>5 DEF DisposeOne
    <2>2. PICK e \in todo[d] : passed' = passed \cup {e}
      BY <1>5 DEF DisposeOne
    <2>3. e \in Engine /\ e \in detached
      BY <1>5, <2>2 DEF DisposeOne, IInv, TypeOK, DisposerInv
    <2>4. OneTable' = OneTable /\ AUsed' = AUsed
      BY <2>1 DEF OneTable, AUsed
    <2>5. ARegistry!Discard(e)
      BY <1>2, <2>1, <2>2, <2>3, <2>4 DEF ARegistry!Discard, AWants, AGiven, AUsed
    <2>. QED  BY <2>3, <2>5 DEF ARegistry!RegistryNext
  <1>. QED  BY <1>3, <1>4, <1>5 DEF Dispose

\* Although lookups and dispose calls interleave step by step, requests see
\* one table whose operations are atomic: who misses creates, nobody else
\* does, and a clearing leaves out no engine that a lookup has stored.
THEOREM CachesImplementRegistry == Spec => ImplementsRegistry
  <1>1. Init => ARegistry!RegistryInit
    <2>. SUFFICES ASSUME Init PROVE ARegistry!RegistryInit
      OBVIOUS
    <2>1. OneTable = [s \in Kind \X Key |-> NoEngine]
      BY DEF Init, OneTable
    <2>2. AUsed = {}
      BY DEF Init, AUsed
    <2>3. AWants = [c \in Caller |-> <<>>] /\ AGiven = [c \in Caller |-> NoEngine]
      BY DEF Init, AWants, AGiven, Wanted, Given, HasFactory, Actor
    <2>. QED  BY <2>1, <2>2, <2>3 DEF Init, ARegistry!RegistryInit, AWants, AGiven, AUsed
  <1>2. IInv /\ [Next]_vars => [ARegistry!RegistryNext]_(ARegistry!registryVars)
    <2>. SUFFICES ASSUME IInv, [Next]_vars
                  PROVE  [ARegistry!RegistryNext]_(ARegistry!registryVars)
      OBVIOUS
    <2>1. CASE \/ UNCHANGED vars
               \/ \E n \in Db, u \in Url : Reconfigure(n, u)
      BY <2>1, Stutters DEF vars, Reconfigure, poolVars, callerVars, Wanted, Given, HasFactory
    <2>. QED
      BY <2>1, ResolveRefines, AnswerRefines, RequestRefines, DisposeRefines DEF Next, Lookup
  <1>. QED
    BY <1>1, <1>2, Invariance, PTL DEF Spec, ImplementsRegistry, ARegistry!RegistrySpec

=============================================================================
