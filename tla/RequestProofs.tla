---------------------------- MODULE RequestProofs ----------------------------
(***************************************************************************)
(* What a request may rely on, for every number of requests, event loops,  *)
(* migrations, workers and statements.                                     *)
(***************************************************************************)
EXTENDS Request, TLAPS

\* The flag is set under the lock, after the listeners have been registered;
\* who is past the registration has seen it set.
RegInv ==
  /\ \A r \in Request : pc[r] \in {"locked", "added"} <=> lock = r
  /\ registered => listeners = 1 /\ \A r \in Request : pc[r] # "added"
  /\ ~registered =>
       /\ listeners = IF \E r \in Request : pc[r] = "added" THEN 1 ELSE 0
       /\ \A r \in Request : pc[r] \in {"new", "wait", "locked", "added"}
       /\ \A w \in Worker : wpc[w] = "idle"

\* What slowest becomes when the worker that records stores it.
Greater(w) == IF elapsed[w] > old[w] THEN elapsed[w] ELSE old[w]

Recording(w) == wpc[w] \in {"record", "record_error"}

\* No two workers of r record at once, and whoever records stores the longest.
SoleOf(r) ==
  /\ \A v, w \in Worker :
       OwnerOf[v] = r /\ OwnerOf[w] = r /\ Recording(v) /\ Recording(w) => v = w
  /\ \A w \in Worker : OwnerOf[w] = r /\ Recording(w) => Greater(w) = longest[r]
  /\ (\A w \in Worker : OwnerOf[w] = r => ~Recording(w)) => slowest[r] = longest[r]

SlowOf(r) ==
  /\ slowest[r] <= longest[r]
  /\ \A w \in Worker : OwnerOf[w] = r /\ Recording(w) => Greater(w) <= longest[r]
  /\ ~raced[r] => SoleOf(r)

SlowInv == \A r \in Request : SlowOf(r)

Inside(a) == pc[a] \in {"flagged", "configured", "raised"}
Used(a)   == Inside(a) \/ pc[a] \in {"run", "ended"}

\* A scope is used by one actor, or by coroutines of one loop.
Alone(s) ==
  \A a, b \in Actor :
    Used(a) /\ ScopeOf(a) = s /\ Used(b) /\ ScopeOf(b) = s => a = b \/ OneLoop(a, b)

\* Who is inside runtime_flags, alone, has set the flags and saved FALSE.
ScopeInv(s) ==
  /\ \A a \in Actor : Used(a) /\ ScopeOf(a) = s =>
       /\ seen[a] = DevOf[a]
       /\ Inside(a) => dev[s] = DevOf[a] /\ saved[a] = FALSE
  /\ (\A a \in Actor : ScopeOf(a) = s => ~Inside(a)) => dev[s] = FALSE

FlagInv ==
  /\ \A a, b \in Actor : a # b /\ OneLoop(a, b) /\ Inside(a) => ~Inside(b)
  /\ \A a \in Actor : ~Used(a) => seen[a] = DevOf[a]
  /\ \A s \in Scope : Alone(s) => ScopeInv(s)

IInv == TypeOK /\ RegInv /\ CountedOnce /\ SlowInv /\ FlagInv

-----------------------------------------------------------------------------
\* Every actor has its flags in a scope.
LEMMA ScopeOfType == ASSUME TypeOK, NEW a \in Actor PROVE ScopeOf(a) \in Scope
  BY DEF TypeOK, ScopeOf, Scope, Coroutine

\* Init establishes the invariant: nobody is registered, inside or at work.
LEMMA InitInv == Init => IInv
  <1>. SUFFICES ASSUME Init PROVE IInv
    OBVIOUS
  <1>1. TypeOK
    <2>1. 0 \in Times /\ Statements \in 0..Statements
      BY RequestAssumption DEF Times
    <2>2. /\ loop \in [Request -> Loop] /\ threaded \subseteq Request
          /\ scoping \in {"process", "thread"} /\ registered \in BOOLEAN
      BY DEF Init
    <2>6. lock \in Request \cup {None} /\ listeners \in 0..1 /\ pc \in [Actor -> PC]
      BY DEF Init, PC
    <2>3. dev \in [Scope -> BOOLEAN] /\ saved \in [Actor -> BOOLEAN] /\ seen \in [Actor -> BOOLEAN]
      BY RequestAssumption DEF Init
    <2>4. /\ wpc \in [Worker -> {"idle", "execute", "record", "record_error", "fetch"}]
          /\ todo \in [Worker -> 0..Statements]
          /\ old \in [Worker -> Times] /\ elapsed \in [Worker -> Times]
      BY <2>1 DEF Init
    <2>5. /\ count \in [Request -> Nat] /\ slowest \in [Request -> Times]
          /\ finished \in [Request -> Nat] /\ longest \in [Request -> Times]
          /\ doubled \in [Request -> BOOLEAN] /\ raced \in [Request -> BOOLEAN]
      BY <2>1 DEF Init
    <2>. QED  BY <2>2, <2>3, <2>4, <2>5, <2>6 DEF TypeOK
  <1>2. RegInv /\ CountedOnce
    BY RequestAssumption DEF Init, RegInv, CountedOnce, Actor
  <1>3. SlowInv
    <2>1. \A w \in Worker : ~Recording(w)
      BY DEF Init, Recording
    <2>2. \A r \in Request : slowest[r] = 0 /\ longest[r] = 0
      BY DEF Init
    <2>3. \A r \in Request : slowest[r] = longest[r] /\ slowest[r] <= longest[r]
      <3>1. 0 <= 0
        OBVIOUS
      <3>. QED  BY <2>2, <3>1, Zenon
    <2>. QED  BY <2>1, <2>3, Zenon DEF SlowInv, SlowOf, SoleOf
  <1>4. FlagInv
    <2>1. \A a \in Actor : ~Used(a) /\ ~Inside(a) /\ seen[a] = DevOf[a]
      BY DEF Init, Used, Inside
    <2>2. \A s \in Scope : dev[s] = FALSE
      BY DEF Init
    <2>. QED  BY <2>1, <2>2 DEF FlagInv, ScopeInv
  <1>. QED  BY <1>1, <1>2, <1>3, <1>4 DEF IInv

\* A step that leaves flags alone and moves nobody into runtime_flags or out
\* of it keeps FlagInv.
LEMMA FlagFrame ==
  ASSUME IInv, UNCHANGED <<setting, flags>>,
         \A a \in Actor : (Inside(a)' <=> Inside(a)) /\ (Used(a) => Used(a)')
  PROVE  FlagInv'
  <1>1. \A a : ScopeOf(a)' = ScopeOf(a)
    BY DEF ScopeOf, Coroutine, setting
  <1>2. \A a, b : OneLoop(a, b)' <=> OneLoop(a, b)
    BY DEF OneLoop, Coroutine, setting
  <1>3. \A s \in Scope : Alone(s)' => Alone(s)
    <2>. SUFFICES ASSUME NEW s \in Scope, Alone(s)' PROVE Alone(s)
      OBVIOUS
    <2>. SUFFICES ASSUME NEW a \in Actor, NEW b \in Actor,
                         Used(a), ScopeOf(a) = s, Used(b), ScopeOf(b) = s
                  PROVE  a = b \/ OneLoop(a, b)
      BY DEF Alone
    <2>1. Used(a)' /\ Used(b)' /\ ScopeOf(a)' = s /\ ScopeOf(b)' = s
      BY <1>1, Zenon
    <2>2. a = b \/ OneLoop(a, b)'
      BY <2>1 DEF Alone
    <2>. QED  BY <1>2, <2>2
  <1>4. UNCHANGED <<dev, saved, seen>>
    BY DEF flags
  <1>5. \A a \in Actor : Used(a)' /\ ~Used(a) => seen[a] = DevOf[a] /\ ~Inside(a)
    BY DEF IInv, FlagInv, Used
  <1>6. \A s \in Scope : ScopeInv(s) => ScopeInv(s)'
    BY <1>1, <1>4, <1>5 DEF ScopeInv
  <1>. QED  BY <1>2, <1>3, <1>4, <1>6 DEF IInv, FlagInv

\* A step that leaves workers and their records alone keeps SlowInv.
LEMMA SlowFrame ==
  ASSUME IInv, UNCHANGED <<work, stats, history>>
  PROVE  SlowInv' /\ CountedOnce'
  BY DEF IInv, SlowInv, SlowOf, SoleOf, CountedOnce, Recording, Greater, work, stats, history

-----------------------------------------------------------------------------
\* Registration: the lock admits one request, and the flag is tested again
\* under it.
LEMMA RegisterStep ==
  ASSUME IInv, NEW r \in Request,
         CheckRegistered(r) \/ TakeLock(r) \/ Listen(r) \/ SetRegistered(r)
  PROVE  IInv'
  <1>1. /\ UNCHANGED <<setting, flags, work, stats, history>>
        /\ r \in Actor
        /\ pc[r] \in {"new", "wait", "locked", "added"}
        /\ \E to \in {"wait", "locked", "added", "resolve"} : pc' = [pc EXCEPT ![r] = to]
    BY DEF CheckRegistered, TakeLock, Listen, SetRegistered, Goto, Actor
  <1>2. TypeOK'
    <2>1. pc' \in [Actor -> PC]
      BY <1>1 DEF IInv, TypeOK, PC
    <2>2. registered' \in BOOLEAN /\ lock' \in Request \cup {None} /\ listeners' \in 0..1
      <3>1. CASE CheckRegistered(r)
        BY <3>1 DEF CheckRegistered, events, IInv, TypeOK
      <3>2. CASE TakeLock(r)
        BY <3>2 DEF TakeLock, IInv, TypeOK
      <3>3. CASE SetRegistered(r)
        BY <3>3 DEF SetRegistered, IInv, TypeOK
      <3>4. CASE Listen(r)
        <4>1. pc[r] = "locked"
          BY <3>4 DEF Listen, Goto
        <4>2. ~registered => listeners = 0
          BY <4>1 DEF IInv, RegInv
        <4>. QED  BY <3>4, <4>2 DEF Listen, IInv, TypeOK
      <3>. QED  BY <3>1, <3>2, <3>3, <3>4
    <2>. QED  BY <1>1, <2>1, <2>2 DEF IInv, TypeOK, setting, flags, work, stats, history
  <1>3. RegInv'
    <2>1. pc \in [Actor -> PC] /\ Request \subseteq Actor /\ None \notin Request
      BY RequestAssumption DEF IInv, TypeOK, Actor
    <2>2. UNCHANGED wpc
      BY <1>1 DEF work
    <2>3. CASE CheckRegistered(r)
      BY <2>1, <2>2, <2>3 DEF CheckRegistered, Goto, IInv, RegInv, events
    <2>4. CASE TakeLock(r)
      BY <2>1, <2>2, <2>4 DEF TakeLock, Goto, IInv, RegInv
    <2>5. CASE Listen(r)
      BY <2>1, <2>2, <2>5 DEF Listen, Goto, IInv, RegInv
    <2>6. CASE SetRegistered(r)
      BY <2>1, <2>2, <2>6 DEF SetRegistered, Goto, IInv, RegInv
    <2>. QED  BY <2>3, <2>4, <2>5, <2>6
  <1>4. FlagInv'
    <2>1. \A a \in Actor : (Inside(a)' <=> Inside(a)) /\ (Used(a) => Used(a)')
      BY <1>1 DEF Inside, Used, IInv, TypeOK
    <2>. QED  BY <1>1, <2>1, FlagFrame
  <1>. QED  BY <1>1, <1>2, <1>3, <1>4, SlowFrame DEF IInv

\* A request past its registration: tenant and end of the middleware.
LEMMA PassStep ==
  ASSUME IInv, NEW r \in Request, Resolve(r) \/ End(r)
  PROVE  IInv'
  <1>1. /\ UNCHANGED <<setting, events, flags, work, stats, history>>
        /\ r \in Actor
        /\ pc[r] \in {"resolve", "run"}
        /\ \E to \in {"lookup", "ended"} :
             pc' = [pc EXCEPT ![r] = to] /\ (pc[r] = "run" => to = "ended")
    BY DEF Resolve, End, Goto, Actor
  <1>2. TypeOK'
    BY <1>1 DEF IInv, TypeOK, PC, setting, events, flags, work, stats, history
  <1>3. RegInv'
    BY <1>1 DEF IInv, TypeOK, RegInv, events, work, Actor
  <1>4. \A a \in Actor : (Inside(a)' <=> Inside(a)) /\ (Used(a) => Used(a)')
    BY <1>1 DEF Inside, Used, IInv, TypeOK
  <1>. QED  BY <1>1, <1>2, <1>3, <1>4, FlagFrame, SlowFrame DEF IInv

-----------------------------------------------------------------------------
\* What runtime_flags does in one scope leaves the others as they are.
LEMMA OtherScopes ==
  ASSUME IInv, NEW a \in Actor, UNCHANGED setting,
         pc[a] \in {"new", "lookup"} \/ Inside(a),
         pc' \in [Actor -> PC],
         \A b \in Actor \ {a} : pc'[b] = pc[b] /\ saved'[b] = saved[b] /\ seen'[b] = seen[b],
         \A s \in Scope \ {ScopeOf(a)} : dev'[s] = dev[s],
         Used(a)',
         NEW s \in Scope, Alone(s)'
  PROVE  /\ Alone(s)
         /\ s # ScopeOf(a) => ScopeInv(s)'
  <1>1. \A b : ScopeOf(b)' = ScopeOf(b)
    BY DEF ScopeOf, Coroutine, setting
  <1>2. \A b, c : OneLoop(b, c)' <=> OneLoop(b, c)
    BY DEF OneLoop, Coroutine, setting
  <1>3. \A b \in Actor \ {a} : (Used(b)' <=> Used(b)) /\ (Inside(b)' <=> Inside(b))
    BY DEF Used, Inside
  <1>4. Alone(s)
    <2>. SUFFICES ASSUME NEW b \in Actor, NEW c \in Actor,
                         Used(b), ScopeOf(b) = s, Used(c), ScopeOf(c) = s
                  PROVE  b = c \/ OneLoop(b, c)
      BY DEF Alone
    <2>1. Used(b)' /\ Used(c)' /\ ScopeOf(b)' = s /\ ScopeOf(c)' = s
      BY <1>1, <1>3, Zenon
    <2>2. b = c \/ OneLoop(b, c)'
      BY <2>1 DEF Alone
    <2>. QED  BY <1>2, <2>2
  <1>5. s # ScopeOf(a) => ScopeInv(s)'
    <2>1. ScopeInv(s)
      BY <1>4 DEF IInv, FlagInv
    <2>2. ASSUME s # ScopeOf(a), NEW b \in Actor, ScopeOf(b) = s PROVE b # a
      BY <2>2
    <2>. QED  BY <1>1, <1>3, <2>1, <2>2, Zenon DEF ScopeInv
  <1>. QED  BY <1>4, <1>5

\* Who enters finds nobody inside, who would share its scope: the flags are
\* FALSE when it saves them.
LEMMA EnterStep ==
  ASSUME IInv, NEW a \in Actor, EnterFlags(a)
  PROVE  IInv'
  <1>1. /\ UNCHANGED <<setting, events, seen, work, stats, history>>
        /\ pc[a] = (IF a \in Request THEN "lookup" ELSE "new")
        /\ pc' = [pc EXCEPT ![a] = "flagged"]
        /\ saved' = [saved EXCEPT ![a] = dev[ScopeOf(a)]]
        /\ dev' = [dev EXCEPT ![ScopeOf(a)] = DevOf[a]]
        /\ MayRun(a)
    BY DEF EnterFlags, Goto, SetFlags
  <1>2. ScopeOf(a) \in Scope
    BY ScopeOfType DEF IInv
  <1>3. TypeOK'
    <2>1. /\ pc' \in [Actor -> PC] /\ saved' \in [Actor -> BOOLEAN]
          /\ dev' \in [Scope -> BOOLEAN]
      BY <1>1, <1>2, RequestAssumption DEF IInv, TypeOK, PC
    <2>. QED
      BY <1>1, <2>1 DEF IInv, TypeOK, setting, events, work, stats, history
  <1>4. RegInv'
    <2>1. Request \subseteq Actor /\ pc \in [Actor -> PC]
      BY DEF Actor, IInv, TypeOK
    <2>. QED  BY <1>1, <2>1 DEF IInv, RegInv, events, work
  <1>5. /\ ~Used(a) /\ ~Inside(a) /\ Used(a)' /\ Inside(a)'
        /\ \A b \in Actor \ {a} : pc'[b] = pc[b] /\ saved'[b] = saved[b] /\ seen'[b] = seen[b]
        /\ \A s \in Scope \ {ScopeOf(a)} : dev'[s] = dev[s]
        /\ saved'[a] = dev[ScopeOf(a)] /\ dev'[ScopeOf(a)] = DevOf[a]
    BY <1>1, <1>2 DEF Used, Inside, IInv, TypeOK
  <1>6. \A b \in Actor \ {a} : (Used(b)' <=> Used(b)) /\ (Inside(b)' <=> Inside(b))
    BY <1>5 DEF Used, Inside
  <1>7. ASSUME NEW b \in Actor \ {a}, OneLoop(a, b) \/ OneLoop(b, a) PROVE ~Inside(b)
    BY <1>1, <1>7 DEF OneLoop, MayRun, HoldsLoop, Coroutine, Inside
  <1>8. /\ \A b : ScopeOf(b)' = ScopeOf(b)
        /\ \A b, c : OneLoop(b, c)' <=> OneLoop(b, c)
    BY <1>1 DEF ScopeOf, OneLoop, Coroutine, setting
  <1>9. FlagInv'
    <2>1. \A b, c \in Actor : b # c /\ OneLoop(b, c)' /\ Inside(b)' => ~Inside(c)'
      BY <1>5, <1>6, <1>7, <1>8, Zenon DEF IInv, FlagInv
    <2>2. \A b \in Actor : ~Used(b)' => seen'[b] = DevOf[b]
      BY <1>5, <1>6 DEF IInv, FlagInv
    <2>3. ASSUME NEW s \in Scope, Alone(s)' PROVE ScopeInv(s)'
      <3>1. Alone(s) /\ (s # ScopeOf(a) => ScopeInv(s)')
        BY <1>1, <1>3, <1>5, <2>3, OtherScopes DEF TypeOK
      <3>2. CASE s = ScopeOf(a)
        <4>1. ScopeInv(s)
          BY <3>1 DEF IInv, FlagInv
        <4>2. ASSUME NEW b \in Actor \ {a}, Used(b), ScopeOf(b) = s PROVE ~Inside(b)
          <5>1. b = a \/ OneLoop(b, a)'
            BY <1>5, <1>6, <1>8, <2>3, <3>2, <4>2, Zenon DEF Alone
          <5>. QED  BY <1>7, <1>8, <5>1
        <4>3. \A b \in Actor : ScopeOf(b) = s => ~Inside(b)
          BY <1>5, <4>2 DEF Used
        <4>4. dev[s] = FALSE
          BY <4>1, <4>3 DEF ScopeInv
        <4>5. seen'[a] = DevOf[a]
          BY <1>1, <1>5 DEF IInv, FlagInv
        <4>6. \A b \in Actor \ {a} : Used(b)' /\ ScopeOf(b)' = s =>
                seen'[b] = DevOf[b] /\ ~Inside(b)'
          BY <1>5, <1>6, <1>8, <4>1, <4>2, Zenon DEF ScopeInv
        <4>7. saved'[a] = FALSE /\ dev'[s] = DevOf[a] /\ ScopeOf(a)' = s
          BY <1>5, <1>8, <3>2, <4>4
        <4>. QED  BY <1>5, <4>5, <4>6, <4>7, Zenon DEF ScopeInv
      <3>. QED  BY <3>1, <3>2
    <2>. QED  BY <2>1, <2>2, <2>3 DEF FlagInv
  <1>. QED  BY <1>1, <1>3, <1>4, <1>9, SlowFrame DEF IInv

\* get_database and migrate_cmd see the flags that their caller has set.
LEMMA UseStep ==
  ASSUME IInv, NEW a \in Actor, (a \in Request /\ GetDatabase(a)) \/ (a \in Migration /\ Migrate(a))
  PROVE  IInv'
  <1>1. /\ UNCHANGED <<setting, events, dev, saved, work, stats, history>>
        /\ pc[a] = "flagged"
        /\ \E to \in {"flagged", "configured", "raised"} :
             pc' = [pc EXCEPT ![a] = to] /\ (a \in Migration => to = "flagged")
        /\ seen' = seen \/ seen' = [seen EXCEPT ![a] = dev[ScopeOf(a)]]
    <2>1. CASE a \in Request /\ GetDatabase(a)
      BY <2>1, RequestAssumption DEF GetDatabase, Goto
    <2>2. CASE a \in Migration /\ Migrate(a)
      BY <2>2 DEF Migrate, IInv, TypeOK
    <2>. QED  BY <2>1, <2>2
  <1>2. ScopeOf(a) \in Scope
    BY ScopeOfType DEF IInv
  <1>3. TypeOK'
    <2>1. pc' \in [Actor -> PC] /\ seen' \in [Actor -> BOOLEAN]
      BY <1>1, <1>2 DEF IInv, TypeOK, PC
    <2>. QED
      BY <1>1, <2>1 DEF IInv, TypeOK, setting, events, work, stats, history
  <1>4. RegInv'
    <2>1. Request \subseteq Actor /\ pc \in [Actor -> PC]
      BY DEF Actor, IInv, TypeOK
    <2>. QED  BY <1>1, <2>1 DEF IInv, RegInv, events, work
  <1>5. /\ Used(a) /\ Inside(a) /\ Used(a)' /\ Inside(a)'
        /\ \A b \in Actor \ {a} : pc'[b] = pc[b] /\ saved'[b] = saved[b] /\ seen'[b] = seen[b]
        /\ \A s \in Scope : dev'[s] = dev[s]
        /\ saved'[a] = saved[a] /\ seen'[a] \in {seen[a], dev[ScopeOf(a)]}
    BY <1>1 DEF Used, Inside, IInv, TypeOK
  <1>6. \A b \in Actor : (Used(b)' <=> Used(b)) /\ (Inside(b)' <=> Inside(b))
    <2>1. \A b \in Actor \ {a} : (Used(b)' <=> Used(b)) /\ (Inside(b)' <=> Inside(b))
      BY <1>5 DEF Used, Inside
    <2>. QED  BY <1>5, <2>1
  <1>7. /\ \A b : ScopeOf(b)' = ScopeOf(b)
        /\ \A b, c : OneLoop(b, c)' <=> OneLoop(b, c)
    BY <1>1 DEF ScopeOf, OneLoop, Coroutine, setting
  <1>8. FlagInv'
    <2>1. \A b, c \in Actor : b # c /\ OneLoop(b, c)' /\ Inside(b)' => ~Inside(c)'
      BY <1>6, <1>7, Zenon DEF IInv, FlagInv
    <2>2. \A b \in Actor : ~Used(b)' => seen'[b] = DevOf[b]
      BY <1>5, <1>6 DEF IInv, FlagInv
    <2>3. ASSUME NEW s \in Scope, Alone(s)' PROVE ScopeInv(s)'
      <3>1. Alone(s) /\ (s # ScopeOf(a) => ScopeInv(s)')
        BY <1>1, <1>3, <1>5, <2>3, OtherScopes DEF TypeOK
      <3>2. CASE s = ScopeOf(a)
        <4>1. ScopeInv(s)
          BY <3>1 DEF IInv, FlagInv
        <4>2. dev[s] = DevOf[a] /\ seen[a] = DevOf[a] /\ saved[a] = FALSE
          BY <1>5, <3>2, <4>1 DEF ScopeInv
        <4>3. seen'[a] = DevOf[a]
          BY <1>5, <3>2, <4>2
        <4>4. \A b \in Actor \ {a} : Used(b)' /\ ScopeOf(b)' = s =>
                /\ seen'[b] = DevOf[b]
                /\ Inside(b)' => dev'[s] = DevOf[b] /\ saved'[b] = FALSE
          BY <1>5, <1>6, <1>7, <4>1, Zenon DEF ScopeInv
        <4>5. ScopeOf(a)' = s /\ dev'[s] = DevOf[a] /\ saved'[a] = FALSE
          BY <1>5, <1>7, <3>2, <4>2
        <4>. QED  BY <1>5, <4>3, <4>4, <4>5, Zenon DEF ScopeInv
      <3>. QED  BY <3>1, <3>2
    <2>. QED  BY <2>1, <2>2, <2>3 DEF FlagInv
  <1>. QED  BY <1>1, <1>3, <1>4, <1>8, SlowFrame DEF IInv

\* Who leaves was the only one inside in its scope, and restores FALSE.
LEMMA RestoreStep ==
  ASSUME IInv, NEW a \in Actor, Restore(a)
  PROVE  IInv'
  <1>1. /\ UNCHANGED <<setting, events, seen, work, stats, history>>
        /\ pc[a] \in {"flagged", "configured", "raised"}
        /\ \E to \in {"run", "ended"} : pc' = [pc EXCEPT ![a] = to]
        /\ saved' = [saved EXCEPT ![a] = FALSE]
        /\ dev' = [dev EXCEPT ![ScopeOf(a)] = saved[a]]
    BY DEF Restore, Goto, SetFlags
  <1>2. ScopeOf(a) \in Scope
    BY ScopeOfType DEF IInv
  <1>3. TypeOK'
    <2>1. /\ pc' \in [Actor -> PC] /\ saved' \in [Actor -> BOOLEAN]
          /\ dev' \in [Scope -> BOOLEAN]
      BY <1>1, <1>2 DEF IInv, TypeOK, PC
    <2>. QED
      BY <1>1, <2>1 DEF IInv, TypeOK, setting, events, work, stats, history
  <1>4. RegInv'
    <2>1. Request \subseteq Actor /\ pc \in [Actor -> PC]
      BY DEF Actor, IInv, TypeOK
    <2>. QED  BY <1>1, <2>1 DEF IInv, RegInv, events, work
  <1>5. /\ Used(a) /\ Inside(a) /\ Used(a)' /\ ~Inside(a)'
        /\ \A b \in Actor \ {a} : pc'[b] = pc[b] /\ saved'[b] = saved[b] /\ seen'[b] = seen[b]
        /\ \A s \in Scope \ {ScopeOf(a)} : dev'[s] = dev[s]
        /\ dev'[ScopeOf(a)] = saved[a] /\ seen'[a] = seen[a]
    BY <1>1, <1>2 DEF Used, Inside, IInv, TypeOK
  <1>6. \A b \in Actor \ {a} : (Used(b)' <=> Used(b)) /\ (Inside(b)' <=> Inside(b))
    BY <1>5 DEF Used, Inside
  <1>7. /\ \A b : ScopeOf(b)' = ScopeOf(b)
        /\ \A b, c : OneLoop(b, c)' <=> OneLoop(b, c)
    BY <1>1 DEF ScopeOf, OneLoop, Coroutine, setting
  <1>8. FlagInv'
    <2>1. \A b, c \in Actor : b # c /\ OneLoop(b, c)' /\ Inside(b)' => ~Inside(c)'
      BY <1>5, <1>6, <1>7, Zenon DEF IInv, FlagInv
    <2>2. \A b \in Actor : ~Used(b)' => seen'[b] = DevOf[b]
      BY <1>5, <1>6 DEF IInv, FlagInv
    <2>3. ASSUME NEW s \in Scope, Alone(s)' PROVE ScopeInv(s)'
      <3>1. Alone(s) /\ (s # ScopeOf(a) => ScopeInv(s)')
        BY <1>1, <1>3, <1>5, <2>3, OtherScopes DEF TypeOK
      <3>2. CASE s = ScopeOf(a)
        <4>1. ScopeInv(s)
          BY <3>1 DEF IInv, FlagInv
        <4>2. saved[a] = FALSE /\ seen[a] = DevOf[a]
          BY <1>5, <3>2, <4>1 DEF ScopeInv
        <4>3. ASSUME NEW b \in Actor \ {a}, Used(b), ScopeOf(b) = s PROVE ~Inside(b)
          <5>1. a # b /\ OneLoop(a, b)
            BY <1>5, <3>1, <3>2, <4>3, Zenon DEF Alone
          <5>. QED  BY <1>5, <5>1, Zenon DEF IInv, FlagInv
        <4>4. \A b \in Actor \ {a} : Used(b)' /\ ScopeOf(b)' = s =>
                seen'[b] = DevOf[b] /\ ~Inside(b)'
          BY <1>5, <1>6, <1>7, <4>1, <4>3, Zenon DEF ScopeInv
        <4>5. dev'[s] = FALSE /\ seen'[a] = DevOf[a]
          BY <1>5, <3>2, <4>2
        <4>. QED  BY <1>5, <4>4, <4>5, Zenon DEF ScopeInv
      <3>. QED  BY <3>1, <3>2
    <2>. QED  BY <2>1, <2>2, <2>3 DEF FlagInv
  <1>. QED  BY <1>1, <1>3, <1>4, <1>8, SlowFrame DEF IInv

-----------------------------------------------------------------------------
\* What the steps of workers leave alone.
LEMMA WorkFrame ==
  ASSUME IInv, UNCHANGED <<setting, events, pc, flags>>, NEW w \in Worker,
         \A v \in Worker \ {w} : wpc'[v] = wpc[v],
         wpc[w] # "idle" \/ pc[OwnerOf[w]] = "run"
  PROVE  RegInv' /\ FlagInv'
  <1>1. OwnerOf[w] \in Request
    BY RequestAssumption
  <1>2. registered
    BY <1>1 DEF IInv, RegInv
  <1>3. RegInv'
    BY <1>2 DEF IInv, RegInv, events
  <1>4. \A a \in Actor : (Inside(a)' <=> Inside(a)) /\ (Used(a) => Used(a)')
    BY DEF Inside, Used
  <1>. QED  BY <1>3, <1>4, FlagFrame

\* Recording: the one listener counts one statement, and the time read for
\* the maximum is that of the moment.
LEMMA RecordStep ==
  ASSUME IInv, NEW w \in Worker, NEW to \in {"record", "record_error"}, NEW time \in Times,
         wpc[w] \in {"execute", "fetch"}, Record(w, to, time),
         \/ /\ finished' = [finished EXCEPT ![OwnerOf[w]] = @ + 1] /\ UNCHANGED doubled
         \/ /\ doubled' = [doubled EXCEPT ![OwnerOf[w]] = TRUE] /\ UNCHANGED finished
  PROVE  IInv'
  <1>. DEFINE r == OwnerOf[w]
  <1>1. r \in Request
    BY RequestAssumption
  <1>2. listeners = 1
    BY DEF IInv, RegInv
  <1>3. TypeOK'
    <2>1. slowest[r] \in Times /\ count[r] + listeners \in Nat /\ finished[r] + 1 \in Nat
      BY <1>1, <1>2 DEF IInv, TypeOK
    <2>2. /\ wpc' \in [Worker -> {"idle", "execute", "record", "record_error", "fetch"}]
          /\ old' \in [Worker -> Times] /\ elapsed' \in [Worker -> Times]
      BY <2>1 DEF IInv, TypeOK, Record
    <2>3. /\ count' \in [Request -> Nat] /\ longest' \in [Request -> Times]
          /\ finished' \in [Request -> Nat] /\ doubled' \in [Request -> BOOLEAN]
          /\ raced' \in [Request -> BOOLEAN]
      BY <1>1, <2>1 DEF IInv, TypeOK, Record
    <2>. QED
      BY <2>2, <2>3 DEF IInv, TypeOK, Record, setting, events, flags
  <1>4. CountedOnce'
    <2>1. /\ count' = [count EXCEPT ![r] = @ + 1]
          /\ count \in [Request -> Nat] /\ finished \in [Request -> Nat]
          /\ doubled \in [Request -> BOOLEAN]
      BY <1>2 DEF IInv, TypeOK, Record
    <2>. QED  BY <1>1, <2>1 DEF IInv, CountedOnce
  <1>5. RegInv' /\ FlagInv'
    <2>1. /\ UNCHANGED <<setting, events, pc, flags>>
          /\ \A v \in Worker \ {w} : wpc'[v] = wpc[v]
      BY DEF Record, IInv, TypeOK
    <2>. QED  BY <2>1, WorkFrame
  <1>6. /\ UNCHANGED slowest
        /\ \A q \in Request : slowest[q] \in Nat /\ longest[q] \in Nat /\ longest'[q] \in Nat
        /\ \A q \in Request : longest[q] <= longest'[q] /\ (q # r => longest'[q] = longest[q])
        /\ longest'[r] = (IF time > longest[r] THEN time ELSE longest[r]) /\ time \in Nat
    BY <1>1, <1>3 DEF Record, IInv, TypeOK, Times
  <1>7. /\ ~Recording(w) /\ Recording(w)'
        /\ Greater(w)' = (IF time > slowest[r] THEN time ELSE slowest[r])
    BY DEF Record, Recording, Greater, IInv, TypeOK
  <1>8. \A v \in Worker \ {w} :
          /\ (Recording(v)' <=> Recording(v)) /\ Greater(v)' = Greater(v)
          /\ Greater(v) \in Nat
    BY DEF Record, Recording, Greater, IInv, TypeOK, Times
  <1>9. SlowInv'
    <2>. SUFFICES ASSUME NEW q \in Request PROVE SlowOf(q)'
      BY DEF SlowInv
    <2>0. SlowOf(q)
      BY DEF IInv, SlowInv
    <2>1. slowest'[q] <= longest'[q]
      BY <1>6, <2>0 DEF SlowOf
    <2>2. ASSUME NEW v \in Worker, OwnerOf[v] = q, Recording(v)'
          PROVE  Greater(v)' <= longest'[q]
      <3>1. CASE v = w
        BY <1>1, <1>6, <1>7, <2>0, <2>2, <3>1 DEF SlowOf
      <3>2. CASE v # w
        BY <1>6, <1>8, <2>0, <2>2, <3>2 DEF SlowOf
      <3>. QED  BY <3>1, <3>2
    <2>3. ASSUME ~raced'[q], q # r PROVE SoleOf(q)'
      <3>1. ~raced[q]
        BY <1>1, <2>3 DEF Record, IInv, TypeOK
      <3>2. \A v \in Worker : OwnerOf[v] = q => v # w
        BY <2>3
      <3>3. slowest'[q] = slowest[q] /\ longest'[q] = longest[q]
        BY <1>6, <2>3
      <3>. QED  BY <1>8, <2>0, <3>1, <3>2, <3>3, Zenon DEF SlowOf, SoleOf
    <2>4. ASSUME ~raced'[q], q = r PROVE SoleOf(q)'
      <3>1. ~raced[r] /\ Others(w) = {}
        BY <1>1, <2>4 DEF Record, IInv, TypeOK
      <3>2. \A v \in Worker \ {w} : OwnerOf[v] = r => ~Recording(v)
        BY <3>1 DEF Others, Recording
      <3>3. \A v \in Worker : OwnerOf[v] = r => ~Recording(v)
        BY <1>7, <3>2
      <3>4. slowest[r] = longest[r]
        BY <2>0, <2>4, <3>1, <3>3 DEF SlowOf, SoleOf
      <3>5. Greater(w)' = longest'[r]
        BY <1>6, <1>7, <3>4
      <3>6. \A v \in Worker : OwnerOf[v] = r /\ Recording(v)' => v = w
        BY <1>8, <3>2, Zenon
      <3>. QED  BY <1>7, <2>4, <3>5, <3>6, Zenon DEF SoleOf
    <2>. QED  BY <2>1, <2>2, <2>3, <2>4 DEF SlowOf
  <1>. QED  BY <1>3, <1>4, <1>5, <1>9 DEF IInv

\* Storing: the worker stores the greater of what it has read and its time.
LEMMA StoreStep ==
  ASSUME IInv, NEW w \in Worker, Store(w)
  PROVE  IInv'
  <1>. DEFINE r == OwnerOf[w]
  <1>1. r \in Request
    BY RequestAssumption
  <1>2. /\ UNCHANGED <<setting, events, pc, flags, todo, count, history>>
        /\ slowest' = [slowest EXCEPT ![r] = Greater(w)]
        /\ Recording(w)
        /\ \E to \in {"fetch", "idle"} : wpc' = [wpc EXCEPT ![w] = to]
        /\ old' = [old EXCEPT ![w] = 0]
        /\ elapsed' = elapsed \/ elapsed' = [elapsed EXCEPT ![w] = 0]
    BY DEF Store, Recorded, WGoto, Recording, Greater
  <1>3. 0 \in Times /\ Greater(w) \in Times
    BY RequestAssumption DEF Greater, IInv, TypeOK, Times
  <1>4. TypeOK'
    <2>1. /\ wpc' \in [Worker -> {"idle", "execute", "record", "record_error", "fetch"}]
          /\ old' \in [Worker -> Times] /\ elapsed' \in [Worker -> Times]
          /\ slowest' \in [Request -> Times]
      BY <1>2, <1>3 DEF IInv, TypeOK
    <2>. QED  BY <1>2, <2>1 DEF IInv, TypeOK, setting, events, flags, history
  <1>5. CountedOnce'
    BY <1>2 DEF IInv, CountedOnce, history
  <1>6. ~Recording(w)' /\ slowest'[r] = Greater(w)
    BY <1>1, <1>2 DEF Recording, IInv, TypeOK
  <1>7. /\ \A v \in Worker \ {w} :
             /\ wpc'[v] = wpc[v] /\ (Recording(v)' <=> Recording(v)) /\ Greater(v)' = Greater(v)
        /\ \A q \in Request : q # r => slowest'[q] = slowest[q]
        /\ UNCHANGED <<longest, raced>>
    BY <1>2 DEF Recording, Greater, IInv, TypeOK, history
  <1>8. RegInv' /\ FlagInv'
    <2>1. wpc[w] # "idle"
      BY <1>2 DEF Recording
    <2>. QED  BY <1>2, <1>7, <2>1, WorkFrame
  <1>9. SlowInv'
    <2>. SUFFICES ASSUME NEW q \in Request PROVE SlowOf(q)'
      BY DEF SlowInv
    <2>0. SlowOf(q)
      BY DEF IInv, SlowInv
    <2>1. slowest'[q] <= longest'[q]
      BY <1>2, <1>6, <1>7, <2>0 DEF SlowOf
    <2>2. \A v \in Worker : OwnerOf[v] = q /\ Recording(v)' => Greater(v)' <= longest'[q]
      BY <1>6, <1>7, <2>0, Zenon DEF SlowOf
    <2>3. ASSUME ~raced'[q] PROVE SoleOf(q)'
      <3>1. SoleOf(q)
        BY <1>7, <2>0, <2>3 DEF SlowOf
      <3>2. CASE q = r
        <4>1. \A v \in Worker : OwnerOf[v] = q => ~Recording(v)'
          BY <1>2, <1>6, <1>7, <3>1, <3>2, Zenon DEF SoleOf
        <4>2. slowest'[q] = longest'[q]
          BY <1>2, <1>6, <1>7, <3>1, <3>2, Zenon DEF SoleOf
        <4>. QED  BY <4>1, <4>2, Zenon DEF SoleOf
      <3>3. CASE q # r
        <4>1. \A v \in Worker : OwnerOf[v] = q => v # w
          BY <3>3
        <4>. QED  BY <1>7, <3>1, <3>3, <4>1, Zenon DEF SoleOf
      <3>. QED  BY <3>2, <3>3
    <2>. QED  BY <2>1, <2>2, <2>3 DEF SlowOf
  <1>. QED  BY <1>4, <1>5, <1>8, <1>9 DEF IInv

\* A worker that begins a statement, or has fetched all its rows, records
\* nothing.
LEMMA QuietStep ==
  ASSUME IInv, NEW w \in Worker,
         UNCHANGED <<setting, events, pc, flags, old, stats, history>>,
         \/ wpc[w] = "idle" /\ pc[OwnerOf[w]] = "run" /\ wpc' = [wpc EXCEPT ![w] = "execute"]
         \/ wpc[w] = "fetch" /\ wpc' = [wpc EXCEPT ![w] = "idle"],
         todo' = todo \/ (todo[w] > 0 /\ todo' = [todo EXCEPT ![w] = @ - 1]),
         elapsed' = elapsed \/ elapsed' = [elapsed EXCEPT ![w] = 0]
  PROVE  IInv'
  <1>1. 0 \in Times
    BY RequestAssumption DEF Times
  <1>2. TypeOK'
    <2>1. /\ wpc' \in [Worker -> {"idle", "execute", "record", "record_error", "fetch"}]
          /\ elapsed' \in [Worker -> Times]
      BY <1>1 DEF IInv, TypeOK
    <2>2. todo' \in [Worker -> 0..Statements]
      BY RequestAssumption DEF IInv, TypeOK
    <2>. QED
      BY <2>1, <2>2 DEF IInv, TypeOK, setting, events, flags, stats, history
  <1>3. CountedOnce'
    BY DEF IInv, CountedOnce, stats, history
  <1>4. RegInv' /\ FlagInv'
    <2>1. \A v \in Worker \ {w} : wpc'[v] = wpc[v]
      BY DEF IInv, TypeOK
    <2>. QED  BY <2>1, WorkFrame
  <1>5. \A v \in Worker : /\ Recording(v)' <=> Recording(v)
                          /\ Recording(v) => Greater(v)' = Greater(v)
    BY DEF Recording, Greater, IInv, TypeOK
  <1>6. SlowInv'
    <2>1. UNCHANGED <<slowest, longest, raced>>
      BY DEF stats, history
    <2>. SUFFICES ASSUME NEW q \in Request PROVE SlowOf(q)'
      BY DEF SlowInv
    <2>2. SlowOf(q)
      BY DEF IInv, SlowInv
    <2>3. SoleOf(q) => SoleOf(q)'
      BY <1>5, <2>1, Zenon DEF SoleOf
    <2>. QED  BY <1>5, <2>1, <2>2, <2>3, Zenon DEF SlowOf
  <1>. QED  BY <1>2, <1>3, <1>4, <1>6 DEF IInv

LEMMA WorkStep ==
  ASSUME IInv, NEW w \in Worker, Begin(w) \/ Execute(w) \/ Store(w) \/ Fetch(w)
  PROVE  IInv'
  <1>1. CASE Begin(w)
    BY <1>1, QuietStep DEF Begin, WGoto
  <1>2. CASE Execute(w)
    <2>1. PICK to \in {"record", "record_error"}, time \in Times : Record(w, to, time)
      BY <1>2 DEF Execute
    <2>. QED  BY <1>2, <2>1, RecordStep DEF Execute
  <1>3. CASE Store(w)
    BY <1>3, StoreStep
  <1>4. CASE /\ WGoto(w, "fetch", "idle")
             /\ elapsed' = [elapsed EXCEPT ![w] = 0]
             /\ UNCHANGED <<setting, events, pc, flags, todo, old, stats, history>>
    BY <1>4, QuietStep DEF WGoto
  <1>5. CASE \E time \in elapsed[w]..MaxTime :
               /\ wpc[w] = "fetch" /\ Record(w, "record_error", time) /\ UNCHANGED finished
               /\ doubled' = [doubled EXCEPT ![OwnerOf[w]] = TRUE]
    <2>1. elapsed[w]..MaxTime \subseteq Times
      BY RequestAssumption DEF IInv, TypeOK, Times
    <2>. QED  BY <1>5, <2>1, RecordStep
  <1>. QED  BY <1>1, <1>2, <1>3, <1>4, <1>5 DEF Fetch

-----------------------------------------------------------------------------
\* Every step keeps the invariant.
LEMMA NextInv == IInv /\ [Next]_vars => IInv'
  <1>. SUFFICES ASSUME IInv, [Next]_vars PROVE IInv'
    OBVIOUS
  <1>1. CASE UNCHANGED vars
    <2>1. UNCHANGED <<setting, events, pc, flags, work, stats, history>>
      BY <1>1 DEF vars
    <2>2. TypeOK' /\ RegInv'
      BY <2>1 DEF IInv, TypeOK, RegInv, setting, events, flags, work, stats, history
    <2>3. \A a \in Actor : (Inside(a)' <=> Inside(a)) /\ (Used(a) => Used(a)')
      BY <2>1 DEF Inside, Used
    <2>. QED  BY <2>1, <2>2, <2>3, FlagFrame, SlowFrame DEF IInv
  <1>2. Request \subseteq Actor /\ Migration \subseteq Actor
    BY DEF Actor
  <1>. QED
    BY <1>1, <1>2, RegisterStep, PassStep, EnterStep, UseStep, RestoreStep, WorkStep DEF Next

\* The inductive invariant holds of every reachable state.
THEOREM Invariance == Spec => []IInv
  BY InitInv, NextInv, PTL DEF Spec

-----------------------------------------------------------------------------
\* The variables keep their types: listeners are registered once at most.
THEOREM TypeCorrectness == Spec => []TypeOK
  <1>1. IInv => TypeOK  BY DEF IInv
  <1>. QED  BY <1>1, Invariance, PTL

\* However many loops and requests register at the same time, a statement is
\* counted once, but for those whose rows failed to arrive.
THEOREM StatementsCountOnce == Spec => []CountedOnce
  <1>1. IInv => CountedOnce  BY DEF IInv
  <1>. QED  BY <1>1, Invariance, PTL

\* Without a race of its own workers a request reports its slowest statement.
THEOREM SlowestIsRight == Spec => []SlowestIsLongest
  <1>1. IInv => SlowestIsLongest
    <2>. SUFFICES ASSUME IInv, NEW r \in Request
                  PROVE  /\ slowest[r] <= longest[r]
                         /\ \/ raced[r]
                            \/ \E w \in Worker : OwnerOf[w] = r /\ Recording(w)
                            \/ slowest[r] = longest[r]
      BY DEF SlowestIsLongest, Recording
    <2>. QED  BY DEF IInv, SlowInv, SlowOf, SoleOf
  <1>. QED  BY <1>1, Invariance, PTL

\* Actors that share a scope with nobody but coroutines of their loop work
\* under the flags they asked for, and leave what they found.
THEOREM FlagsAreKept == Spec => []FlagsKept
  <1>1. IInv => FlagsKept
    <2>. SUFFICES ASSUME IInv, NEW s \in Scope,
                         \A a, b \in Users(s) : a = b \/ OneLoop(a, b)
                  PROVE  /\ \A a \in Users(s) : seen[a] = DevOf[a]
                         /\ \/ \E a \in Users(s) : Inside(a)
                            \/ dev[s] = FALSE
      BY DEF FlagsKept, Inside
    <2>1. Users(s) = {a \in Actor : ScopeOf(a) = s /\ Used(a)}
      BY DEF Users, Used, Inside
    <2>2. Alone(s)
      BY <2>1 DEF Alone
    <2>3. ScopeInv(s)
      BY <2>2 DEF IInv, FlagInv
    <2>4. \A a \in Actor : Inside(a) => Used(a)
      BY DEF Used
    <2>. QED  BY <2>1, <2>3, <2>4, Zenon DEF ScopeInv
  <1>. QED  BY <1>1, Invariance, PTL

-----------------------------------------------------------------------------
\* A resolver that asks both sources misses a tenant only if neither names
\* one, and never answers with an empty value, unlike those that ask one.
THEOREM BothSourcesCount ==
  ASSUME NEW precedence \in {"header", "host"}, NEW header \in Said, NEW host \in Said
  PROVE  /\ TenantOf("both", precedence, header, host) # Empty
         /\ TenantOf("both", precedence, header, host) = None <=>
              header \notin Name /\ Mapped(host) \notin Name
  <1>1. Empty \notin Name /\ None \notin Name /\ Empty # None
    BY RequestAssumption
  <1>. QED  BY <1>1 DEF TenantOf

=============================================================================
