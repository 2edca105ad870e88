---------------------------- MODULE ServiceProofs ----------------------------
(***************************************************************************)
(* What routes and gauges may say of pending migrations, for every number  *)
(* of databases and of migration files.                                    *)
(***************************************************************************)
EXTENDS Service, FiniteSetTheorems, TLAPS

\* Which jobs are at which stage, and that nothing is left to visit when a
\* response is made.
StageInv ==
  /\ at # "respond" => code = 0
  /\ at \in {"applied", "select"} => path = "status"
  /\ at \in {"next", "pending", "lock"} => Checking \/ path = "status"
  /\ at = "migrate" => path = "migrate"
  /\ at \in {"refresh", "set"} => path \in {"metrics", "task"}
  /\ at \in {"idle", "respond"} => left = {}

OkInv == \A d \in Db : found[d] = "ok" => pending[d] = 0

\* What has been counted was pending then, and may have been applied since.
CountInv == at \in {"applied", "lock", "select", "set"} => n >= pending[db]

\* A readiness check leaves no database out.
ReadyInv ==
  path = "readiness" /\ at \in {"next", "pending", "lock"} =>
    \A d \in Db : d \in left \/ (at # "next" /\ d = db) \/ found[d] # "none"

\* 200 from readiness comes with "ok" for every database.
VouchInv ==
  path = "readiness" /\ code = 200 => \A d \in Db : found[d] = "ok"

\* The targets that migrate_cmd has left behind it are migrated.
TargetInv ==
  path = "migrate" /\ body.limit = "none" /\ (at = "migrate" \/ code = 200) =>
    \A d \in MigrateTargets(body) : d \in left \/ pending[d] = 0

\* What a refresh is about to set is no more than what the gauge shows.
SetInv == at = "set" /\ gauge[db] # Unset => n <= gauge[db]

\* Whoever refreshes has found that the interval is over.
StaleInv == at \in {"refresh", "set"} => age = Interval

IInv ==
  /\ TypeOK
  /\ StageInv
  /\ OkInv
  /\ CountInv
  /\ ReadyInv
  /\ VouchInv
  /\ TargetInv
  /\ GaugeNeverOptimistic
  /\ SetInv
  /\ StaleInv
  /\ StatusCountsAll

-----------------------------------------------------------------------------
\* The targets of a migration are configured.
LEMMA TargetsAreConfigured ==
  ASSUME NEW b PROVE MigrateTargets(b) \subseteq Db
  BY ServiceAssumption DEF MigrateTargets, Named

\* Different versions have different rows: a set of versions with a row each
\* is no larger than the table.
LEMMA RowsBound ==
  ASSUME NEW R, IsFiniteSet(R), NEW V, \A v \in V : \E r \in R : r[1] = v
  PROVE  Cardinality(V) <= Cardinality(R)
  <1>. DEFINE f == [v \in V |-> CHOOSE r \in R : r[1] = v]
  <1>1. \A v \in V : f[v] \in R /\ f[v][1] = v
    OBVIOUS
  <1>2. f \in Injection(V, R)
    BY <1>1 DEF Injection, IsInjective
  <1>. HIDE DEF f
  <1>. QED  BY <1>2, FS_Injection

\* What the two counts of the status route are at one instant: a file whose
\* version has no row is pending, and every other one has a row.
LEMMA CountsCover ==
  ASSUME TypeOK, NEW d \in Db
  PROVE  /\ pending[d] \in Nat
         /\ Cardinality(rows[d]) \in Nat
         /\ Cardinality(Files[d]) \in Nat
         /\ Cardinality(Files[d]) <= pending[d] + Cardinality(rows[d])
  <1>. DEFINE P == {v \in Files[d] : Copies(d, v) = {}}
              A == {v \in Files[d] : Copies(d, v) # {}}
  <1>1. IsFiniteSet(Files[d]) /\ IsFiniteSet(P) /\ IsFiniteSet(A)
    <2>1. IsFiniteSet(Files[d])
      BY ServiceAssumption, FS_Subset
    <2>2. P \in SUBSET Files[d] /\ A \in SUBSET Files[d]
      OBVIOUS
    <2>. HIDE DEF P, A
    <2>. QED  BY <2>1, <2>2, FS_Subset
  <1>2. pending[d] = Cardinality(P)
    BY DEF pending
  <1>3. P \cup A = Files[d] /\ P \cap A = {}
    OBVIOUS
  <1>4. IsFiniteSet(rows[d])
    BY DEF TypeOK
  <1>5. \A v \in A : \E r \in rows[d] : r[1] = v
    BY DEF Copies
  <1>. HIDE DEF P, A
  <1>6. Cardinality(A) <= Cardinality(rows[d])
    BY <1>4, <1>5, RowsBound
  <1>7. Cardinality(Files[d]) = Cardinality(P) + Cardinality(A) - Cardinality({})
    BY <1>1, <1>3, FS_Union
  <1>8. Cardinality({}) = 0
    BY FS_EmptySet
  <1>9. /\ Cardinality(P) \in Nat /\ Cardinality(A) \in Nat
        /\ Cardinality(rows[d]) \in Nat /\ Cardinality(Files[d]) \in Nat
    BY <1>1, <1>4, FS_CardinalityType
  <1>. QED  BY <1>2, <1>6, <1>7, <1>8, <1>9

\* The numbers of pending files; they change only with the rows.
LEMMA PendingType ==
  ASSUME TypeOK
  PROVE  /\ pending \in [Db -> Nat]
         /\ UNCHANGED rows => UNCHANGED pending
  <1>1. pending \in [Db -> Nat]
    BY CountsCover DEF pending
  <1>2. UNCHANGED rows => UNCHANGED pending
    BY DEF pending, Copies
  <1>. QED  BY <1>1, <1>2

\* Init establishes the invariant: nothing is said yet.
LEMMA InitInv == Init => IInv
  <1>. SUFFICES ASSUME Init PROVE IInv
    OBVIOUS
  <1>1. rows \in [Db -> SUBSET (Version \X Nat)] /\ \A d \in Db : IsFiniteSet(rows[d])
    <2>1. ASSUME NEW d \in Db
          PROVE  rows[d] \in SUBSET (Version \X Nat) /\ IsFiniteSet(rows[d])
      <3>1. PICK applied \in SUBSET Version : rows[d] = applied \X {0}
        BY DEF Init
      <3>2. IsFiniteSet(applied) /\ IsFiniteSet({0})
        BY ServiceAssumption, FS_Subset, FS_Singleton
      <3>. QED  BY <3>1, <3>2, FS_Product
    <2>2. rows = [d \in Db |-> rows[d]]
      BY DEF Init
    <2>. QED  BY <2>1, <2>2
  <1>2. TypeOK
    BY <1>1, ServiceAssumption DEF Init, TypeOK, NothingFound, NoBody, Body, Path, Stage, Unset
  <1>. QED
    BY <1>2 DEF Init, IInv, StageInv, OkInv, CountInv, ReadyInv, VouchInv, TargetInv,
         GaugeNeverOptimistic, SetInv, StaleInv, StatusCountsAll, NothingFound

\* A job that begins has found nothing yet and has every target before it.
LEMMA ReceiveStep ==
  ASSUME IInv, NEW p \in {"health", "readiness", "one", "status", "migrate"},
         NEW b \in Body, NEW key \in Key, NEW targets \in SUBSET Db, NEW entry,
         entry = (IF p = "migrate" THEN "migrate" ELSE "next"),
         p = "readiness" => targets = Db,
         p = "migrate" => targets = MigrateTargets(b),
         Receive(p, b, key, targets, entry)
  PROVE  IInv'
  <1>1. Refusal(key) \in {0, 401, 403}
    BY DEF Refusal, Key
  <1>2. TypeOK'
    BY <1>1 DEF IInv, TypeOK, Receive, Path, Stage, databases, visit, gauges
  <1>3. UNCHANGED <<up, rows, pending, db, n, m, found, gauge>> /\ at = "idle"
    BY PendingType DEF IInv, Receive, databases, visit, gauges
  <1>4. \/ at' = entry /\ path' = p /\ body' = b /\ left' = targets /\ code' = code
        \/ at' = "respond" /\ path' = p /\ code' \in {401, 403, 404} /\ left' = left
    BY <1>1 DEF Receive
  <1>. QED
    BY <1>2, <1>3, <1>4 DEF IInv, StageInv, OkInv, CountInv, ReadyInv, VouchInv, TargetInv,
         GaugeNeverOptimistic, SetInv, StaleInv, StatusCountsAll, Checking, MigrateTargets

LEMMA RequestStep ==
  ASSUME IInv, HealthRequest \/ StatusRequest \/ MigrateRequest
  PROVE  IInv'
  <1>1. NoBody \in Body
    BY DEF NoBody, Body
  <1>2. CASE HealthRequest
    <2>1. PICK key \in Key :
            \/ Receive("health", NoBody, key, Db, "next")
            \/ Receive("readiness", NoBody, key, Db, "next")
            \/ \E name \in Db \cup {Unknown} :
                 Receive("one", NoBody, key, Named(name), "next")
      BY <1>2 DEF HealthRequest
    <2>2. \A name : Named(name) \in SUBSET Db
      BY DEF Named
    <2>. QED  BY <1>1, <2>1, <2>2, ReceiveStep
  <1>3. CASE StatusRequest
    BY <1>1, <1>3, ReceiveStep DEF StatusRequest
  <1>4. CASE MigrateRequest
    <2>1. PICK key \in Key, b \in Body :
            Receive("migrate", b, key, MigrateTargets(b), "migrate")
      BY <1>4 DEF MigrateRequest
    <2>. QED  BY <2>1, TargetsAreConfigured, ReceiveStep
  <1>. QED  BY <1>2, <1>3, <1>4

\* The reads of health and status: a count is an upper bound of what is
\* pending from then on, and what is called "ok" was counted as 0.
LEMMA CheckStep ==
  ASSUME IInv,
         \/ \E d \in Db : Connect(d) \/ StatusOf(d)
         \/ CountPending \/ CountApplied \/ CheckLock \/ Select
  PROVE  IInv'
  <1>0. pending \in [Db -> Nat] /\ (UNCHANGED rows => UNCHANGED pending)
    BY PendingType DEF IInv
  <1>. USE DEF Goto, StatusOrder, IInv, TypeOK, StageInv, OkInv, CountInv, ReadyInv, VouchInv,
               TargetInv, GaugeNeverOptimistic, SetInv, StaleInv, StatusCountsAll, Checking,
               databases, request, gauges, visit, Stage
  <1>1. ASSUME NEW d \in Db, Connect(d) PROVE IInv'
    BY <1>0, <1>1 DEF Connect
  <1>2. ASSUME NEW d \in Db, StatusOf(d) PROVE IInv'
    BY <1>0, <1>2 DEF StatusOf
  <1>3. CASE CountPending
    BY <1>0, <1>3, ServiceAssumption DEF CountPending, Raise, Respond, ForgetVisit
  <1>4. CASE CountApplied
    <2>1. db \in Db
      OBVIOUS
    <2>2. CASE db \in up
      <3>1. /\ m' = Cardinality(rows[db]) /\ m' \in Nat
            /\ Cardinality(Files[db]) <= pending[db] + m'
            /\ Cardinality(Files[db]) \in Nat
        BY <1>4, <2>1, <2>2, CountsCover DEF CountApplied
      <3>. QED  BY <1>0, <1>4, <2>1, <3>1 DEF CountApplied
    <2>3. CASE db \notin up
      BY <1>0, <1>4, <2>1, <2>3 DEF CountApplied
    <2>. QED  BY <2>2, <2>3
  <1>5. CASE CheckLock
    BY <1>0, <1>5, ServiceAssumption DEF CheckLock, Raise, Respond, ForgetVisit, Verdict
  <1>6. CASE Select
    BY <1>0, <1>6, ServiceAssumption DEF Select, SeedsPending, ForgetVisit, Verdict
  <1>. QED  BY <1>1, <1>2, <1>3, <1>4, <1>5, <1>6

\* A response is made when every database has been visited; then it is sent.
LEMMA ReplyStep ==
  ASSUME IInv, Reply \/ Sent
  PROVE  IInv'
  <1>0. pending \in [Db -> Nat] /\ (UNCHANGED rows => UNCHANGED pending)
    BY PendingType DEF IInv
  <1>. USE DEF Goto, IInv, TypeOK, StageInv, OkInv, CountInv, ReadyInv, VouchInv,
               TargetInv, GaugeNeverOptimistic, SetInv, StaleInv, StatusCountsAll, Checking,
               databases, request, gauges, visit, Stage, Respond, ForgetVisit, MigrateTargets
  <1>1. CASE Reply
    <2>1. path = "readiness" /\ Code = 200 => \A d \in Db : found[d] = "ok"
      BY <1>0, <1>1 DEF Reply, Code, Aggregate
    <2>2. Code \in {200, 503}
      BY DEF Code
    <2>3. TypeOK' /\ StageInv' /\ OkInv' /\ CountInv' /\ ReadyInv' /\ TargetInv'
      BY <1>0, <1>1, <2>2, ServiceAssumption DEF Reply
    <2>4. VouchInv' /\ GaugeNeverOptimistic' /\ SetInv' /\ StaleInv' /\ StatusCountsAll'
      BY <1>0, <1>1, <2>1 DEF Reply
    <2>. QED  BY <2>3, <2>4
  <1>2. CASE Sent
    BY <1>0, <1>2 DEF Sent, NothingFound, NoBody, Body, Path
  <1>. QED  BY <1>1, <1>2

\* A row more leaves no more files pending.
LEMMA ApplyLeavesNoMore ==
  ASSUME TypeOK, NEW d \in Db, Apply(d)
  PROVE  /\ rows' \in [Db -> SUBSET (Version \X Nat)]
         /\ \A x \in Db : IsFiniteSet(rows'[x])
         /\ pending' \in [Db -> Nat]
         /\ \A x \in Db : pending'[x] <= pending[x]
  <1>1. PICK v \in Files[d] :
          rows' = [rows EXCEPT ![d] = @ \cup {<<v, Cardinality(Copies(d, v))>>}]
    BY DEF Apply
  <1>. DEFINE row == <<v, Cardinality(Copies(d, v))>>
  <1>2. row \in Version \X Nat
    <2>1. Copies(d, v) \in SUBSET rows[d] /\ IsFiniteSet(rows[d])
      BY DEF Copies, TypeOK
    <2>2. IsFiniteSet(Copies(d, v))
      BY <2>1, FS_Subset
    <2>. QED  BY <1>1, <2>2, FS_CardinalityType, ServiceAssumption
  <1>3. rows' \in [Db -> SUBSET (Version \X Nat)]
    BY <1>1, <1>2 DEF TypeOK
  <1>4. \A x \in Db : rows'[x] = IF x = d THEN rows[d] \cup {row} ELSE rows[x]
    BY <1>1 DEF TypeOK
  <1>5. \A x \in Db : IsFiniteSet(rows'[x])
    <2>1. IsFiniteSet(rows[d] \cup {row})
      <3>1. IsFiniteSet(rows[d])
        BY DEF TypeOK
      <3>. HIDE DEF row
      <3>. QED  BY <3>1, FS_AddElement
    <2>. QED  BY <1>4, <2>1 DEF TypeOK
  <1>6. ASSUME NEW x \in Db
        PROVE  pending'[x] \in Nat /\ pending'[x] <= pending[x]
    <2>. DEFINE P == {w \in Files[x] : Copies(x, w) = {}}
                Q == {w \in Files[x] : {r \in rows'[x] : r[1] = w} = {}}
    <2>1. pending[x] = Cardinality(P) /\ pending'[x] = Cardinality(Q)
      BY DEF pending, Copies
    <2>2. rows[x] \subseteq rows'[x]
      BY <1>4
    <2>3. Q \in SUBSET P /\ P \in SUBSET Files[x]
      BY <2>2 DEF Copies
    <2>4. IsFiniteSet(Files[x])
      BY ServiceAssumption, FS_Subset
    <2>. HIDE DEF P, Q
    <2>5. IsFiniteSet(P)
      BY <2>3, <2>4, FS_Subset
    <2>6. IsFiniteSet(Q) /\ Cardinality(Q) <= Cardinality(P)
      BY <2>3, <2>5, FS_Subset
    <2>. QED  BY <2>1, <2>6, FS_CardinalityType
  <1>7. pending' \in [Db -> Nat]
    BY <1>6 DEF pending
  <1>. QED  BY <1>3, <1>5, <1>6, <1>7

\* Applying a version leaves fewer pending: no count and no gauge becomes too
\* low by it.
LEMMA ApplyStep ==
  ASSUME IInv, NEW d \in Db, Apply(d),
         UNCHANGED <<request, at, left, visit, found, code, gauges>>
  PROVE  IInv'
  <1>1. /\ pending \in [Db -> Nat] /\ pending' \in [Db -> Nat]
        /\ \A x \in Db : pending'[x] <= pending[x]
        /\ rows' \in [Db -> SUBSET (Version \X Nat)]
        /\ \A x \in Db : IsFiniteSet(rows'[x])
        /\ UNCHANGED up
    BY ApplyLeavesNoMore, PendingType DEF IInv, Apply
  <1>. USE DEF Goto, IInv, TypeOK, StageInv, OkInv, CountInv, ReadyInv, VouchInv,
               TargetInv, GaugeNeverOptimistic, SetInv, StaleInv, StatusCountsAll, Checking,
               databases, request, gauges, visit, Stage, Respond, ForgetVisit, MigrateTargets
  <1>2. TypeOK' /\ StageInv' /\ ReadyInv' /\ VouchInv' /\ SetInv' /\ StaleInv'
    BY <1>1
  <1>3. OkInv' /\ CountInv' /\ GaugeNeverOptimistic' /\ StatusCountsAll'
    BY <1>1, ServiceAssumption DEF Unset
  <1>4. TargetInv'
    BY <1>1, TargetsAreConfigured
  <1>. QED  BY <1>2, <1>3, <1>4

\* Migrations of POST /migrate and of the thread, and databases that flip.
LEMMA MigrationStep ==
  ASSUME IInv,
         \/ \E d \in Db : \/ MigrateVersion(d) \/ MigrateNext(d)
                          \/ ThreadMigrates(d) \/ Flip(d)
         \/ MigrateEnds
  PROVE  IInv'
  <1>0. pending \in [Db -> Nat] /\ (UNCHANGED rows => UNCHANGED pending)
    BY PendingType DEF IInv
  <1>. USE DEF Goto, IInv, TypeOK, StageInv, OkInv, CountInv, ReadyInv, VouchInv,
               TargetInv, GaugeNeverOptimistic, SetInv, StaleInv, StatusCountsAll, Checking,
               databases, request, gauges, visit, Stage, Respond, ForgetVisit, MigrateTargets
  <1>1. ASSUME NEW d \in Db, MigrateVersion(d) \/ ThreadMigrates(d) PROVE IInv'
    BY <1>0, <1>1, ApplyStep DEF MigrateVersion, ThreadMigrates
  <1>2. ASSUME NEW d \in Db, MigrateNext(d) PROVE IInv'
    BY <1>0, <1>2 DEF MigrateNext
  <1>3. ASSUME NEW d \in Db, Flip(d) PROVE IInv'
    BY <1>0, <1>3 DEF Flip
  <1>4. CASE MigrateEnds
    BY <1>0, <1>4, ServiceAssumption DEF MigrateEnds
  <1>. QED  BY <1>1, <1>2, <1>3, <1>4

\* Scrapes, refreshes and time: a gauge is set to what has been counted.
LEMMA MetricsStep ==
  ASSUME IInv,
         \/ \E d \in Db : Refresh(d)
         \/ Scrape \/ Wake \/ SetGauge \/ Refreshed \/ Tick
  PROVE  IInv'
  <1>0. pending \in [Db -> Nat] /\ (UNCHANGED rows => UNCHANGED pending)
    BY PendingType DEF IInv
  <1>. USE DEF Goto, IInv, TypeOK, StageInv, OkInv, CountInv, ReadyInv, VouchInv,
               TargetInv, GaugeNeverOptimistic, SetInv, StaleInv, StatusCountsAll, Checking,
               databases, request, gauges, visit, Stage, Respond, ForgetVisit, MigrateTargets
  <1>1. ASSUME NEW d \in Db, Refresh(d) PROVE IInv'
    BY <1>0, <1>1 DEF Refresh
  <1>2. CASE Scrape
    BY <1>0, <1>2, ServiceAssumption DEF Scrape, Fresh, Path
  <1>3. CASE Wake
    BY <1>0, <1>3, ServiceAssumption DEF Wake, Fresh, Path
  <1>4. CASE SetGauge
    BY <1>0, <1>4, ServiceAssumption DEF SetGauge
  <1>5. CASE Refreshed
    BY <1>0, <1>5, ServiceAssumption DEF Refreshed
  <1>6. CASE Tick
    BY <1>0, <1>6, ServiceAssumption DEF Tick
  <1>. QED  BY <1>1, <1>2, <1>3, <1>4, <1>5, <1>6

\* Every step keeps the invariant.
LEMMA NextInv == IInv /\ [Next]_vars => IInv'
  <1>. SUFFICES ASSUME IInv, [Next]_vars PROVE IInv'
    OBVIOUS
  <1>0. UNCHANGED rows => UNCHANGED pending
    BY PendingType DEF IInv
  <1>1. CASE UNCHANGED vars
    BY <1>0, <1>1 DEF vars, databases, request, visit, gauges, IInv, TypeOK, StageInv, OkInv,
                CountInv, ReadyInv, VouchInv, TargetInv, GaugeNeverOptimistic, SetInv,
                StaleInv, StatusCountsAll, Checking, MigrateTargets
  <1>2. CASE Work
    BY <1>2, CheckStep, ReplyStep, MigrationStep, MetricsStep DEF Work
  <1>3. CASE Next /\ ~Work
    BY <1>3, RequestStep, MigrationStep, MetricsStep DEF Next
  <1>. QED  BY <1>1, <1>2, <1>3

\* Only a refresh writes gauges, and only its end begins a new interval.
LEMMA OthersKeepGauges ==
  ASSUME Next, ~SetGauge
  PROVE  gauge' = gauge /\ (~Refreshed => age' = age \/ Tick)
  <1>1. CASE HealthRequest \/ StatusRequest \/ MigrateRequest \/ Scrape \/ Wake
    BY <1>1 DEF HealthRequest, StatusRequest, MigrateRequest, Receive, Scrape, Wake, gauges
  <1>2. CASE Work
    BY <1>2 DEF Work, Connect, StatusOf, MigrateVersion, MigrateNext, Refresh, CountPending,
                CountApplied, CheckLock, Select, Reply, MigrateEnds, Refreshed, Sent, gauges
  <1>3. CASE Tick \/ \E d \in Db : ThreadMigrates(d) \/ Flip(d)
    BY <1>3 DEF Tick, ThreadMigrates, Flip, gauges
  <1>. QED  BY <1>1, <1>2, <1>3 DEF Next

\* The inductive invariant holds of every reachable state.
THEOREM Invariance == Spec => []IInv
  BY InitInv, NextInv, PTL DEF Spec

-----------------------------------------------------------------------------
\* The variables keep their types: jobs visit and set gauges of configured
\* databases only.
THEOREM TypeCorrectness == Spec => []TypeOK
  <1>1. IInv => TypeOK  BY DEF IInv
  <1>. QED  BY <1>1, Invariance, PTL

\* A database that a route calls "ok" is migrated, and 200 from readiness
\* means that all of them are.
THEOREM OkIsMigrated == Spec => []OkMeansMigrated
  <1>1. IInv => OkMeansMigrated
    BY DEF IInv, OkInv, VouchInv, OkMeansMigrated
  <1>. QED  BY <1>1, Invariance, PTL

\* A gauge shows at least what is pending.
THEOREM GaugesAreBounds == Spec => []GaugeNeverOptimistic
  <1>1. IInv => GaugeNeverOptimistic  BY DEF IInv
  <1>. QED  BY <1>1, Invariance, PTL

\* No step raises a gauge: a refresh that fails leaves it as it is.
THEOREM GaugesOnlyFall == Spec => GaugesNeverRise
  <1>1. IInv /\ [Next]_vars =>
          [\A d \in Db : gauge[d] # Unset => gauge'[d] \in 0..gauge[d]]_vars
    <2>. SUFFICES ASSUME IInv, Next, NEW d \in Db, gauge[d] # Unset
                  PROVE  gauge'[d] \in 0..gauge[d]
      OBVIOUS
    <2>1. gauge[d] \in Nat
      BY DEF IInv, TypeOK
    <2>2. CASE SetGauge
      BY <2>1, <2>2 DEF SetGauge, Goto, IInv, TypeOK, SetInv
    <2>3. CASE ~SetGauge
      <3>1. gauge' = gauge
        BY <2>3, OthersKeepGauges
      <3>. QED  BY <2>1, <3>1
    <2>. QED  BY <2>2, <2>3
  <1>. QED  BY <1>1, Invariance, PTL DEF Spec, GaugesNeverRise

\* The gauges are refreshed at most once in an interval, by whomever.
THEOREM RefreshesAreSpaced == Spec => OncePerInterval
  <1>1. IInv /\ [Next]_vars =>
          [gauge' # gauge \/ age' < age => age = Interval]_vars
    <2>. SUFFICES ASSUME IInv, Next, gauge' # gauge \/ age' < age
                  PROVE  age = Interval
      OBVIOUS
    <2>1. CASE SetGauge \/ Refreshed
      BY <2>1 DEF SetGauge, Refreshed, Goto, IInv, StaleInv
    <2>2. CASE ~SetGauge /\ ~Refreshed
      <3>1. gauge' = gauge /\ (age' = age \/ Tick)
        BY <2>2, OthersKeepGauges
      <3>2. ~(age' < age)
        BY <3>1, ServiceAssumption DEF Tick, IInv, TypeOK
      <3>. QED  BY <3>1, <3>2
    <2>. QED  BY <2>1, <2>2
  <1>. QED  BY <1>1, Invariance, PTL DEF Spec, OncePerInterval

\* The status route leaves no file out, whatever the thread applies between
\* its reads and whatever other rows a migrations table has.
THEOREM StatusIsComplete == Spec => []StatusCountsAll
  <1>1. IInv => StatusCountsAll  BY DEF IInv
  <1>. QED  BY <1>1, Invariance, PTL

\* A successful POST /migrate has migrated the databases it was asked for.
THEOREM SuccessIsMigrated == Spec => []SuccessMeansMigrated
  <1>1. IInv => SuccessMeansMigrated
    <2>. SUFFICES ASSUME IInv, path = "migrate", code = 200, body.limit = "none",
                         NEW d \in Db,
                         \/ d = body.database
                         \/ body.database = NoName /\ (body.router = "routes" \/ d = DefaultDb)
                  PROVE  pending[d] = 0
      BY DEF SuccessMeansMigrated
    <2>1. d \in MigrateTargets(body)
      BY ServiceAssumption DEF MigrateTargets, Named
    <2>2. d \notin left
      BY DEF IInv, StageInv
    <2>. QED  BY <2>1, <2>2 DEF IInv, TargetInv
  <1>. QED  BY <1>1, Invariance, PTL

=============================================================================
