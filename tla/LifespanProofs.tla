---------------------------- MODULE LifespanProofs ----------------------------
(***************************************************************************)
(* The shutdown order of dbwarden_lifespan and the guards of its           *)
(* migrations, for every set of databases and of keyword arguments.        *)
(***************************************************************************)
EXTENDS Lifespan, TLAPS

\* Init establishes the invariant.
LEMMA InitInv == Init => IInv
  BY DEF Init, IInv, TypeOK, WorkerInv, DisposeInv, BlockInv, AllowedInv, PC

\* The databases a call targets are configured.
LEMMA TargetsAreConfigured ==
  ASSUME TypeOK PROVE Targets \subseteq Db
  <1>1. opt.target \in {"default", "named", "all"}
    BY LifespanAssumption DEF TypeOK, AllOptions
  <1>. QED  BY <1>1, LifespanAssumption DEF Targets

\* Startup reaches the `yield` with nothing disposed, and its own migration
\* is over by then.
LEMMA StartupStep ==
  ASSUME IInv, Startup
  PROVE  IInv'
  <1>. USE DEF IInv, TypeOK, WorkerInv, DisposeInv, BlockInv, AllowedInv, Targets, Serve,
               Fail, Skipped, Blocked, config, data, tasks, ending, Goto, PC
  <1>1. CASE Call
    BY <1>1 DEF Call
  <1>2. CASE StartBackground
    BY <1>2 DEF StartBackground
  <1>3. CASE RefuseIfPending
    BY <1>3 DEF RefuseIfPending
  <1>4. CASE CheckSchema
    BY <1>4 DEF CheckSchema
  <1>5. CASE NoMigration
    BY <1>5 DEF NoMigration
  <1>6. CASE MigrateInline
    BY <1>6, TargetsAreConfigured DEF MigrateInline
  <1>7. CASE CheckReadiness
    BY <1>7 DEF CheckReadiness
  <1>8. CASE SeedOne
    BY <1>8 DEF SeedOne
  <1>9. CASE SeedFails
    BY <1>9 DEF SeedFails
  <1>10. CASE SeedsDone
    BY <1>10 DEF SeedsDone
  <1>11. CASE WarmUp
    BY <1>11 DEF WarmUp
  <1>12. CASE StartRefresher
    BY <1>12 DEF StartRefresher
  <1>13. CASE InstrumentationFails
    BY <1>13 DEF InstrumentationFails
  <1>. QED
    BY <1>1, <1>2, <1>3, <1>4, <1>5, <1>6, <1>7, <1>8, <1>9, <1>10, <1>11, <1>12,
       <1>13
       DEF Startup

\* A migration never takes back what it has done, and a thread is at work
\* only while its task is pending or was cancelled.
LEMMA MigrationStep ==
  ASSUME IInv, Migration
  PROVE  IInv'
  <1>. USE DEF IInv, TypeOK, WorkerInv, DisposeInv, BlockInv, AllowedInv, Targets, Serve,
               Fail, Skipped, Blocked, config, data, tasks, ending, PC
  <1>1. CASE MigrateOne
    BY <1>1 DEF MigrateOne
  <1>2. CASE MigrationFails
    BY <1>2 DEF MigrationFails
  <1>3. CASE MigrationEnds
    BY <1>3 DEF MigrationEnds
  <1>4. CASE StartThread
    BY <1>4, TargetsAreConfigured DEF StartThread, LoopFree
  <1>5. CASE TaskEnds
    BY <1>5 DEF TaskEnds, LoopFree
  <1>. QED  BY <1>1, <1>2, <1>3, <1>4, <1>5 DEF Migration

\* The `finally` clause reaches disposal only past its two waits.
LEMMA EndingStep ==
  ASSUME IInv, Shutdown \/ Ending \/ CancelJoin
  PROVE  IInv'
  <1>. USE DEF IInv, TypeOK, WorkerInv, DisposeInv, BlockInv, AllowedInv, Targets, Serve,
               Fail, Skipped, Blocked, config, data, tasks, ending, Goto, PC
  <1>1. CASE Shutdown
    BY <1>1 DEF Shutdown
  <1>2. CASE StopRefresher
    BY <1>2 DEF StopRefresher
  <1>3. CASE RefresherEnds
    BY <1>3 DEF RefresherEnds
  <1>4. CASE Join
    BY <1>4 DEF Join
  <1>5. CASE DisposeEngines
    BY <1>5 DEF DisposeEngines
  <1>6. CASE CancelJoin
    BY <1>6 DEF CancelJoin
  <1>. QED  BY <1>1, <1>2, <1>3, <1>4, <1>5, <1>6 DEF Ending

\* Every step keeps the invariant.
LEMMA NextInv == IInv /\ [Next]_vars => IInv'
  <1>. SUFFICES ASSUME IInv, [Next]_vars PROVE IInv'
    OBVIOUS
  <1>1. CASE UNCHANGED vars
    <2>1. TypeOK' /\ WorkerInv' /\ DisposeInv'
      BY <1>1 DEF vars, IInv, TypeOK, WorkerInv, DisposeInv
    <2>2. BlockInv'
      BY <1>1 DEF vars, IInv, BlockInv, Targets, Serve, Fail, Skipped
    <2>3. AllowedInv'
      BY <1>1 DEF vars, IInv, AllowedInv, Skipped, Blocked
    <2>. QED  BY <2>1, <2>2, <2>3 DEF IInv
  <1>2. ASSUME NEW d \in Db, Flip(d) PROVE IInv'
    BY <1>2 DEF Flip, IInv, TypeOK, WorkerInv, DisposeInv, BlockInv, AllowedInv, Targets,
                Serve, Fail, Skipped, Blocked, config, tasks, ending
  <1>. QED  BY <1>1, <1>2, StartupStep, MigrationStep, EndingStep DEF Next

\* The inductive invariant holds of every reachable state.
THEOREM Invariance == Spec => []IInv
  BY InitInv, NextInv, PTL DEF Spec

-----------------------------------------------------------------------------
\* The variables keep their types: databases are only ever migrated, seeded
\* or awaited by configured names.
THEOREM TypeCorrectness == Spec => []TypeOK
  <1>1. IInv => TypeOK  BY DEF IInv
  <1>. QED  BY <1>1, Invariance, PTL

\* dispose_engines never runs under a migration or a metrics refresh, for any
\* arguments and any failure or cancellation.
THEOREM DisposalComesLast == Spec => []EnginesOutliveTheirUsers
  <1>1. IInv => EnginesOutliveTheirUsers
    BY DEF IInv, TypeOK, WorkerInv, DisposeInv, EnginesOutliveTheirUsers
  <1>. QED  BY <1>1, Invariance, PTL

\* A blocking, failing-fast migration leaves nothing pending on any target.
THEOREM BlockMigratesAll == Spec => []BlockServesMigrated
  <1>1. IInv => BlockServesMigrated
    BY DEF IInv, BlockInv, BlockServesMigrated
  <1>. QED  BY <1>1, Invariance, PTL

\* No step migrates a database where migrate_on_startup is not to run.
THEOREM MigrationIsAllowed == Spec => MigratesOnlyWhereAllowed
  <1>. DEFINE Allowed ==
         pending' # pending =>
           /\ opt.mode = "migrate"
           /\ env = "production" => opt.allow_in_production
           /\ opt.only_dev => env = "development"
  <1>1. ASSUME IInv, MigrateOne PROVE Allowed
    BY <1>1 DEF IInv, AllowedInv, Skipped, Blocked, MigrateOne
  <1>2. ASSUME Startup \/ MigrationFails \/ MigrationEnds \/ StartThread
               \/ TaskEnds \/ Shutdown \/ Ending \/ CancelJoin
        PROVE  pending' = pending
    BY <1>2
       DEF Startup, Call, InstrumentationFails, StartBackground, RefuseIfPending, CheckSchema,
           NoMigration, MigrateInline, CheckReadiness, SeedOne, SeedFails,
           SeedsDone, WarmUp, StartRefresher, MigrationFails, MigrationEnds,
           StartThread, TaskEnds, Shutdown, Ending, StopRefresher,
           RefresherEnds, Join, DisposeEngines, CancelJoin, data
  <1>3. IInv /\ [Next]_vars => [Allowed]_vars
    BY <1>1, <1>2 DEF Next, Migration, Flip
  <1>. QED  BY <1>3, Invariance, PTL DEF Spec, MigratesOnlyWhereAllowed

-----------------------------------------------------------------------------
(***************************************************************************)
(* The lifespan implements Lifecycle.  Phase and Jobs hide the steps of    *)
(* startup and shutdown; what is left of each handler is one operation.    *)
(***************************************************************************)

\* A job is the migration from the creation of its task, or of its call, to
\* the end of both, and the refresher while its task runs.
LEMMA JobsAre ==
  /\ Jobs \subseteq ALifecycle!Job
  /\ "migration" \in Jobs <=> task = "pending" \/ worker \in {"inline", "queued", "thread"}
  /\ "refresher" \in Jobs <=> refresher = "running"
  BY DEF Jobs, ALifecycle!Job

\* A step that changes neither phase, jobs nor data is not seen.
LEMMA Unseen ==
  ASSUME Phase' = Phase, UNCHANGED <<worker, task, refresher, pending, seeded, disposed>>
  PROVE  UNCHANGED ALifecycle!lifecycleVars
  BY DEF ALifecycle!lifecycleVars, Jobs

\* Startup may be refused, begin the migration, seed, fail or serve.
LEMMA StartupRefines ==
  ASSUME IInv, Startup
  PROVE  [ALifecycle!LifecycleNext]_(ALifecycle!lifecycleVars)
  <1>. USE DEF Goto, config, data, tasks, ending
  <1>1. CASE Call
    <2>1. UNCHANGED <<worker, task, refresher, pending, seeded, disposed>> /\ pc = "new"
      BY <1>1 DEF Call
    <2>2. CASE pc' = "start"
      BY <2>1, <2>2, Unseen DEF Phase
    <2>3. CASE pc' = "rejected"
      <3>1. Jobs = {} /\ seeded = {} /\ Jobs' = Jobs
        BY <2>1 DEF Jobs, IInv, WorkerInv, DisposeInv
      <3>2. ALifecycle!Reject
        BY <2>1, <2>3, <3>1 DEF ALifecycle!Reject, Phase
      <3>. QED  BY <3>2 DEF ALifecycle!LifecycleNext
    <2>. QED  BY <1>1, <2>2, <2>3 DEF Call
  <1>2. CASE StartBackground \/ (MigrateInline /\ worker' = "inline")
    <2>1. /\ pc = "start" /\ pc' \in {"gate", "migrate"}
          /\ task' = "pending" \/ worker' = "inline"
          /\ UNCHANGED <<refresher, pending, seeded, disposed>>
      BY <1>2 DEF StartBackground, MigrateInline, IInv, WorkerInv
    <2>2. Jobs' = Jobs \cup {"migration"}
      BY <2>1 DEF Jobs, IInv, WorkerInv, DisposeInv
    <2>3. ALifecycle!Begin("migration")
      BY <2>1, <2>2 DEF ALifecycle!Begin, Phase
    <2>. QED  BY <2>3 DEF ALifecycle!LifecycleNext, ALifecycle!Job
  <1>3. CASE SeedOne
    <2>1. PICK d \in Db : seeded' = seeded \cup {d}
      BY <1>3, TargetsAreConfigured DEF SeedOne, IInv
    <2>2. ALifecycle!Seed(d)
      BY <1>3, <2>1 DEF SeedOne, ALifecycle!Seed, Phase, Jobs
    <2>. QED  BY <2>2 DEF ALifecycle!LifecycleNext
  <1>4. CASE StartRefresher
    <2>1. Jobs' \in {Jobs, Jobs \cup {"refresher"}}
      BY <1>4 DEF StartRefresher, Jobs, IInv, DisposeInv
    <2>2. ALifecycle!Serve
      BY <1>4, <2>1 DEF StartRefresher, ALifecycle!Serve, Phase
    <2>. QED  BY <2>2 DEF ALifecycle!LifecycleNext
  <1>5. ASSUME \/ InstrumentationFails \/ RefuseIfPending \/ CheckSchema \/ NoMigration
               \/ MigrateInline /\ worker' # "inline"
               \/ CheckReadiness \/ SeedFails \/ SeedsDone \/ WarmUp
        PROVE  [ALifecycle!LifecycleNext]_(ALifecycle!lifecycleVars)
    <2>1. /\ pc \in {"start", "gate", "seeds", "warmup"}
          /\ pc' \in {"stop", "gate", "seeds", "warmup", "metrics"}
          /\ UNCHANGED <<worker, task, refresher, pending, seeded, disposed>>
      BY <1>5
         DEF InstrumentationFails, RefuseIfPending, CheckSchema, NoMigration, MigrateInline,
             CheckReadiness, SeedFails, SeedsDone, WarmUp
    <2>2. CASE pc' = "stop"
      <3>1. ALifecycle!Stop
        BY <2>1, <2>2 DEF ALifecycle!Stop, Phase, Jobs
      <3>. QED  BY <3>1 DEF ALifecycle!LifecycleNext
    <2>3. CASE pc' # "stop"
      BY <2>1, <2>3, Unseen DEF Phase
    <2>. QED  BY <2>2, <2>3
  <1>. QED  BY <1>1, <1>2, <1>3, <1>4, <1>5 DEF Startup

\* What a migration does is done by a job, whose end may stop the startup.
LEMMA MigrationRefines ==
  ASSUME IInv, Migration
  PROVE  [ALifecycle!LifecycleNext]_(ALifecycle!lifecycleVars)
  <1>. USE DEF config, data, tasks, ending
  <1>1. CASE MigrateOne
    <2>1. PICK d \in Db : pending' = pending \ {d}
      BY <1>1 DEF MigrateOne, IInv, TypeOK
    <2>2. "migration" \in Jobs /\ Jobs' = Jobs /\ Phase' = Phase
      BY <1>1, JobsAre DEF MigrateOne, Jobs, Phase
    <2>3. ALifecycle!Migrate(d)
      BY <1>1, <2>1, <2>2 DEF MigrateOne, ALifecycle!Migrate
    <2>. QED  BY <2>3 DEF ALifecycle!LifecycleNext
  <1>2. CASE (MigrationFails \/ MigrationEnds) /\ worker = "inline"
    <2>1. /\ pc = "migrate" /\ pc' \in {"stop", "gate"}
          /\ worker' = "over" /\ task' = task
          /\ UNCHANGED <<refresher, pending, seeded, disposed>>
      BY <1>2 DEF MigrationFails, MigrationEnds, IInv, WorkerInv
    <2>2. Jobs' \in {Jobs, Jobs \ {"migration"}}
      BY <2>1 DEF Jobs
    <2>3. CASE pc' = "stop"
      <3>1. ALifecycle!Stop
        BY <2>1, <2>2, <2>3 DEF ALifecycle!Stop, Phase
      <3>. QED  BY <3>1 DEF ALifecycle!LifecycleNext
    <2>4. CASE pc' = "gate"
      <3>1. Phase' = Phase
        BY <2>1, <2>4 DEF Phase
      <3>2. Jobs' = Jobs \/ ALifecycle!End("migration")
        BY <2>1, <2>2, <3>1 DEF ALifecycle!End
      <3>. QED
        BY <2>1, <3>1, <3>2
           DEF ALifecycle!LifecycleNext, ALifecycle!lifecycleVars, ALifecycle!Job
    <2>. QED  BY <2>1, <2>3, <2>4
  <1>3. CASE \/ (MigrationFails \/ MigrationEnds) /\ worker = "thread"
            \/ StartThread \/ TaskEnds
    <2>1. /\ pc' = pc
          /\ worker' \in {worker, "thread", "over"}
          /\ worker' = "thread" => "migration" \in Jobs
          /\ task' \in {task, "done"}
          /\ UNCHANGED <<refresher, pending, seeded, disposed>>
      BY <1>3, JobsAre DEF MigrationFails, MigrationEnds, StartThread, TaskEnds
    <2>2. Jobs' \in {Jobs, Jobs \ {"migration"}}
      BY <2>1 DEF Jobs
    <2>3. Phase' = Phase
      BY <2>1 DEF Phase
    <2>4. Jobs' = Jobs \/ ALifecycle!End("migration")
      BY <2>1, <2>2, <2>3 DEF ALifecycle!End
    <2>. QED
      BY <2>1, <2>3, <2>4
         DEF ALifecycle!LifecycleNext, ALifecycle!lifecycleVars, ALifecycle!Job
  <1>. QED  BY <1>1, <1>2, <1>3 DEF Migration, MigrationFails, MigrationEnds

\* The `finally` clause ends the refresher, waits for the migration and
\* disposes, or is cancelled with the migration as the only job left.
LEMMA EndingRefines ==
  ASSUME IInv, Shutdown \/ Ending \/ CancelJoin
  PROVE  [ALifecycle!LifecycleNext]_(ALifecycle!lifecycleVars)
  <1>. USE DEF Goto, config, data, tasks, ending
  <1>1. CASE Shutdown
    <2>1. ALifecycle!Stop
      BY <1>1 DEF Shutdown, ALifecycle!Stop, Phase, Jobs
    <2>. QED  BY <2>1 DEF ALifecycle!LifecycleNext
  <1>2. CASE StopRefresher \/ Join
    BY <1>2, Unseen DEF StopRefresher, Join, Phase
  <1>3. CASE RefresherEnds
    <2>1. Jobs' = Jobs \ {"refresher"} /\ Phase' = Phase
      BY <1>3 DEF RefresherEnds, Jobs, Phase
    <2>2. ALifecycle!End("refresher")
      BY <1>3, <2>1 DEF RefresherEnds, ALifecycle!End
    <2>. QED  BY <2>2 DEF ALifecycle!LifecycleNext, ALifecycle!Job
  <1>4. CASE DisposeEngines
    <2>1. Jobs = {} /\ Jobs' = {}
      BY <1>4 DEF DisposeEngines, Jobs, IInv, TypeOK, WorkerInv, DisposeInv
    <2>2. ALifecycle!Dispose
      BY <1>4, <2>1 DEF DisposeEngines, ALifecycle!Dispose, Phase
    <2>. QED  BY <2>2 DEF ALifecycle!LifecycleNext
  <1>5. CASE CancelJoin
    <2>1. Jobs = {"migration"} /\ Jobs' \in SUBSET Jobs
      BY <1>5 DEF CancelJoin, Jobs, IInv, WorkerInv, DisposeInv
    <2>2. ALifecycle!Abandon
      BY <1>5, <2>1 DEF CancelJoin, ALifecycle!Abandon, Phase
    <2>. QED  BY <2>2 DEF ALifecycle!LifecycleNext
  <1>. QED  BY <1>1, <1>2, <1>3, <1>4, <1>5 DEF Ending

\* Whatever the arguments, the failures and the cancellations, the steps of
\* the lifespan are those of an application that disposes its engines last
\* and touches its databases only by jobs that began while it started.
THEOREM LifespanImplementsLifecycle == Spec => ImplementsLifecycle
  <1>1. Init => ALifecycle!LifecycleInit
    BY DEF Init, ALifecycle!LifecycleInit, Phase, Jobs
  <1>2. IInv /\ [Next]_vars => [ALifecycle!LifecycleNext]_(ALifecycle!lifecycleVars)
    <2>. SUFFICES ASSUME IInv, [Next]_vars
                  PROVE  [ALifecycle!LifecycleNext]_(ALifecycle!lifecycleVars)
      OBVIOUS
    <2>1. CASE UNCHANGED vars \/ \E d \in Db : Flip(d)
      <3>1. UNCHANGED <<pc, worker, task, refresher, pending, seeded, disposed>>
        BY <2>1 DEF vars, Flip, tasks, ending
      <3>. QED  BY <3>1, Unseen DEF Phase
    <2>. QED
      BY <2>1, StartupRefines, MigrationRefines, EndingRefines DEF Next
  <1>. QED
    BY <1>1, <1>2, Invariance, PTL DEF Spec, ImplementsLifecycle, ALifecycle!LifecycleSpec

=============================================================================
