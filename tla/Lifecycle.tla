------------------------------ MODULE Lifecycle ------------------------------
(***************************************************************************)
(* What an application promises its databases: it starts, serves and stops *)
(* in this order; jobs that use the databases begin only while it starts,  *)
(* a migration changes them only as such a job, seeds only come while it   *)
(* starts, and it disposes its engines only in the end, when no job is     *)
(* left.  An application that will not wait for its jobs ends without.     *)
(***************************************************************************)

CONSTANT Db

Job == {"migration", "refresher"}

VARIABLES
  phase,      \* "starting", "serving", "stopping" or "ended"
  jobs,       \* those that use the databases
  behind,     \* the databases with pending migrations
  supplied,   \* the databases with seed data
  closed      \* are the engines disposed?

lifecycleVars == <<phase, jobs, behind, supplied, closed>>

LifecycleInit ==
  /\ phase = "starting"
  /\ jobs = {}
  /\ behind \in SUBSET Db
  /\ supplied = {}
  /\ closed = FALSE

Begin(j) ==
  /\ phase = "starting"
  /\ jobs' = jobs \cup {j}
  /\ UNCHANGED <<phase, behind, supplied, closed>>

End(j) ==
  /\ jobs' = jobs \ {j}
  /\ UNCHANGED <<phase, behind, supplied, closed>>

Migrate(d) ==
  /\ "migration" \in jobs
  /\ behind' = behind \ {d}
  /\ UNCHANGED <<phase, jobs, supplied, closed>>

Seed(d) ==
  /\ phase = "starting"
  /\ supplied' = supplied \cup {d}
  /\ UNCHANGED <<phase, jobs, behind, closed>>

\* The refresher begins as the application starts to serve, or never.
Serve ==
  /\ phase = "starting"
  /\ phase' = "serving"
  /\ jobs' \in {jobs, jobs \cup {"refresher"}}
  /\ UNCHANGED <<behind, supplied, closed>>

\* A job may fail and stop the application with it.
Stop ==
  /\ phase \in {"starting", "serving"}
  /\ phase' = "stopping"
  /\ jobs' \in SUBSET jobs
  /\ UNCHANGED <<behind, supplied, closed>>

\* A call that is refused has done nothing.
Reject ==
  /\ phase = "starting"
  /\ jobs = {} /\ supplied = {}
  /\ phase' = "ended"
  /\ UNCHANGED <<jobs, behind, supplied, closed>>

Dispose ==
  /\ phase = "stopping"
  /\ jobs = {}
  /\ phase' = "ended"
  /\ closed' = TRUE
  /\ UNCHANGED <<jobs, behind, supplied>>

Abandon ==
  /\ phase = "stopping"
  /\ jobs = {"migration"}
  /\ phase' = "ended"
  /\ jobs' \in SUBSET jobs
  /\ UNCHANGED <<behind, supplied, closed>>

LifecycleNext ==
  \/ \E j \in Job : Begin(j) \/ End(j)
  \/ \E d \in Db : Migrate(d) \/ Seed(d)
  \/ Serve \/ Stop \/ Reject \/ Dispose \/ Abandon

LifecycleSpec == LifecycleInit /\ [][LifecycleNext]_lifecycleVars

=============================================================================
