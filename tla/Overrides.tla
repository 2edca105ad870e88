------------------------------ MODULE Overrides ------------------------------
(***************************************************************************)
(* testing.py: override_database gives a database another URL for the time *)
(* of a context, migration_state marks versions as applied for the time of *)
(* one.  Contexts of concurrent tests overlap and need not end in reverse  *)
(* order; each is entered and left without an await.                       *)
(***************************************************************************)
EXTENDS Naturals, Sequences

CONSTANTS
  Context,    \* override_database(...) of one database; entered any number of times
  UrlOf,      \* the URL each replaces the configured one by
  State,      \* migration_state(...) of that database
  VersionsOf, \* the versions each marks as applied
  Version,    \* the versions there are
  Original    \* the configured URL

Url == {UrlOf[c] : c \in Context} \cup {Original}

ASSUME OverridesAssumption ==
  /\ Context \cap State = {}
  /\ UrlOf \in [Context -> Url]
  /\ VersionsOf \in [State -> SUBSET Version]

VARIABLES
  sync, async,  \* sqlalchemy_url_sync and sqlalchemy_url_async
  before,       \* original_sync and original_async of each context
  rows,         \* the migration table of the database behind each URL
  inside,       \* the contexts of either kind that are entered
  stack,        \* history: the overrides that are entered, in that order
  tangled,      \* history: has an override been left that was not the last?
  place,        \* history: the database a state was entered in
  deleted       \* history: the versions others have deleted there since

overrides == <<sync, async, before, stack, tangled>>
states    == <<place, deleted>>
vars == <<overrides, rows, inside, states>>

TypeOK ==
  /\ sync \in Url
  /\ async \in Url
  /\ before \in [Context -> [sync : Url, async : Url]]
  /\ rows \in [Url -> SUBSET Version]
  /\ inside \subseteq Context \cup State
  /\ stack \in Seq(Context)
  /\ tangled \in BOOLEAN
  /\ place \in [State -> Url]
  /\ deleted \in [State -> SUBSET Version]

Init ==
  /\ sync = Original
  /\ async = Original
  /\ before = [c \in Context |-> [sync |-> Original, async |-> Original]]
  /\ rows \in [Url -> SUBSET Version]
  /\ inside = {}
  /\ stack = <<>>
  /\ tangled = FALSE
  /\ place = [s \in State |-> Original]
  /\ deleted = [s \in State |-> {}]

\* Mutant: migrate_cmd is called before the URL is replaced.
MigratedBefore(c) ==
  \E versions \in SUBSET Version : rows' = [rows EXCEPT ![sync] = @ \cup versions]

\* run_migrations: migrate_cmd, which connects to the URL of the moment.
Migrated(c) ==
  \E versions \in SUBSET Version :
    rows' = [rows EXCEPT ![UrlOf[c]] = @ \cup versions]

Enter(c) ==
  /\ c \notin inside
  /\ inside' = inside \cup {c}
  /\ before' = [before EXCEPT ![c] = [sync |-> sync, async |-> async]]
  /\ sync' = UrlOf[c]
  /\ async' = UrlOf[c]
  /\ Migrated(c)
  /\ stack' = Append(stack, c)
  /\ UNCHANGED <<tangled, states>>

\* Mutant: migrate_cmd is called before the `try`.
EnterFailsInside(c) ==
  /\ c \notin inside
  /\ Migrated(c)
  /\ sync' = UrlOf[c]
  /\ async' = UrlOf[c]
  /\ UNCHANGED <<before, stack, tangled, inside, states>>

\* migrate_cmd raises, perhaps after some versions; `finally` restores.
EnterFails(c) ==
  /\ c \notin inside
  /\ Migrated(c)
  /\ UNCHANGED <<overrides, inside, states>>

Leave(c) ==
  /\ c \in inside
  /\ inside' = inside \ {c}
  /\ sync' = before[c].sync
  /\ async' = before[c].async
  /\ IF stack # <<>> /\ stack[Len(stack)] = c
     THEN stack' = SubSeq(stack, 1, Len(stack) - 1) /\ UNCHANGED tangled
     ELSE stack' = <<>> /\ tangled' = TRUE
  /\ UNCHANGED <<before, rows, states>>

\* INSERT OR IGNORE of each version, and a commit.
EnterState(s) ==
  /\ s \notin inside
  /\ inside' = inside \cup {s}
  /\ rows' = [rows EXCEPT ![sync] = @ \cup VersionsOf[s]]
  /\ place' = [place EXCEPT ![s] = sync]
  /\ deleted' = [deleted EXCEPT ![s] = {}]
  /\ UNCHANGED overrides

\* What the states still entered lose when s deletes versions.
Deleted(s, versions) ==
  [t \in State |-> IF t # s /\ t \in inside /\ place[t] = sync
                   THEN deleted[t] \cup versions ELSE deleted[t]]

\* Mutant: the table is emptied.
LeaveStateEmpty(s) ==
  /\ s \in inside
  /\ inside' = inside \ {s}
  /\ rows' = [rows EXCEPT ![sync] = {}]
  /\ deleted' = Deleted(s, VersionsOf[s])
  /\ UNCHANGED <<overrides, place>>

\* Each version is deleted, wherever it came from, in the database the URL
\* now leads to, or the connection fails and the rows stay.
LeaveState(s) ==
  /\ s \in inside
  /\ inside' = inside \ {s}
  /\ \/ /\ rows' = [rows EXCEPT ![sync] = @ \ VersionsOf[s]]
        /\ deleted' = Deleted(s, VersionsOf[s])
     \/ UNCHANGED <<rows, deleted>>
  /\ UNCHANGED <<overrides, place>>

Next ==
  \/ \E c \in Context : Enter(c) \/ EnterFails(c) \/ Leave(c)
  \/ \E s \in State : EnterState(s) \/ LeaveState(s)

Spec == Init /\ [][Next]_vars

-----------------------------------------------------------------------------
Innermost == IF stack = <<>> THEN Original ELSE UrlOf[stack[Len(stack)]]

\* As long as overrides are left in reverse order the database has, for
\* synchronous and asynchronous users, the URL of the innermost of them, and
\* in the end its own again, also when migrations fail on the way.
OverridesNest == ~tangled => sync = Innermost /\ async = Innermost

\* A step that changes the configured database is that of a state outside.
Spared ==
  (\A c \in Context : UrlOf[c] # Original)
    /\ rows'[Original] # rows[Original] /\ ~tangled =>
      /\ stack = <<>>
      /\ \E s \in State : s \in inside' <=> s \notin inside

\* Tests inside overrides spare the configured database: its migration table
\* is changed only by a migration_state entered or left outside of them all.
OriginalSpared == [][Spared]_vars

\* Inside migration_state its versions are applied in the database it was
\* entered in, but for those that another migration_state has deleted since,
\* whatever overrides come and go.
StateHeld ==
  \A s \in State \cap inside : VersionsOf[s] \ deleted[s] \subseteq rows[place[s]]

=============================================================================
