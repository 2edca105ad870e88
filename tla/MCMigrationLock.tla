--------------------------- MODULE MCMigrationLock ---------------------------
(***************************************************************************)
(* MigrationLock on a small instance.  Tokens are one more than processes, *)
(* so that a command of an earlier session can meet a later one.           *)
(***************************************************************************)
EXTENDS MigrationLock

=============================================================================
