------------------------- MODULE MCClickHouseClients -------------------------
(***************************************************************************)
(* ClickHouseClients with two databases, the default one and another.      *)
(***************************************************************************)
EXTENDS ClickHouseClients, TLC

Symm == Permutations(Client) \cup Permutations(AsyncCaller)
          \cup Permutations(SyncCaller)

=============================================================================
