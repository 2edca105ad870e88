---------------------------- MODULE MCEngineCache ----------------------------
(***************************************************************************)
(* EngineCache on a small instance: one database whose URL alternates      *)
(* between passwords and targets, so that several cache keys coexist.      *)
(***************************************************************************)
EXTENDS EngineCache, TLC

\* Engines and requests of one sort are interchangeable.
Symm == Permutations(Engine) \cup Permutations(ThreadCaller)

=============================================================================
