------------------------------ MODULE MCRequest ------------------------------
(***************************************************************************)
(* Request with two requests, one of which has a thread at work beside it, *)
(* on one event loop or on two.                                            *)
(***************************************************************************)
EXTENDS Request, TLC

CONSTANTS r1, r2, g1, w1, w2, primary, tenant, alias

Owners == (w1 :> r1) @@ (w2 :> r1)
Devs   == (r1 :> TRUE) @@ (r2 :> FALSE) @@ (g1 :> TRUE)
Hosts  == (primary :> primary) @@ (tenant :> Empty) @@ (alias :> primary)
Symm   == Permutations(Loop)

=============================================================================
