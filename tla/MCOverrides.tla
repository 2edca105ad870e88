----------------------------- MODULE MCOverrides -----------------------------
(***************************************************************************)
(* Overrides with two overrides and two migration states that share a      *)
(* version.                                                                *)
(***************************************************************************)
EXTENDS Overrides, TLC

CONSTANTS c1, c2, s1, s2, v1, v2, u1, u2

Urls     == (c1 :> u1) @@ (c2 :> u2)
Versions == (s1 :> {v1}) @@ (s2 :> {v1, v2})

=============================================================================
