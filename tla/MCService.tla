------------------------------ MODULE MCService ------------------------------
(***************************************************************************)
(* Service with a database that has two migration files and one that has   *)
(* one of them; its table may have one row more: of the other version,     *)
(* whose file is gone, or a second one of its own.                         *)
(***************************************************************************)
EXTENDS Service

CONSTANTS a, b, v1, v2
Databases == {a, b}
FilesOf == [d \in Databases |-> IF d = a THEN {v1, v2} ELSE {v1}]
SurplusOf == [d \in Databases |-> IF d = a THEN 0 ELSE 1]

=============================================================================
