------------------------------- MODULE MCKTP -------------------------------
(* Instances of KTP for TLC. *)
EXTENDS KTP

File(n)  == [u \in Users |-> IF u = "user1" THEN n ELSE 0]
File2 == File(2)
File3 == File(3)
File4 == File(4)
=============================================================================
