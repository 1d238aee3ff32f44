----------------------------- MODULE MCKTPAlloc -----------------------------
(* Instances of KTPAlloc for TLC: processes are pids. *)
EXTENDS KTPAlloc

ThreePids == {101, 102, 103}
OneSends  == [p \in ThreePids |-> IF p = 101 THEN 1 ELSE 0]
=============================================================================
