---------------------------- MODULE MCTaskQueue ----------------------------
(* Instances of TaskQueue for TLC: connections are pids. *)
EXTENDS TaskQueue

Pid1  == {101}
Pid2  == {102}
Pid3  == {103}
Pid12 == {101, 102}
None  == {}
=============================================================================
