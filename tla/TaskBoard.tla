------------------------------ MODULE TaskBoard ------------------------------
(***************************************************************************)
(* What the task queue server promises: a task is open, held by one        *)
(* worker, or completed for good, and a worker holds at most one task.     *)
(* When it is started again, it begins anew.                               *)
(***************************************************************************)
EXTENDS Naturals

CONSTANTS Tasks, Workers, Nobody

VARIABLES holder, done, restarts

vars == <<holder, done, restarts>>

Init == holder = [t \in Tasks |-> Nobody] /\ done = {} /\ restarts = 0

Claim(w, t) ==
  /\ holder[t] = Nobody /\ t \notin done
  /\ \A s \in Tasks : holder[s] # w
  /\ holder' = [holder EXCEPT ![t] = w]
  /\ UNCHANGED <<done, restarts>>

Release(t) ==
  /\ holder[t] # Nobody
  /\ holder' = [holder EXCEPT ![t] = Nobody]
  /\ UNCHANGED <<done, restarts>>

Complete(t) ==
  /\ holder[t] # Nobody
  /\ holder' = [holder EXCEPT ![t] = Nobody]
  /\ done' = done \cup {t}
  /\ UNCHANGED restarts

Restart ==
  /\ holder' = [t \in Tasks |-> Nobody]
  /\ done' = {}
  /\ restarts' = restarts + 1

Next ==
  \/ \E t \in Tasks : Release(t) \/ Complete(t) \/ \E w \in Workers : Claim(w, t)
  \/ Restart

Spec == Init /\ [][Next]_vars
=============================================================================
