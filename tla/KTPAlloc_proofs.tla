-------------------------- MODULE KTPAlloc_proofs --------------------------
(***************************************************************************)
(* Proofs about KTPAlloc for any set of processes, number of slots and     *)
(* number of crashes, with every interleaving of single accesses.          *)
(***************************************************************************)
EXTENDS KTPAlloc, TLAPS

LEMMA InitTypeOK == ASSUME Init PROVE TypeOK
BY AllocAssumption DEF Init, TypeOK, Sockets, Steps

(* The collector's loop stays among the slots.                             *)
LEMMA NextSlotType == ASSUME NEW i \in Sockets PROVE NextSlot(i) \in Sockets
BY AllocAssumption DEF NextSlot, Sockets

LEMMA CollectTypeOK == ASSUME TypeOK, collect PROVE TypeOK'
<1> USE AllocAssumption DEF TypeOK, slot, MoveOn, GoOn
<1>1. NextSlot(thread_g.i) \in Sockets
  BY NextSlotType
<1>2. CASE G_Check
  BY <1>1, <1>2 DEF G_Check
<1>3. CASE G_Owned
  BY <1>1, <1>3 DEF G_Owned
<1>4. CASE G_Read
  BY <1>4 DEF G_Read
<1>5. CASE G_Kill
  BY <1>1, <1>5 DEF G_Kill
<1>6. CASE G_Free
  BY <1>6 DEF G_Free
<1>7. CASE G_Forget
  BY <1>7 DEF G_Forget
<1>8. CASE G_Clear
  BY <1>1, <1>8 DEF G_Clear
<1> QED
  BY <1>2, <1>3, <1>4, <1>5, <1>6, <1>7, <1>8 DEF collect

(* So does the loop of k_socket while there is a next slot.                *)
LEMMA NextSockfd ==
  ASSUME NEW i \in Sockets, i + 1 < MAX_SOCKETS
  PROVE  i + 1 \in Sockets
BY AllocAssumption DEF Sockets

LEMMA ProcessTypeOK ==
  ASSUME TypeOK, NEW p \in Procs,
         Start(p) \/ k_socket(p) \/ k_sendto(p) \/ k_close(p) \/ Crash(p)
  PROVE  TypeOK'
<1> USE AllocAssumption DEF TypeOK, slot, Goto, Steps, InSocket, InClose, Finished
<1>1. CASE Start(p)
  BY <1>1 DEF Start
<1>2. CASE SocketCheck(p)
  <2>1. UNCHANGED <<slot, sent, crashes, thread_g>>
    BY <1>2 DEF SocketCheck
  <2>2. pc' \in [Procs -> Steps]
    BY <1>2 DEF SocketCheck
  <2>3. alive' \in [Procs -> BOOLEAN]
    <3>1. alive' = alive \/ alive' = [alive EXCEPT ![p] = FALSE]
      BY <1>2, Zenon DEF SocketCheck
    <3> QED BY <3>1
  <2>4. sockfd' \in [Procs -> Sockets]
    <3>1. \/ sockfd' = sockfd
          \/ /\ sockfd[p] + 1 < MAX_SOCKETS
             /\ sockfd' = [sockfd EXCEPT ![p] = sockfd[p] + 1]
      BY <1>2, Zenon DEF SocketCheck
    <3>2. sockfd[p] + 1 < MAX_SOCKETS => sockfd[p] + 1 \in Sockets
      BY NextSockfd
    <3> QED BY <3>1, <3>2
  <2> QED BY <2>1, <2>2, <2>3, <2>4
<1>3. CASE SocketClaim(p)
  BY <1>3 DEF SocketClaim
<1>4. CASE SocketPid(p)
  BY <1>4 DEF SocketPid
<1>5. CASE SocketReset(p)
  BY <1>5 DEF SocketReset
<1>6. CASE k_sendto(p)
  BY <1>6 DEF k_sendto
<1>7. CASE CloseCheck(p)
  BY <1>7 DEF CloseCheck
<1>8. CASE CloseFree(p)
  BY <1>8 DEF CloseFree
<1>9. CASE CloseForget(p)
  BY <1>9 DEF CloseForget
<1>10. CASE CloseClear(p)
  BY <1>10 DEF CloseClear
<1>11. CASE Crash(p)
  BY <1>11 DEF Crash
<1> QED
  BY <1>1, <1>2, <1>3, <1>4, <1>5, <1>6, <1>7, <1>8, <1>9, <1>10, <1>11
     DEF k_socket, k_close

LEMMA NextTypeOK == ASSUME TypeOK, [Next]_vars PROVE TypeOK'
<1>1. CASE UNCHANGED vars
  BY <1>1 DEF vars, slot, TypeOK
<1> QED
  BY <1>1, ProcessTypeOK, CollectTypeOK DEF Next

(* Who holds a slot keeps it as long as its own program counter stays      *)
(* among the steps that hold one and its slot stays the same.              *)
LEMMA StillHeld ==
  ASSUME TypeOK, InUseHasUser,
         \A i \in Sockets : ~is_free'[i] => ~is_free[i],
         \A p \in Procs : \A i \in Sockets :
           ~is_free'[i] /\ Holds(p, i) => Holds(p, i)'
  PROVE  InUseHasUser'
BY DEF InUseHasUser

LEMMA NextInUse == ASSUME TypeOK, InUseHasUser, [Next]_vars PROVE InUseHasUser'
<1>1. CASE UNCHANGED <<is_free, pc, sockfd>>
  BY <1>1 DEF InUseHasUser, Holds
<1>2. CASE \E p \in Procs : k_sendto(p) \/ Crash(p)
  BY <1>1, <1>2 DEF k_sendto, Crash, slot
<1>3. CASE G_Check \/ G_Owned \/ G_Read \/ G_Kill \/ G_Forget \/ G_Clear
  BY <1>1, <1>3 DEF G_Check, G_Owned, G_Read, G_Kill, G_Forget, G_Clear, slot
<1>4. CASE UNCHANGED vars
  BY <1>1, <1>4 DEF vars, slot
<1>5. CASE G_Free
  BY <1>5 DEF G_Free, InUseHasUser, Holds, TypeOK
<1>6. ASSUME NEW p \in Procs, Start(p) \/ SocketCheck(p) PROVE InUseHasUser'
  <2>1. /\ is_free' = is_free
        /\ pc[p] \in {"new", "check"}
        /\ \A q \in Procs \ {p} : pc'[q] = pc[q] /\ sockfd'[q] = sockfd[q]
    BY <1>6 DEF Start, SocketCheck, Goto, slot, TypeOK
  <2> QED BY <2>1, StillHeld DEF Holds
<1>7. ASSUME NEW p \in Procs, SocketClaim(p) PROVE InUseHasUser'
  <2>1. /\ is_free' = [is_free EXCEPT ![sockfd[p]] = FALSE]
        /\ pc' = [pc EXCEPT ![p] = "pid"] /\ sockfd' = sockfd
        /\ pc[p] = "claim"
    BY <1>7 DEF SocketClaim, Goto
  <2>2. SUFFICES ASSUME NEW i \in Sockets, ~is_free'[i]
                 PROVE  \E q \in Procs : Holds(q, i)'
    BY DEF InUseHasUser
  <2>3. CASE i = sockfd[p]
    BY <2>1, <2>3 DEF Holds, TypeOK
  <2>4. CASE i # sockfd[p]
    <3>1. PICK q \in Procs : Holds(q, i)
      BY <2>1, <2>2, <2>4 DEF InUseHasUser, TypeOK
    <3> QED BY <2>1, <2>4, <3>1 DEF Holds, TypeOK
  <2> QED BY <2>3, <2>4
<1>8. ASSUME NEW p \in Procs, SocketPid(p) \/ SocketReset(p) PROVE InUseHasUser'
  <2>1. /\ is_free' = is_free /\ sockfd' = sockfd
        /\ pc'[p] \in {"reset", "open"}
        /\ \A q \in Procs \ {p} : pc'[q] = pc[q]
    BY <1>8 DEF SocketPid, SocketReset, Goto, slot, TypeOK
  <2> QED BY <2>1, StillHeld DEF Holds
<1>9. ASSUME NEW p \in Procs, CloseCheck(p) PROVE InUseHasUser'
  <2>1. /\ is_free' = is_free /\ sockfd' = sockfd
        /\ pc'[p] = "free" \/ is_free[sockfd[p]]
        /\ \A q \in Procs \ {p} : pc'[q] = pc[q]
    BY <1>9 DEF CloseCheck, Goto, slot, TypeOK
  <2> QED BY <2>1, StillHeld DEF Holds
<1>10. ASSUME NEW p \in Procs, CloseFree(p) PROVE InUseHasUser'
  <2>1. /\ is_free' = [is_free EXCEPT ![sockfd[p]] = TRUE] /\ sockfd' = sockfd
        /\ \A q \in Procs \ {p} : pc'[q] = pc[q]
    BY <1>10 DEF CloseFree, Goto, TypeOK
  <2> QED BY <2>1, StillHeld DEF Holds, TypeOK
<1>11. ASSUME NEW p \in Procs, CloseForget(p) \/ CloseClear(p) PROVE InUseHasUser'
  <2>1. /\ is_free' = is_free /\ sockfd' = sockfd
        /\ pc[p] \in {"forget", "clear"}
        /\ \A q \in Procs \ {p} : pc'[q] = pc[q]
    BY <1>11 DEF CloseForget, CloseClear, Goto, TypeOK
  <2> QED BY <2>1, StillHeld DEF Holds
<1> QED
  BY <1>2, <1>3, <1>4, <1>5, <1>6, <1>7, <1>8, <1>9, <1>10, <1>11
     DEF Next, k_socket, k_close, collect

(* For any number of processes and slots, under every interleaving of the  *)
(* unlocked accesses and wherever processes crash: a slot in use has been  *)
(* claimed by a process that has not given it back.                        *)
THEOREM SlotsAccounted == Spec => [](TypeOK /\ InUseHasUser)
<1>1. Init => TypeOK /\ InUseHasUser
  BY InitTypeOK DEF Init, InUseHasUser
<1>2. TypeOK /\ InUseHasUser /\ [Next]_vars => (TypeOK /\ InUseHasUser)'
  BY NextTypeOK, NextInUse
<1> QED
  BY <1>1, <1>2, PTL DEF Spec

(* If no process has died inside its program, then once all processes have *)
(* left theirs every slot is free again: only crashes can leak a slot.     *)
AllLeft == \A p \in Procs : pc[p] \in {"new"} \cup Finished
THEOREM OnlyCrashesLeak == Spec => [](AllLeft => \A i \in Sockets : is_free[i])
<1>1. InUseHasUser /\ TypeOK => (AllLeft => \A i \in Sockets : is_free[i])
  BY DEF InUseHasUser, AllLeft, Holds, Finished, TypeOK
<1> QED
  BY <1>1, SlotsAccounted, PTL
-----------------------------------------------------------------------------
(* A slot is named after a process that took this slot, and the process    *)
(* whose death thread_g has found took the slot that thread_g cleans.      *)
TookSlot(p, i) == sockfd[p] = i /\ pc[p] \in {"reset", "open"} \cup InClose \cup {"done"}
NameRight(i)   == process_id[i] # NoPid => /\ TookSlot(process_id[i], i)
                                           /\ pc[process_id[i]] # "clear"
CleansOwn ==
  /\ thread_g.at \in {"kill", "free", "forget", "clear"} /\ thread_g.pid # NoPid
       => TookSlot(thread_g.pid, thread_g.i)
  /\ thread_g.at \in {"free", "forget", "clear"}
       => thread_g.pid # NoPid /\ ~alive[thread_g.pid]
Names == (\A i \in Sockets : NameRight(i)) /\ CleansOwn

LEMMA InitNames == ASSUME Init PROVE Names
BY DEF Init, Names, NameRight, CleansOwn

(* A step of a process that changes no name.                               *)
LEMMA SameNames ==
  ASSUME TypeOK, Names, NEW p \in Procs, process_id' = process_id, thread_g' = thread_g,
         \A q \in Procs : alive'[q] => alive[q],
         \A q \in Procs \ {p} : pc'[q] = pc[q] /\ sockfd'[q] = sockfd[q],
         \A i : TookSlot(p, i) => TookSlot(p, i)',
         pc'[p] = "clear" => pc[p] = "clear"
  PROVE  Names'
<1>1. \A q \in Procs, i \in Sockets : TookSlot(q, i) => TookSlot(q, i)'
  BY DEF TookSlot
<1>2. \A q \in Procs : pc'[q] = "clear" => pc[q] = "clear"
  OBVIOUS
<1>3. ASSUME NEW i \in Sockets PROVE NameRight(i)'
  BY <1>1, <1>2 DEF Names, NameRight, TypeOK
<1>4. CleansOwn'
  <2>1. thread_g.pid \in Procs \cup {NoPid} /\ thread_g.i \in Sockets
    BY DEF TypeOK
  <2>. QED BY <1>1, <2>1 DEF Names, CleansOwn
<1>. QED BY <1>3, <1>4 DEF Names

(* The two steps of a process that do: its own name comes or goes.         *)
LEMMA OwnName ==
  ASSUME TypeOK, Names, NEW p \in Procs, SocketPid(p) \/ CloseForget(p) PROVE Names'
<1>1. /\ \A i \in Sockets : i # sockfd[p] => process_id'[i] = process_id[i]
      /\ thread_g' = thread_g /\ alive' = alive /\ sockfd' = sockfd
      /\ \A q \in Procs : q # p => pc'[q] = pc[q]
      /\ sockfd[p] \in Sockets /\ pc'[p] \in {"reset", "clear"}
      /\ pc[p] = "pid" \/ pc[p] = "forget"
  BY DEF SocketPid, CloseForget, Goto, TypeOK
<1>2. \A q \in Procs, i \in Sockets : TookSlot(q, i) => TookSlot(q, i)'
  BY <1>1 DEF TookSlot, InClose
<1>3. ASSUME NEW i \in Sockets PROVE NameRight(i)'
  <2>1. CASE i # sockfd[p]
    <3>1. process_id'[i] = process_id[i] /\ process_id[i] \in Procs \cup {NoPid}
      BY <1>1, <2>1 DEF TypeOK
    <3>2. process_id[i] # p
      BY <2>1, AllocAssumption DEF Names, NameRight, TookSlot
    <3>. QED BY <1>1, <1>2, <3>1, <3>2 DEF Names, NameRight
  <2>2. CASE i = sockfd[p] /\ SocketPid(p)
    BY <2>2 DEF SocketPid, Goto, NameRight, TookSlot, TypeOK
  <2>3. CASE i = sockfd[p] /\ CloseForget(p)
    BY <2>3 DEF CloseForget, NameRight, TypeOK
  <2>. QED BY <2>1, <2>2, <2>3
<1>4. CleansOwn'
  <2>1. thread_g.pid \in Procs \cup {NoPid} /\ thread_g.i \in Sockets
    BY DEF TypeOK
  <2>. QED BY <1>1, <1>2, <2>1 DEF Names, CleansOwn
<1>. QED BY <1>3, <1>4 DEF Names

LEMMA ProcessNames ==
  ASSUME TypeOK, Names, NEW p \in Procs,
         Start(p) \/ k_socket(p) \/ k_sendto(p) \/ k_close(p) \/ Crash(p)
  PROVE  Names'
<1>1. CASE Start(p) \/ SocketCheck(p)
  <2>1. /\ process_id' = process_id /\ thread_g' = thread_g
        /\ \A q \in Procs : alive'[q] => alive[q]
        /\ \A q \in Procs \ {p} : pc'[q] = pc[q] /\ sockfd'[q] = sockfd[q]
        /\ pc[p] = "new" \/ pc[p] = "check"
        /\ pc'[p] # "clear"
    BY <1>1 DEF Start, SocketCheck, Goto, slot, TypeOK
  <2>. QED BY <2>1, SameNames DEF TookSlot, InClose
<1>2. CASE SocketClaim(p) \/ SocketReset(p)
  <2>1. /\ process_id' = process_id /\ thread_g' = thread_g /\ alive' = alive
        /\ sockfd' = sockfd /\ \A q \in Procs \ {p} : pc'[q] = pc[q]
        /\ pc[p] = "claim" \/ pc[p] = "reset"
        /\ pc[p] = "reset" => pc'[p] = "open"
        /\ pc'[p] # "clear"
    BY <1>2 DEF SocketClaim, SocketReset, Goto, slot, TypeOK
  <2>. QED BY <2>1, SameNames DEF TookSlot, InClose
<1>3. CASE SocketPid(p) \/ CloseForget(p)
  BY <1>3, OwnName
<1>4. CASE k_sendto(p) \/ Crash(p)
  <2>1. /\ process_id' = process_id /\ thread_g' = thread_g /\ pc' = pc /\ sockfd' = sockfd
        /\ \A q \in Procs : alive'[q] => alive[q]
    BY <1>4 DEF k_sendto, Crash, slot, TypeOK
  <2>. QED BY <2>1, SameNames DEF TookSlot
<1>5. CASE CloseCheck(p) \/ CloseFree(p) \/ CloseClear(p)
  <2>1. /\ process_id' = process_id /\ thread_g' = thread_g /\ sockfd' = sockfd
        /\ \A q \in Procs \ {p} : pc'[q] = pc[q]
        /\ pc'[p] = "free" \/ pc'[p] = "done" \/ pc'[p] = "forget"
    BY <1>5 DEF CloseCheck, CloseFree, CloseClear, Goto, slot, TypeOK
  <2>2. \A q \in Procs : alive'[q] => alive[q]
    BY <1>5 DEF CloseCheck, CloseFree, CloseClear, TypeOK
  <2>. QED BY <2>1, <2>2, SameNames DEF TookSlot, InClose
<1>. QED BY <1>1, <1>2, <1>3, <1>4, <1>5 DEF k_socket, k_close

LEMMA CollectNames == ASSUME TypeOK, Names, collect PROVE Names'
<1>1. pc' = pc /\ sockfd' = sockfd /\ alive' = alive
  BY DEF collect, G_Check, G_Owned, G_Read, G_Kill, G_Free, G_Forget, G_Clear
<1>2. \A i \in Sockets : process_id'[i] = process_id[i] \/ process_id'[i] = NoPid
  BY DEF collect, G_Check, G_Owned, G_Read, G_Kill, G_Free, G_Forget, G_Clear, slot, TypeOK
<1>3. ASSUME NEW i \in Sockets PROVE NameRight(i)'
  BY <1>1, <1>2 DEF Names, NameRight, TookSlot
<1>4. CleansOwn'
  <2>1. CASE MoveOn
    BY <2>1 DEF MoveOn, CleansOwn
  <2>2. CASE G_Read
    <3>1. thread_g'.pid = process_id[thread_g.i] /\ thread_g'.i = thread_g.i
          /\ thread_g'.at = "kill" /\ thread_g.i \in Sockets
      BY <2>2 DEF G_Read, TypeOK
    <3>. QED BY <1>1, <3>1 DEF Names, NameRight, CleansOwn, TookSlot
  <2>3. CASE ~MoveOn /\ (G_Check \/ G_Owned)
    <3>1. thread_g'.at = "owned" \/ thread_g'.at = "read"
      BY <2>3 DEF G_Check, G_Owned, GoOn, TypeOK
    <3>. QED BY <3>1 DEF CleansOwn
  <2>4. CASE ~MoveOn /\ (G_Kill \/ G_Free \/ G_Forget)
    <3>1. thread_g'.pid = thread_g.pid /\ thread_g'.i = thread_g.i
          /\ thread_g.at \in {"kill", "free", "forget"}
      BY <2>4 DEF G_Kill, G_Free, G_Forget, GoOn, TypeOK
    <3>2. thread_g.pid # NoPid /\ ~alive[thread_g.pid]
      BY <2>4 DEF G_Kill, G_Free, G_Forget, Names, CleansOwn
    <3>. QED BY <1>1, <3>1, <3>2 DEF Names, CleansOwn, TookSlot
  <2>. QED BY <2>1, <2>2, <2>3, <2>4
           DEF collect, G_Check, G_Owned, G_Read, G_Kill, G_Free, G_Forget, G_Clear
<1>. QED BY <1>3, <1>4 DEF Names

LEMMA NextNames == ASSUME TypeOK, Names, [Next]_vars PROVE Names'
<1>1. CASE UNCHANGED vars
  BY <1>1 DEF vars, slot, Names, NameRight, CleansOwn, TookSlot
<1>. QED BY <1>1, ProcessNames, CollectNames DEF Next

(* A process is named in one slot at most.                                 *)
NamedOnce == \A i, j \in Sockets :
  process_id[i] = process_id[j] /\ process_id[i] # NoPid => i = j

(* What thread_g cleans (is_free, process_id, the counts) was taken by a   *)
(* process that has died since.                                            *)
CleansAfterDeath == thread_g.at \in {"free", "forget", "clear"} =>
  \E p \in Procs : ~alive[p] /\ TookSlot(p, thread_g.i)

(* Without locks, and wherever processes crash: a process never owns two   *)
(* slots by name, and thread_g cleans a slot only after a process that     *)
(* took this slot is dead (ksocket.c, line 600: check, kill and cleanup    *)
(* are separate).  It may be cleaned too late, when it is in use again.    *)
THEOREM CleansOnlyTheirs == Spec => [](NamedOnce /\ CleansAfterDeath)
<1>1. Init => TypeOK /\ Names
  BY InitTypeOK, InitNames
<1>2. TypeOK /\ Names /\ [Next]_vars => (TypeOK /\ Names)'
  BY NextTypeOK, NextNames
<1>3. TypeOK /\ Names => NamedOnce
  BY DEF NamedOnce, Names, NameRight, TookSlot
<1>4. TypeOK /\ Names => CleansAfterDeath
  <2>. SUFFICES ASSUME TypeOK, Names, thread_g.at \in {"free", "forget", "clear"}
                PROVE  \E p \in Procs : ~alive[p] /\ TookSlot(p, thread_g.i)
    BY DEF CleansAfterDeath
  <2>1. thread_g.pid \in Procs /\ ~alive[thread_g.pid] /\ TookSlot(thread_g.pid, thread_g.i)
    BY DEF Names, CleansOwn, TypeOK
  <2>. QED BY <2>1
<1>. QED BY <1>1, <1>2, <1>3, <1>4, PTL DEF Spec
=============================================================================
