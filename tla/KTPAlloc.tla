------------------------------ MODULE KTPAlloc ------------------------------
(***************************************************************************)
(* The life of a socket slot of Assignment_4 (ksocket.c), one access to    *)
(* the shared segment at a time: k_socket takes a slot, k_sendto counts a  *)
(* message in it, k_close gives it back, and thread_g collects the slots   *)
(* of dead processes.  No lock protects the slots.                         *)
(***************************************************************************)
EXTENDS Integers

CONSTANTS
  Procs,         \* the user processes, each running its program once
  MAX_SOCKETS,   \* ksocket.h:16
  MaxSends,      \* bound: messages that each process sends
  MaxCrashes     \* bound: processes that die without k_close

Sockets == 0 .. MAX_SOCKETS - 1
NoPid   == 0                                   \* process_id of a free slot

ASSUME AllocAssumption ==
  /\ NoPid \notin Procs
  /\ MAX_SOCKETS \in Nat \ {0}
  /\ MaxSends \in [Procs -> Nat]
  /\ MaxCrashes \in Nat

VARIABLES
  is_free, process_id, send_count,   \* of each slot
  pc, sockfd,                        \* of each process: where it is, its slot
  alive,                             \* what kill(pid, 0) finds
  sent,                              \* messages queued by each process
  crashes,
  thread_g                           \* [at, i, pid]: the collector

slot == <<is_free, process_id, send_count>>
vars == <<slot, pc, sockfd, alive, sent, crashes, thread_g>>

InSocket == {"check", "claim", "pid", "reset"}                \* k_socket
InClose  == {"free", "forget", "clear"}                       \* k_close
Finished == {"refused", "done"}
Steps    == {"new", "open"} \cup InSocket \cup InClose \cup Finished

Init ==
  /\ is_free    = [i \in Sockets |-> TRUE]
  /\ process_id = [i \in Sockets |-> NoPid]
  /\ send_count = [i \in Sockets |-> 0]
  /\ pc         = [p \in Procs |-> "new"]
  /\ sockfd     = [p \in Procs |-> 0]
  /\ alive      = [p \in Procs |-> TRUE]
  /\ sent       = [p \in Procs |-> 0]
  /\ crashes    = 0
  /\ thread_g   = [at |-> "check", i |-> 0, pid |-> NoPid]

Goto(p, step) == pc' = [pc EXCEPT ![p] = step]
-----------------------------------------------------------------------------
(* k_socket: the first slot whose is_free is read as set is claimed, named *)
(* and reset, in three separate writes.                                    *)
Start(p) ==
  /\ alive[p] /\ pc[p] = "new"
  /\ Goto(p, "check")
  /\ UNCHANGED <<slot, sockfd, alive, sent, crashes, thread_g>>

SocketCheck(p) ==
  /\ alive[p] /\ pc[p] = "check"
  /\ \/ /\ is_free[sockfd[p]]
        /\ Goto(p, "claim")
        /\ UNCHANGED <<sockfd, alive>>
     \/ /\ ~is_free[sockfd[p]]
        /\ sockfd[p] + 1 < MAX_SOCKETS
        /\ sockfd' = [sockfd EXCEPT ![p] = @ + 1]
        /\ UNCHANGED <<pc, alive>>
     \/ /\ ~is_free[sockfd[p]]
        /\ sockfd[p] + 1 = MAX_SOCKETS
        /\ Goto(p, "refused")
        /\ alive' = [alive EXCEPT ![p] = FALSE]
        /\ UNCHANGED sockfd
  /\ UNCHANGED <<slot, sent, crashes, thread_g>>

ClaimAndLoopOn(p) ==                                             \* mutant
  /\ alive[p] /\ pc[p] = "claim"
  /\ is_free' = [is_free EXCEPT ![sockfd[p]] = FALSE]
  /\ IF sockfd[p] + 1 < MAX_SOCKETS
     THEN Goto(p, "check") /\ sockfd' = [sockfd EXCEPT ![p] = @ + 1]
     ELSE Goto(p, "pid") /\ UNCHANGED sockfd
  /\ UNCHANGED <<process_id, send_count, alive, sent, crashes, thread_g>>
SocketClaim(p) ==
  /\ alive[p] /\ pc[p] = "claim"
  /\ is_free' = [is_free EXCEPT ![sockfd[p]] = FALSE]
  /\ Goto(p, "pid")
  /\ UNCHANGED <<process_id, send_count, sockfd, alive, sent, crashes, thread_g>>

SocketPid(p) ==
  /\ alive[p] /\ pc[p] = "pid"
  /\ process_id' = [process_id EXCEPT ![sockfd[p]] = p]
  /\ Goto(p, "reset")
  /\ UNCHANGED <<is_free, send_count, sockfd, alive, sent, crashes, thread_g>>

(* The windows are reset; send_count and recv_count are not.               *)
SocketReset(p) ==
  /\ alive[p] /\ pc[p] = "reset"
  /\ Goto(p, "open")
  /\ UNCHANGED <<slot, sockfd, alive, sent, crashes, thread_g>>

(* k_sendto, as far as it counts a message; it is refused (ENOTBOUND) when *)
(* somebody else has set is_free.                                          *)
k_sendto(p) ==
  /\ alive[p] /\ pc[p] = "open"
  /\ ~is_free[sockfd[p]]
  /\ sent[p] < MaxSends[p]
  /\ send_count' = [send_count EXCEPT ![sockfd[p]] = @ + 1]
  /\ sent' = [sent EXCEPT ![p] = @ + 1]
  /\ UNCHANGED <<is_free, process_id, pc, sockfd, alive, crashes, thread_g>>

(* k_close: the check, then three writes; the process exits afterwards.    *)
CloseCheck(p) ==
  /\ alive[p] /\ pc[p] = "open"
  /\ \/ /\ ~is_free[sockfd[p]]
        /\ Goto(p, "free")
        /\ UNCHANGED alive
     \/ /\ is_free[sockfd[p]]
        /\ Goto(p, "done")
        /\ alive' = [alive EXCEPT ![p] = FALSE]
  /\ UNCHANGED <<slot, sockfd, sent, crashes, thread_g>>

CloseFree(p) ==
  /\ alive[p] /\ pc[p] = "free"
  /\ is_free' = [is_free EXCEPT ![sockfd[p]] = TRUE]
  /\ Goto(p, "forget")
  /\ UNCHANGED <<process_id, send_count, sockfd, alive, sent, crashes, thread_g>>

CloseForget(p) ==
  /\ alive[p] /\ pc[p] = "forget"
  /\ process_id' = [process_id EXCEPT ![sockfd[p]] = NoPid]
  /\ Goto(p, "clear")
  /\ UNCHANGED <<is_free, send_count, sockfd, alive, sent, crashes, thread_g>>

CloseClear(p) ==
  /\ alive[p] /\ pc[p] = "clear"
  /\ send_count' = [send_count EXCEPT ![sockfd[p]] = 0]
  /\ Goto(p, "done")
  /\ alive' = [alive EXCEPT ![p] = FALSE]
  /\ UNCHANGED <<is_free, process_id, sockfd, sent, crashes, thread_g>>

(* The process dies where it is.                                           *)
Crash(p) ==
  /\ alive[p] /\ pc[p] # "new"
  /\ crashes < MaxCrashes
  /\ alive' = [alive EXCEPT ![p] = FALSE]
  /\ crashes' = crashes + 1
  /\ UNCHANGED <<slot, pc, sockfd, sent, thread_g>>
-----------------------------------------------------------------------------
(* thread_g: for each slot the two checks, the argument of kill and its    *)
(* answer are separate, and so are the writes of the cleanup.              *)
StuckOnFirst(i) == 0                                             \* mutant
NextSlot(i)     == (i + 1) % MAX_SOCKETS
MoveOn == thread_g' = [at |-> "check", i |-> NextSlot(thread_g.i), pid |-> NoPid]
GoOn(step) == thread_g' = [thread_g EXCEPT !.at = step]

G_Check ==
  /\ thread_g.at = "check"
  /\ IF is_free[thread_g.i] THEN MoveOn ELSE GoOn("owned")
  /\ UNCHANGED <<slot, pc, sockfd, alive, sent, crashes>>

G_Owned ==
  /\ thread_g.at = "owned"
  /\ IF process_id[thread_g.i] = NoPid THEN MoveOn ELSE GoOn("read")
  /\ UNCHANGED <<slot, pc, sockfd, alive, sent, crashes>>

G_Read ==
  /\ thread_g.at = "read"
  /\ thread_g' = [thread_g EXCEPT !.at = "kill", !.pid = process_id[thread_g.i]]
  /\ UNCHANGED <<slot, pc, sockfd, alive, sent, crashes>>

(* kill(0, 0) addresses the daemon's own process group and succeeds.       *)
G_Kill ==
  /\ thread_g.at = "kill"
  /\ IF thread_g.pid # NoPid /\ ~alive[thread_g.pid] THEN GoOn("free") ELSE MoveOn
  /\ UNCHANGED <<slot, pc, sockfd, alive, sent, crashes>>

G_Free ==
  /\ thread_g.at = "free"
  /\ is_free' = [is_free EXCEPT ![thread_g.i] = TRUE]
  /\ GoOn("forget")
  /\ UNCHANGED <<process_id, send_count, pc, sockfd, alive, sent, crashes>>

G_Forget ==
  /\ thread_g.at = "forget"
  /\ process_id' = [process_id EXCEPT ![thread_g.i] = NoPid]
  /\ GoOn("clear")
  /\ UNCHANGED <<is_free, send_count, pc, sockfd, alive, sent, crashes>>

G_Clear ==
  /\ thread_g.at = "clear"
  /\ send_count' = [send_count EXCEPT ![thread_g.i] = 0]
  /\ MoveOn
  /\ UNCHANGED <<is_free, process_id, pc, sockfd, alive, sent, crashes>>
-----------------------------------------------------------------------------
k_socket(p) == SocketCheck(p) \/ SocketClaim(p) \/ SocketPid(p) \/ SocketReset(p)
k_close(p)  == CloseCheck(p) \/ CloseFree(p) \/ CloseForget(p) \/ CloseClear(p)
collect     == G_Check \/ G_Owned \/ G_Read \/ G_Kill \/ G_Free \/ G_Forget \/ G_Clear

Next ==
  \/ \E p \in Procs :
       Start(p) \/ k_socket(p) \/ k_sendto(p) \/ k_close(p) \/ Crash(p)
  \/ collect

Spec == Init /\ [][Next]_vars

(* The daemon loops for ever.  Nothing is assumed of the processes: one    *)
(* that stalls between two accesses for good is among the behaviours.      *)
FairSpec == Spec /\ WF_vars(collect)
-----------------------------------------------------------------------------
(* Type invariant: the fields of the slots, the processes and the          *)
(* collector have the types of the code.                                   *)
TypeOK ==
  /\ is_free    \in [Sockets -> BOOLEAN]
  /\ process_id \in [Sockets -> Procs \cup {NoPid}]
  /\ send_count \in [Sockets -> Nat]
  /\ pc         \in [Procs -> Steps]
  /\ sockfd     \in [Procs -> Sockets]
  /\ alive      \in [Procs -> BOOLEAN]
  /\ sent       \in [Procs -> Nat]
  /\ crashes    \in Nat
  /\ thread_g   \in [at  : {"check", "owned", "read", "kill", "free", "forget", "clear"},
                     i   : Sockets,
                     pid : Procs \cup {NoPid}]

(* A slot marked in use is always accounted for: some process has claimed  *)
(* it and has not yet given it back in k_close, or died in between.  This  *)
(* holds although claims, closes and collections race without a lock, so   *)
(* only a crash can leave a slot allocated for good.                       *)
Holds(p, i)  == sockfd[p] = i /\ pc[p] \in {"pid", "reset", "open", "free"}
InUseHasUser == \A i \in Sockets : ~is_free[i] => \E p \in Procs : Holds(p, i)

(* A slot whose recorded owner is dead does not stay that way: thread_g    *)
(* frees it, or a living process takes it over, whatever the processes do  *)
(* to the slot between the collector's checks and its writes.              *)
OwnerDead(i) == ~is_free[i] /\ process_id[i] # NoPid /\ ~alive[process_id[i]]
DeadOwnersCollected == \A i \in Sockets : OwnerDead(i) ~> ~OwnerDead(i)

-----------------------------------------------------------------------------
(* Claims of comments and documents that the code does not keep.  Where no *)
(* run shows it, README.md names the instance and the counterexample.      *)

(* A slot has one owner at a time.                                         *)
OneOwner ==
  \A p, q \in Procs : \A i \in Sockets :
    p # q /\ alive[p] /\ alive[q] /\ Holds(p, i) => ~Holds(q, i)

(* thread_g frees the slots of dead processes only.                        *)
Live(i) == \E p \in Procs : alive[p] /\ Holds(p, i)
CollectsOnlyDead == [][G_Free => ~Live(thread_g.i)]_vars

(* What a slot with one owner counts as queued is what this owner queued.   *)
OwnMessagesKept ==
  \A p \in Procs :
    /\ alive[p] /\ pc[p] = "open"
    /\ \A q \in Procs \ {p} : ~Holds(q, sockfd[p])
    => send_count[sockfd[p]] = sent[p]

(* A process that died between two calls does not keep its slot for ever.  *)
Abandoned(i) == ~is_free[i] /\ ~\E p \in Procs : alive[p] /\ sockfd[p] = i
AbandonedCollected == \A i \in Sockets : Abandoned(i) ~> ~Abandoned(i)
=============================================================================
