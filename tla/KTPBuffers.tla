----------------------------- MODULE KTPBuffers -----------------------------
(***************************************************************************)
(* One message array of a KTP socket and its count, in the shared segment  *)
(* of Assignment_4, one access at a time.  The code has three of them,     *)
(* filled and emptied by different threads in the same way and without a   *)
(* lock:                                                                   *)
(*   array          filled by                 emptied by                   *)
(*   send_buffer    k_sendto                  thread_s                     *)
(*   swnd.messages  thread_s                  thread_r (acknowledgement)   *)
(*   recv_buffer    thread_r (delivery)       k_recvfrom                   *)
(* A message is copied in one step.                                        *)
(***************************************************************************)
EXTENDS Integers, Sequences

CONSTANTS
  WINDOW_SIZE,   \* the size of the array
  MaxMessages,   \* bound: messages that are put in
  ClosedBy,      \* whose process calls k_close: "filler" or "emptier"
  MaxCloses      \* bound: how often

ASSUME BuffersAssumption ==
  /\ WINDOW_SIZE \in Nat \ {0}
  /\ MaxMessages \in Nat
  /\ MaxCloses \in Nat
  /\ ClosedBy \in {"filler", "emptier"}

Cells == 0 .. WINDOW_SIZE - 1
Unset == 0                                \* the memory before the first use
Message == 1 .. MaxMessages               \* messages in the order they come

VARIABLES
  cells, count,      \* the array and its count
  fill,              \* [at, idx, stored, counted]: the filling thread
  empty,             \* [at, msg, j, n]: the emptying thread
  put, taken,        \* number of messages put in, and those handed out
  closes,
  overlapped         \* history: two of the calls were under way at once

vars == <<cells, count, fill, empty, put, taken, closes, overlapped>>

FillIdle  == [at |-> "idle", idx |-> 0, stored |-> FALSE, counted |-> FALSE]
EmptyIdle == [at |-> "idle", msg |-> Unset, j |-> 0, n |-> 0]

Init ==
  /\ cells  = [k \in Cells |-> Unset]
  /\ count  = 0
  /\ fill   = FillIdle
  /\ empty  = EmptyIdle
  /\ put    = 0
  /\ taken  = <<>>
  /\ closes = 0
  /\ overlapped = FALSE
-----------------------------------------------------------------------------
(* Filling: the count is checked, read as the index, and then increased;   *)
(* in buffer[count++] = msg the message or the new count may be written    *)
(* first, in swnd, where size++ is a statement of its own, the count is    *)
(* read once more behind the message.                                      *)
RoomForOneMore == count <= WINDOW_SIZE                           \* mutant
Room           == count < WINDOW_SIZE

FillCheck ==
  /\ fill.at = "idle"
  /\ put < MaxMessages
  /\ Room
  /\ fill' = [fill EXCEPT !.at = "read"]
  /\ overlapped' = (overlapped \/ empty.at # "idle")
  /\ UNCHANGED <<cells, count, empty, put, taken, closes>>

FillRead ==
  /\ fill.at = "read"
  /\ fill' = [fill EXCEPT !.at = "write", !.idx = count]
  /\ UNCHANGED <<cells, count, empty, put, taken, closes, overlapped>>

FillStore ==
  /\ fill.at = "write"
  /\ ~fill.stored
  /\ cells' = [cells EXCEPT ![fill.idx] = put + 1]
  /\ fill' = [fill EXCEPT !.stored = TRUE]
  /\ UNCHANGED <<count, empty, put, taken, closes, overlapped>>

FillReread ==
  /\ fill.at = "write"
  /\ fill.stored /\ ~fill.counted
  /\ fill' = [fill EXCEPT !.at = "count", !.idx = count]
  /\ UNCHANGED <<cells, count, empty, put, taken, closes, overlapped>>

FillCount ==
  /\ fill.at \in {"write", "count"}
  /\ ~fill.counted
  /\ count' = fill.idx + 1
  /\ fill' = [fill EXCEPT !.counted = TRUE]
  /\ UNCHANGED <<cells, empty, put, taken, closes, overlapped>>

FillDone ==
  /\ fill.stored /\ fill.counted
  /\ fill' = FillIdle
  /\ put' = put + 1
  /\ UNCHANGED <<cells, count, empty, taken, closes, overlapped>>
-----------------------------------------------------------------------------
(* Emptying: the first message is taken, the others move up one by one     *)
(* while the loop reads the count again, then the count is decreased.      *)
NotNegative == count >= 0                                        \* mutant
NotEmpty    == count > 0

EmptyCheck ==
  /\ empty.at = "idle"
  /\ NotEmpty
  /\ empty' = [empty EXCEPT !.at = "take"]
  /\ overlapped' = (overlapped \/ fill.at # "idle")
  /\ UNCHANGED <<cells, count, fill, put, taken, closes>>

EmptyTake ==
  /\ empty.at = "take"
  /\ empty' = [empty EXCEPT !.at = "shift", !.msg = cells[0], !.j = 1]
  /\ taken' = Append(taken, cells[0])
  /\ UNCHANGED <<cells, count, fill, put, closes, overlapped>>

StopsEarly(j) == j + 1 < count                                   \* mutant
MoreToMove(j) == j < count

EmptyShift ==
  /\ empty.at = "shift"
  /\ MoreToMove(empty.j)
  /\ cells' = [cells EXCEPT ![empty.j - 1] = cells[empty.j]]
  /\ empty' = [empty EXCEPT !.j = @ + 1]
  /\ UNCHANGED <<count, fill, put, taken, closes, overlapped>>

EmptyShifted ==
  /\ empty.at = "shift"
  /\ ~MoreToMove(empty.j)
  /\ empty' = [empty EXCEPT !.at = "read"]
  /\ UNCHANGED <<cells, count, fill, put, taken, closes, overlapped>>

EmptyRead ==
  /\ empty.at = "read"
  /\ empty' = [empty EXCEPT !.at = "count", !.n = count]
  /\ UNCHANGED <<cells, count, fill, put, taken, closes, overlapped>>

EmptyCount ==
  /\ empty.at = "count"
  /\ count' = empty.n - 1
  /\ empty' = EmptyIdle
  /\ UNCHANGED <<cells, fill, put, taken, closes, overlapped>>
-----------------------------------------------------------------------------
(* k_close sets the count to zero; the process that calls it is between    *)
(* two of its own calls (k_sendto for send_buffer, k_recvfrom for          *)
(* recv_buffer; swnd belongs to the threads).                              *)
k_close ==
  /\ closes < MaxCloses
  /\ ClosedBy = "filler"  => fill.at = "idle"
  /\ ClosedBy = "emptier" => empty.at = "idle"
  /\ count' = 0
  /\ closes' = closes + 1
  /\ overlapped' = (overlapped \/ fill.at # "idle" \/ empty.at # "idle")
  /\ UNCHANGED <<cells, fill, empty, put, taken>>

Fill  == FillCheck \/ FillRead \/ FillStore \/ FillReread \/ FillCount \/ FillDone
Empty == EmptyCheck \/ EmptyTake \/ EmptyShift \/ EmptyShifted \/ EmptyRead \/ EmptyCount

Next == Fill \/ Empty \/ k_close
Spec == Init /\ [][Next]_vars
-----------------------------------------------------------------------------
(* Type invariant: the array, its count and the local variables of the two *)
(* threads.                                                                *)
TypeOK ==
  /\ cells \in [Cells -> Message \cup {Unset}]
  /\ count \in Nat
  /\ fill  \in [at : {"idle", "read", "write", "count"}, idx : Nat,
                stored : BOOLEAN, counted : BOOLEAN]
  /\ empty \in [at : {"idle", "take", "shift", "read", "count"},
                msg : Message \cup {Unset}, j : Nat, n : Nat]
  /\ put   \in 0 .. MaxMessages
  /\ taken \in Seq(Message \cup {Unset})
  /\ closes \in 0 .. MaxCloses
  /\ overlapped \in BOOLEAN

(* However the two threads interleave, neither indexes the array outside   *)
(* its elements: the count stays between 0 and WINDOW_SIZE.                *)
IndexInBounds ==
  /\ count \in 0 .. WINDOW_SIZE
  /\ fill.at = "write" /\ ~fill.stored => fill.idx \in Cells
  /\ empty.at = "shift" /\ empty.j < count => empty.j \in Cells

(* As long as no two of the calls have overlapped, the array is a queue:   *)
(* what KTP takes for one step is one Put, Take or Clear of Fifo.  A       *)
(* message is inside once FillDone ends the call, and outside once         *)
(* EmptyTake has read it.                                                  *)
Removing == empty.at \in {"shift", "read", "count"}
Filled   == fill.counted                  \* the count includes a new message
Inside ==
  LET moved == IF Removing THEN empty.j - 1 ELSE 0
      size  == IF Filled THEN count - 1 ELSE count
  IN  IF Removing
      THEN [k \in 1 .. size - 1 |->
              IF k <= moved THEN cells[k - 1] ELSE cells[k]]
      ELSE [k \in 1 .. size |-> cells[k - 1]]

Queue == INSTANCE Fifo WITH Capacity <- WINDOW_SIZE, queue <- Inside
QueueSpec ==
  Queue!Init /\ [][~overlapped' => Queue!Next \/ UNCHANGED <<Inside, taken>>]_vars

-----------------------------------------------------------------------------
(* Claims of comments and documents that the code does not keep.  Where no *)
(* run shows it, README.md names the instance and the counterexample.      *)

(* No message is taken twice, out of order or without having been put in.  *)
TakenInOrder == \A k \in DOMAIN taken : taken[k] = k
=============================================================================
