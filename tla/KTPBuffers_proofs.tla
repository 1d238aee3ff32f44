------------------------- MODULE KTPBuffers_proofs -------------------------
(***************************************************************************)
(* The indices of a message array stay in bounds under every interleaving  *)
(* of its two threads, for every window size and number of messages, as    *)
(* long as only the emptying thread's process may close the socket; and    *)
(* until two calls overlap, whoever closes it, the array is a queue.       *)
(***************************************************************************)
EXTENDS KTPBuffers, TLAPS

(* Why the races are harmless for the indices: only filling increases the  *)
(* count and only emptying decreases it, so a filler that has seen room    *)
(* still has it, and an emptier that has seen a message can still take 1   *)
(* off whatever the count has become.                                      *)
Bounds ==
  /\ count \in 0 .. WINDOW_SIZE
  /\ fill.at = "read" => count < WINDOW_SIZE
  /\ fill.at = "write" /\ ~fill.counted => count < WINDOW_SIZE
  /\ fill.at \in {"write", "count"} => fill.idx \in Cells
  /\ empty.at \in {"take", "shift", "read"} => count > 0
  /\ empty.at = "count" => empty.n \in 1 .. WINDOW_SIZE
  /\ empty.at = "shift" => empty.j > 0
  /\ fill.at \in {"idle", "read"} => ~fill.counted
  /\ fill.at # "idle" => put < MaxMessages

LEMMA InitSafe == ASSUME Init PROVE TypeOK /\ Bounds
<1> USE BuffersAssumption DEF Init
<1>1. fill = FillIdle /\ empty = EmptyIdle /\ count = 0 /\ put = 0
  OBVIOUS
<1>2. TypeOK
  <2>1. /\ cells \in [Cells -> Message \cup {Unset}]
        /\ count \in Nat
        /\ put   \in 0 .. MaxMessages
        /\ taken \in Seq(Message \cup {Unset})
        /\ closes \in 0 .. MaxCloses
    BY DEF Unset
  <2>2. fill \in [at : {"idle", "read", "write", "count"}, idx : Nat,
                  stored : BOOLEAN, counted : BOOLEAN]
    BY <1>1 DEF FillIdle
  <2>3. empty \in [at : {"idle", "take", "shift", "read", "count"},
                   msg : Message \cup {Unset}, j : Nat, n : Nat]
    BY <1>1 DEF EmptyIdle
  <2>4. overlapped \in BOOLEAN
    OBVIOUS
  <2> QED BY <2>1, <2>2, <2>3, <2>4 DEF TypeOK
<1>3. Bounds
  BY <1>1 DEF Bounds, FillIdle, EmptyIdle, Cells
<1> QED BY <1>2, <1>3

LEMMA FillSafe ==
  ASSUME TypeOK, Bounds, Fill
  PROVE  TypeOK' /\ Bounds'
<1> USE BuffersAssumption DEF TypeOK, Bounds, Cells
<1>1. CASE FillCheck
  <2>1. /\ fill'.at = "read" /\ fill'.idx = fill.idx
        /\ fill'.stored = fill.stored /\ fill'.counted = fill.counted
    BY <1>1 DEF FillCheck
  <2>2. TypeOK'
    BY <1>1, <2>1 DEF FillCheck, Room
  <2>3. Bounds'
    BY <1>1, <2>1 DEF FillCheck, Room
  <2> QED BY <2>2, <2>3
<1>2. CASE FillRead
  <2>1. /\ fill'.at = "write" /\ fill'.idx = count
        /\ fill'.stored = fill.stored /\ fill'.counted = fill.counted
    BY <1>2 DEF FillRead
  <2>2. TypeOK'
    BY <1>2, <2>1 DEF FillRead
  <2>3. Bounds'
    BY <1>2, <2>1 DEF FillRead
  <2> QED BY <2>2, <2>3
<1>3. CASE FillStore
  <2>1. /\ fill'.at = fill.at /\ fill'.idx = fill.idx
        /\ fill'.stored = TRUE /\ fill'.counted = fill.counted
    BY <1>3 DEF FillStore
  <2>2. TypeOK'
    <3>1. put + 1 \in Message
      BY <1>3 DEF FillStore, Message
    <3> QED BY <1>3, <2>1, <3>1 DEF FillStore
  <2>3. Bounds'
    BY <1>3, <2>1 DEF FillStore, Message
  <2> QED BY <2>2, <2>3
<1>4. CASE FillReread
  <2>1. /\ fill'.at = "count" /\ fill'.idx = count
        /\ fill'.stored = fill.stored /\ fill'.counted = fill.counted
    BY <1>4 DEF FillReread
  <2>2. TypeOK'
    BY <1>4, <2>1 DEF FillReread
  <2>3. Bounds'
    BY <1>4, <2>1 DEF FillReread
  <2> QED BY <2>2, <2>3
<1>5. CASE FillCount
  <2>1. /\ fill'.at = fill.at /\ fill'.idx = fill.idx
        /\ fill'.stored = fill.stored /\ fill'.counted = TRUE
    BY <1>5 DEF FillCount
  <2>2. TypeOK'
    <3>1. count' \in Nat
      BY <1>5 DEF FillCount
    <3> QED BY <1>5, <2>1, <3>1 DEF FillCount
  <2>3. Bounds'
    BY <1>5, <2>1 DEF FillCount
  <2> QED BY <2>2, <2>3
<1>6. CASE FillDone
  <2>1. /\ fill'.at = "idle" /\ fill'.idx = 0
        /\ fill'.stored = FALSE /\ fill'.counted = FALSE
    BY <1>6 DEF FillDone, FillIdle
  <2>2. TypeOK'
    <3>1. fill.at # "idle" /\ put' = put + 1
      BY <1>6 DEF FillDone
    <3>2. put' \in 0 .. MaxMessages
      BY <3>1
    <3> QED BY <1>6, <2>1, <3>2 DEF FillDone, FillIdle
  <2>3. Bounds'
    BY <1>6, <2>1 DEF FillDone
  <2> QED BY <2>2, <2>3
<1> QED
  BY <1>1, <1>2, <1>3, <1>4, <1>5, <1>6 DEF Fill

LEMMA EmptySafe ==
  ASSUME TypeOK, Bounds, Empty
  PROVE  TypeOK' /\ Bounds'
<1> USE BuffersAssumption DEF TypeOK, Bounds, Cells
<1>1. CASE EmptyCheck
  <2>1. /\ empty'.at = "take" /\ empty'.msg = empty.msg
        /\ empty'.j = empty.j /\ empty'.n = empty.n
    BY <1>1 DEF EmptyCheck
  <2>2. TypeOK'
    BY <1>1, <2>1 DEF EmptyCheck, NotEmpty
  <2>3. Bounds'
    BY <1>1, <2>1 DEF EmptyCheck, NotEmpty
  <2> QED BY <2>2, <2>3
<1>2. CASE EmptyTake
  <2>1. /\ empty'.at = "shift" /\ empty'.msg = cells[0]
        /\ empty'.j = 1 /\ empty'.n = empty.n
    BY <1>2 DEF EmptyTake
  <2>2. TypeOK'
    <3>1. cells[0] \in Message \cup {Unset}
      OBVIOUS
    <3>2. taken' \in Seq(Message \cup {Unset})
      BY <1>2, <3>1 DEF EmptyTake
    <3> QED BY <1>2, <2>1, <3>1, <3>2 DEF EmptyTake
  <2>3. Bounds'
    BY <1>2, <2>1 DEF EmptyTake
  <2> QED BY <2>2, <2>3
<1>3. CASE EmptyShift
  <2>1. /\ empty'.at = "shift" /\ empty'.msg = empty.msg
        /\ empty'.j = empty.j + 1 /\ empty'.n = empty.n
    BY <1>3 DEF EmptyShift
  <2>2. TypeOK'
    <3>1. empty.j \in Cells /\ empty.j - 1 \in Cells
      BY <1>3 DEF EmptyShift, MoreToMove
    <3>2. cells' \in [Cells -> Message \cup {Unset}]
      BY <1>3, <3>1 DEF EmptyShift
    <3>3. empty' \in [at : {"idle", "take", "shift", "read", "count"},
                     msg : Message \cup {Unset}, j : Nat, n : Nat]
      <4>1. empty' = [empty EXCEPT !.j = @ + 1] /\ empty.j + 1 \in Nat
        BY <1>3 DEF EmptyShift
      <4> QED BY <4>1
    <3> QED BY <1>3, <3>2, <3>3 DEF EmptyShift
  <2>3. Bounds'
    BY <1>3, <2>1 DEF EmptyShift, MoreToMove
  <2> QED BY <2>2, <2>3
<1>4. CASE EmptyShifted
  <2>1. /\ empty'.at = "read" /\ empty'.msg = empty.msg
        /\ empty'.j = empty.j /\ empty'.n = empty.n
    BY <1>4 DEF EmptyShifted
  <2>2. TypeOK'
    BY <1>4, <2>1 DEF EmptyShifted
  <2>3. Bounds'
    BY <1>4, <2>1 DEF EmptyShifted
  <2> QED BY <2>2, <2>3
<1>5. CASE EmptyRead
  <2>1. /\ empty'.at = "count" /\ empty'.msg = empty.msg
        /\ empty'.j = empty.j /\ empty'.n = count
    BY <1>5 DEF EmptyRead
  <2>2. TypeOK'
    BY <1>5, <2>1 DEF EmptyRead
  <2>3. Bounds'
    BY <1>5, <2>1 DEF EmptyRead
  <2> QED BY <2>2, <2>3
<1>6. CASE EmptyCount
  <2>1. /\ empty'.at = "idle" /\ empty'.msg = Unset
        /\ empty'.j = 0 /\ empty'.n = 0
    BY <1>6 DEF EmptyCount, EmptyIdle
  <2>2. TypeOK'
    <3>1. count' \in Nat
      BY <1>6 DEF EmptyCount
    <3>2. empty' \in [at : {"idle", "take", "shift", "read", "count"},
                     msg : Message \cup {Unset}, j : Nat, n : Nat]
      BY <1>6 DEF EmptyCount, EmptyIdle
    <3> QED BY <1>6, <3>1, <3>2 DEF EmptyCount
  <2>3. Bounds'
    BY <1>6, <2>1 DEF EmptyCount, Unset
  <2> QED BY <2>2, <2>3
<1> QED
  BY <1>1, <1>2, <1>3, <1>4, <1>5, <1>6 DEF Empty

LEMMA CloseSafe ==
  ASSUME TypeOK, Bounds, k_close, ClosedBy = "emptier"
  PROVE  TypeOK' /\ Bounds'
BY BuffersAssumption DEF TypeOK, Bounds, Cells, k_close

(* Neither thread ever indexes the array outside its elements when the     *)
(* process that empties it (k_recvfrom on recv_buffer) is the one that     *)
(* closes the socket.                                                      *)
THEOREM InBounds ==
  ASSUME ClosedBy = "emptier"
  PROVE  Spec => [](TypeOK /\ IndexInBounds)
<1>1. Init => TypeOK /\ Bounds
  BY InitSafe
<1>2. TypeOK /\ Bounds /\ [Next]_vars => (TypeOK /\ Bounds)'
  <2>1. TypeOK /\ Bounds /\ UNCHANGED vars => (TypeOK /\ Bounds)'
    BY DEF vars, TypeOK, Bounds
  <2> QED BY <2>1, FillSafe, EmptySafe, CloseSafe DEF Next
<1>3. TypeOK /\ Bounds => IndexInBounds
  BY BuffersAssumption DEF TypeOK, Bounds, IndexInBounds, Cells
<1> QED
  BY <1>1, <1>2, <1>3, PTL DEF Spec

(* Every variable keeps its type under the same condition: a count below   *)
(* zero would not be one of Nat.                                           *)
THEOREM TypeCorrect == ASSUME ClosedBy = "emptier" PROVE Spec => []TypeOK
BY InBounds, PTL
-----------------------------------------------------------------------------
(* How far out of bounds the filling side can get when its own process     *)
(* closes the socket (k_sendto on send_buffer): k_close may zero the count *)
(* that the emptying thread has found positive, so that it takes 1 off 0.  *)
(* The filler then writes one element before the array and counts it up to *)
(* 0 again; the emptier, which starts only above 0, never sees the -1.     *)
NearTypes ==
  /\ cells \in [Cells -> Message \cup {Unset}]
  /\ fill  \in [at : {"idle", "read", "write", "count"}, idx : Int,
                stored : BOOLEAN, counted : BOOLEAN]
  /\ empty \in [at : {"idle", "take", "shift", "read", "count"},
                msg : Message \cup {Unset}, j : Nat, n : Int]
  /\ put   \in 0 .. MaxMessages

Near ==
  /\ count \in -1 .. WINDOW_SIZE
  /\ fill.at = "read" => count < WINDOW_SIZE
  /\ fill.at = "write" /\ ~fill.counted => count < WINDOW_SIZE
  /\ fill.at \in {"write", "count"} => fill.idx \in -1 .. WINDOW_SIZE - 1
  /\ fill.at \in {"idle", "read"} => ~fill.counted
  /\ fill.at # "idle" => put < MaxMessages
  /\ empty.at \in {"take", "shift", "read"} => count >= 0
  /\ empty.at = "count" => empty.n \in 0 .. WINDOW_SIZE
  /\ empty.at = "shift" => empty.j > 0

LEMMA InitNear == ASSUME Init PROVE NearTypes /\ Near
<1>1. TypeOK /\ Bounds
  BY InitSafe
<1>2. fill = FillIdle /\ empty = EmptyIdle
  BY DEF Init
<1> QED BY <1>1, <1>2, BuffersAssumption
        DEF TypeOK, Bounds, NearTypes, Near, Cells, FillIdle, EmptyIdle

LEMMA FillNear == ASSUME NearTypes, Near, Fill PROVE NearTypes' /\ Near'
<1> USE BuffersAssumption DEF NearTypes, Near
<1>1. CASE FillCheck
  <2>1. /\ fill'.at = "read" /\ fill'.idx = fill.idx
        /\ fill'.stored = fill.stored /\ fill'.counted = fill.counted
    BY <1>1 DEF FillCheck
  <2> QED BY <1>1, <2>1 DEF FillCheck, Room
<1>2. CASE FillRead
  <2>0. count \in -1 .. WINDOW_SIZE /\ fill \in [at : {"idle", "read", "write", "count"}, idx : Int,
                     stored : BOOLEAN, counted : BOOLEAN]
    OBVIOUS
  <2>1. /\ fill'.at = "write" /\ fill'.idx = count
        /\ fill'.stored = fill.stored /\ fill'.counted = fill.counted
    BY <1>2 DEF FillRead
  <2>8. NearTypes'
    <3>1. count \in Int
      BY ONLY <2>0, BuffersAssumption
    <3>2. fill' = [fill EXCEPT !.at = "write", !.idx = count]
      BY <1>2 DEF FillRead
    <3>3. fill' \in [at : {"idle", "read", "write", "count"}, idx : Int,
                     stored : BOOLEAN, counted : BOOLEAN]
      BY ONLY <2>0, <3>1, <3>2
    <3> QED BY <1>2, <3>3 DEF FillRead
  <2>9. Near'
    BY <1>2, <2>1 DEF FillRead
  <2> QED BY <2>8, <2>9
<1>3. CASE FillStore
  <2>1. /\ fill'.at = fill.at /\ fill'.idx = fill.idx
        /\ fill'.stored = TRUE /\ fill'.counted = fill.counted
    BY <1>3 DEF FillStore
  <2>2. put + 1 \in Message
    BY <1>3 DEF FillStore, Message
  <2>3. cells' \in [Cells -> Message \cup {Unset}]
    BY <1>3, <2>2 DEF FillStore
  <2> QED BY <1>3, <2>1, <2>3 DEF FillStore
<1>4. CASE FillReread
  <2>0. count \in -1 .. WINDOW_SIZE /\ fill \in [at : {"idle", "read", "write", "count"}, idx : Int,
                     stored : BOOLEAN, counted : BOOLEAN]
    OBVIOUS
  <2>1. /\ fill'.at = "count" /\ fill'.idx = count
        /\ fill'.stored = fill.stored /\ fill'.counted = fill.counted
    BY <1>4 DEF FillReread
  <2>8. NearTypes'
    <3>1. count \in Int
      BY ONLY <2>0, BuffersAssumption
    <3>2. fill' = [fill EXCEPT !.at = "count", !.idx = count]
      BY <1>4 DEF FillReread
    <3>3. fill' \in [at : {"idle", "read", "write", "count"}, idx : Int,
                     stored : BOOLEAN, counted : BOOLEAN]
      BY ONLY <2>0, <3>1, <3>2
    <3> QED BY <1>4, <3>3 DEF FillReread
  <2>9. Near'
    BY <1>4, <2>1 DEF FillReread
  <2> QED BY <2>8, <2>9
<1>5. CASE FillCount
  <2>1. /\ fill'.at = fill.at /\ fill'.idx = fill.idx
        /\ fill'.stored = fill.stored /\ fill'.counted = TRUE
    BY <1>5 DEF FillCount
  <2>2. count' \in 0 .. WINDOW_SIZE
    BY <1>5 DEF FillCount
  <2>8. NearTypes'
    BY <1>5, <2>1, <2>2 DEF FillCount
  <2>9. Near'
    BY <1>5, <2>1, <2>2 DEF FillCount
  <2> QED BY <2>8, <2>9
<1>6. CASE FillDone
  <2>1. /\ fill'.at = "idle" /\ fill'.idx = 0
        /\ fill'.stored = FALSE /\ fill'.counted = FALSE
    BY <1>6 DEF FillDone, FillIdle
  <2>2. fill' = FillIdle /\ put' = put + 1 /\ put < MaxMessages
    BY <1>6 DEF FillDone
  <2> QED BY <1>6, <2>1, <2>2 DEF FillDone, FillIdle
<1> QED
  BY <1>1, <1>2, <1>3, <1>4, <1>5, <1>6 DEF Fill

LEMMA EmptyNear == ASSUME NearTypes, Near, Empty PROVE NearTypes' /\ Near'
<1> USE BuffersAssumption DEF NearTypes, Near
<1>1. CASE EmptyCheck
  <2>1. /\ empty'.at = "take" /\ empty'.msg = empty.msg
        /\ empty'.j = empty.j /\ empty'.n = empty.n
    BY <1>1 DEF EmptyCheck
  <2> QED BY <1>1, <2>1 DEF EmptyCheck, NotEmpty
<1>2. CASE EmptyTake
  <2>1. /\ empty'.at = "shift" /\ empty'.msg = cells[0]
        /\ empty'.j = 1 /\ empty'.n = empty.n
    BY <1>2 DEF EmptyTake
  <2>2. cells[0] \in Message \cup {Unset}
    BY DEF Cells
  <2>8. NearTypes'
    BY <1>2, <2>1, <2>2 DEF EmptyTake
  <2>9. Near'
    BY <1>2, <2>1, <2>2 DEF EmptyTake
  <2> QED BY <2>8, <2>9
<1>3. CASE EmptyShift
  <2>1. /\ empty'.at = "shift" /\ empty'.msg = empty.msg
        /\ empty'.j = empty.j + 1 /\ empty'.n = empty.n
    BY <1>3 DEF EmptyShift
  <2>2. empty.j \in Cells
    BY <1>3 DEF EmptyShift, MoreToMove, Cells
  <2>3. cells' \in [Cells -> Message \cup {Unset}]
    BY <1>3, <2>2 DEF EmptyShift
  <2>4. empty' = [empty EXCEPT !.j = @ + 1] /\ empty.j + 1 \in Nat
    BY <1>3 DEF EmptyShift
  <2> QED BY <1>3, <2>1, <2>3, <2>4 DEF EmptyShift
<1>4. CASE EmptyShifted
  <2>1. /\ empty'.at = "read" /\ empty'.msg = empty.msg
        /\ empty'.j = empty.j /\ empty'.n = empty.n
    BY <1>4 DEF EmptyShifted
  <2> QED BY <1>4, <2>1 DEF EmptyShifted
<1>5. CASE EmptyRead
  <2>0. count \in -1 .. WINDOW_SIZE /\ empty \in [at : {"idle", "take", "shift", "read", "count"},
                      msg : Message \cup {Unset}, j : Nat, n : Int]
    OBVIOUS
  <2>1. /\ empty'.at = "count" /\ empty'.msg = empty.msg
        /\ empty'.j = empty.j /\ empty'.n = count
    BY <1>5 DEF EmptyRead
  <2>8. NearTypes'
    <3>1. count \in Int
      BY ONLY <2>0, BuffersAssumption
    <3>2. empty' = [empty EXCEPT !.at = "count", !.n = count]
      BY <1>5 DEF EmptyRead
    <3>3. empty' \in [at : {"idle", "take", "shift", "read", "count"},
                      msg : Message \cup {Unset}, j : Nat, n : Int]
      BY ONLY <2>0, <3>1, <3>2
    <3> QED BY <1>5, <3>3 DEF EmptyRead
  <2>9. Near'
    BY <1>5, <2>1 DEF EmptyRead
  <2> QED BY <2>8, <2>9
<1>6. CASE EmptyCount
  <2>1. /\ empty' = EmptyIdle /\ empty'.at = "idle"
    BY <1>6 DEF EmptyCount, EmptyIdle
  <2>2. EmptyIdle \in [at : {"idle", "take", "shift", "read", "count"},
                       msg : Message \cup {Unset}, j : Nat, n : Int]
    BY DEF EmptyIdle
  <2>3. count' \in -1 .. WINDOW_SIZE - 1
    BY <1>6 DEF EmptyCount
  <2>4. fill' = fill /\ cells' = cells /\ put' = put
    BY <1>6 DEF EmptyCount
  <2> QED BY <2>1, <2>2, <2>3, <2>4
<1> QED
  BY <1>1, <1>2, <1>3, <1>4, <1>5, <1>6 DEF Empty

(* Whichever side closes the socket, and however often: the count stays    *)
(* between -1 and WINDOW_SIZE, the filler never writes behind the array    *)
(* and at most one element before it, and the shifting loop of the emptier *)
(* stays inside.                                                           *)
OneBelow ==
  /\ count \in -1 .. WINDOW_SIZE
  /\ fill.at = "write" /\ ~fill.stored => fill.idx \in Cells \cup {-1}
  /\ empty.at = "shift" /\ empty.j < count => empty.j \in Cells /\ empty.j - 1 \in Cells

THEOREM AtMostOneBelow == Spec => []OneBelow
<1>1. Init => NearTypes /\ Near
  BY InitNear
<1>2. NearTypes /\ Near /\ [Next]_vars => (NearTypes /\ Near)'
  <2>1. NearTypes /\ Near /\ UNCHANGED vars => (NearTypes /\ Near)'
    BY DEF vars, NearTypes, Near
  <2>2. NearTypes /\ Near /\ k_close => (NearTypes /\ Near)'
    BY BuffersAssumption DEF NearTypes, Near, k_close
  <2> QED BY <2>1, <2>2, FillNear, EmptyNear DEF Next
<1>3. NearTypes /\ Near => OneBelow
  BY BuffersAssumption DEF NearTypes, Near, OneBelow, Cells
<1> QED
  BY <1>1, <1>2, <1>3, PTL DEF Spec
-----------------------------------------------------------------------------
(* As long as no two calls have overlapped, one thread at a time is inside *)
(* a call, and its local variables say how far it is.                      *)
Alone ==
  /\ TypeOK
  /\ count \in 0 .. WINDOW_SIZE
  /\ fill.at = "idle" \/ empty.at = "idle"
  /\ fill.at \in {"idle", "read"} => ~fill.counted /\ ~fill.stored
  /\ fill.at = "read" => count < WINDOW_SIZE
  /\ fill.at \in {"write", "count"} =>
       /\ fill.idx \in Cells
       /\ count = IF fill.counted THEN fill.idx + 1 ELSE fill.idx
       /\ fill.stored => cells[fill.idx] = put + 1
  /\ fill.at = "count" => fill.stored
  /\ fill.at # "idle" => put < MaxMessages
  /\ empty.at # "idle" => count > 0
  /\ empty.at = "shift" => empty.j \in 1 .. count
  /\ empty.at \in {"read", "count"} => empty.j = count
  /\ empty.at = "count" => empty.n = count

AloneInv == ~overlapped => Alone

LEMMA AloneBounds == ASSUME Alone PROVE TypeOK /\ Bounds
BY BuffersAssumption DEF Alone, Bounds, Cells, TypeOK

LEMMA AloneFill == ASSUME Alone, Fill, ~overlapped' PROVE Alone'
<1> USE BuffersAssumption
<1>1. TypeOK'
  BY AloneBounds, FillSafe
<1>2. empty' = empty
  BY DEF Fill, FillCheck, FillRead, FillStore, FillReread, FillCount, FillDone
<1>3. empty.at = "idle"
  BY DEF Fill, FillCheck, FillRead, FillStore, FillReread, FillCount, FillDone, Alone, TypeOK
<1> USE DEF Alone, TypeOK, Cells
<1>4. CASE FillCheck
  <2>1. /\ fill'.at = "read" /\ fill'.stored = fill.stored /\ fill'.counted = fill.counted
    BY <1>4 DEF FillCheck
  <2> QED BY <1>1, <1>2, <1>3, <1>4, <2>1 DEF FillCheck, Room
<1>5. CASE FillRead
  <2>1. /\ fill'.at = "write" /\ fill'.idx = count
        /\ fill'.stored = fill.stored /\ fill'.counted = fill.counted
    BY <1>5 DEF FillRead
  <2> QED BY <1>1, <1>2, <1>3, <1>5, <2>1 DEF FillRead
<1>6. CASE FillStore
  <2>1. /\ fill'.at = fill.at /\ fill'.idx = fill.idx
        /\ fill'.stored = TRUE /\ fill'.counted = fill.counted
    BY <1>6 DEF FillStore
  <2>2. cells'[fill.idx] = put + 1
    BY <1>6 DEF FillStore
  <2> QED BY <1>1, <1>2, <1>3, <1>6, <2>1, <2>2 DEF FillStore
<1>7. CASE FillReread
  <2>1. /\ fill'.at = "count" /\ fill'.idx = count
        /\ fill'.stored = fill.stored /\ fill'.counted = fill.counted
    BY <1>7 DEF FillReread
  <2> QED BY <1>1, <1>2, <1>3, <1>7, <2>1 DEF FillReread
<1>8. CASE FillCount
  <2>1. /\ fill'.at = fill.at /\ fill'.idx = fill.idx
        /\ fill'.stored = fill.stored /\ fill'.counted = TRUE
    BY <1>8 DEF FillCount
  <2> QED BY <1>1, <1>2, <1>3, <1>8, <2>1 DEF FillCount
<1>9. CASE FillDone
  <2>1. /\ fill'.at = "idle" /\ fill'.stored = FALSE /\ fill'.counted = FALSE
    BY <1>9 DEF FillDone, FillIdle
  <2> QED BY <1>1, <1>2, <1>3, <1>9, <2>1 DEF FillDone
<1> QED BY <1>4, <1>5, <1>6, <1>7, <1>8, <1>9 DEF Fill

LEMMA AloneEmpty == ASSUME Alone, Empty, ~overlapped' PROVE Alone'
<1> USE BuffersAssumption
<1>1. TypeOK'
  BY AloneBounds, EmptySafe
<1>2. fill' = fill /\ put' = put
  BY DEF Empty, EmptyCheck, EmptyTake, EmptyShift, EmptyShifted, EmptyRead, EmptyCount
<1>3. fill.at = "idle"
  BY DEF Empty, EmptyCheck, EmptyTake, EmptyShift, EmptyShifted, EmptyRead, EmptyCount, Alone, TypeOK
<1> USE DEF Alone, TypeOK, Cells
<1>4. CASE EmptyCheck
  <2>1. empty'.at = "take"
    BY <1>4 DEF EmptyCheck
  <2> QED BY <1>1, <1>2, <1>3, <1>4, <2>1 DEF EmptyCheck, NotEmpty
<1>5. CASE EmptyTake
  <2>1. empty'.at = "shift" /\ empty'.j = 1
    BY <1>5 DEF EmptyTake
  <2> QED BY <1>1, <1>2, <1>3, <1>5, <2>1 DEF EmptyTake
<1>6. CASE EmptyShift
  <2>1. empty'.at = "shift" /\ empty'.j = empty.j + 1
    BY <1>6 DEF EmptyShift
  <2> QED BY SMTT(30), <1>1, <1>2, <1>3, <1>6, <2>1 DEF EmptyShift, MoreToMove
<1>7. CASE EmptyShifted
  <2>1. empty'.at = "read" /\ empty'.j = empty.j
    BY <1>7 DEF EmptyShifted
  <2> QED BY <1>1, <1>2, <1>3, <1>7, <2>1 DEF EmptyShifted, MoreToMove
<1>8. CASE EmptyRead
  <2>1. empty'.at = "count" /\ empty'.j = empty.j /\ empty'.n = count
    BY <1>8 DEF EmptyRead
  <2> QED BY <1>1, <1>2, <1>3, <1>8, <2>1 DEF EmptyRead
<1>9. CASE EmptyCount
  <2>1. empty'.at = "idle"
    BY <1>9 DEF EmptyCount, EmptyIdle
  <2> QED BY <1>1, <1>2, <1>3, <1>9, <2>1 DEF EmptyCount
<1> QED BY <1>4, <1>5, <1>6, <1>7, <1>8, <1>9 DEF Empty

LEMMA AloneClose == ASSUME Alone, k_close, ~overlapped' PROVE Alone'
<1>1. /\ fill' = fill /\ empty' = empty /\ cells' = cells /\ put' = put
      /\ taken' = taken /\ count' = 0 /\ fill.at = "idle" /\ empty.at = "idle"
  BY DEF k_close
<1>2. closes' \in 0 .. MaxCloses /\ overlapped' \in BOOLEAN
  BY BuffersAssumption DEF Alone, TypeOK, k_close
<1>3. TypeOK'
  BY <1>1, <1>2 DEF Alone, TypeOK
<1>4. ~fill.counted /\ ~fill.stored
  BY <1>1 DEF Alone
<1> QED BY <1>1, <1>3, <1>4, BuffersAssumption DEF Alone

(* What each step is to the queue.                                         *)
Keeps == UNCHANGED <<Inside, taken>>
LEMMA FillQueue == ASSUME Alone, Fill, ~overlapped' PROVE Queue!Next \/ Keeps
<1> USE BuffersAssumption DEF Alone, TypeOK, Cells
<1>1. empty' = empty /\ empty.at = "idle" /\ taken' = taken
  BY DEF Fill, FillCheck, FillRead, FillStore, FillReread, FillCount, FillDone
<1>2. PICK n : n = IF fill.counted THEN count - 1 ELSE count
  OBVIOUS
<1>3. n \in 0 .. WINDOW_SIZE
  BY <1>2
<1>4. Inside = [k \in 1 .. n |-> cells[k - 1]]
  BY <1>1, <1>2 DEF Inside, Removing, Filled
<1>5. PICK n1 : n1 = IF fill'.counted THEN count' - 1 ELSE count'
  OBVIOUS
<1>6. Inside' = [k \in 1 .. n1 |-> cells'[k - 1]]
  BY <1>1, <1>5 DEF Inside, Removing, Filled
<1>7. CASE FillCheck \/ FillRead \/ FillReread
  <2>1. fill'.counted = fill.counted /\ count' = count /\ cells' = cells
    BY <1>7 DEF FillCheck, FillRead, FillReread
  <2> QED BY <1>1, <1>2, <1>4, <1>5, <1>6, <2>1 DEF Keeps
<1>8. CASE FillStore
  <2>1. fill'.counted = fill.counted /\ count' = count
        /\ cells' = [cells EXCEPT ![fill.idx] = put + 1]
    BY <1>8 DEF FillStore
  <2>2. n1 = n /\ n <= fill.idx
    BY <1>2, <1>5, <1>8, <2>1 DEF FillStore
  <2>3. \A k \in 1 .. n : cells'[k - 1] = cells[k - 1]
    BY <1>3, <2>1, <2>2
  <2> QED BY <1>1, <1>4, <1>6, <2>2, <2>3 DEF Keeps
<1>9. CASE FillCount
  <2>1. fill'.counted = TRUE /\ count' = fill.idx + 1 /\ cells' = cells
    BY <1>9 DEF FillCount
  <2>2. n1 = n
    BY <1>2, <1>5, <1>9, <2>1 DEF FillCount
  <2> QED BY <1>1, <1>4, <1>6, <2>1, <2>2 DEF Keeps
<1>10. CASE FillDone
  <2>1. fill.stored /\ fill.counted /\ fill'.counted = FALSE /\ count' = count /\ cells' = cells
    BY <1>10 DEF FillDone, FillIdle
  <2>2. fill.at \in {"write", "count"} /\ put + 1 \in Message
    BY <2>1 DEF Message
  <2>3. n1 = n + 1 /\ n < WINDOW_SIZE /\ cells[n] = put + 1
    BY <1>2, <1>5, <2>1, <2>2
  <2>4. PICK q : q = Inside
    OBVIOUS
  <2>5. q \in Seq(Message \cup {Unset}) /\ Len(q) = n
    BY <1>3, <1>4, <2>3, <2>4
  <2>6. Inside' = Append(q, put + 1)
    BY <1>3, <1>4, <1>6, <2>1, <2>3, <2>4, <2>5
  <2>7. Queue!Put(put + 1)
    BY <1>1, <2>3, <2>4, <2>5, <2>6 DEF Queue!Put
  <2> QED BY <2>2, <2>7 DEF Queue!Next
<1> QED BY <1>7, <1>8, <1>9, <1>10 DEF Fill

LEMMA EmptyQueue == ASSUME Alone, Empty, ~overlapped' PROVE Queue!Next \/ Keeps
<1> USE BuffersAssumption DEF Alone, TypeOK, Cells
<1>1. fill' = fill /\ ~fill.counted
  BY DEF Empty, EmptyCheck, EmptyTake, EmptyShift, EmptyShifted, EmptyRead, EmptyCount
<1>2. ~Removing => Inside = [k \in 1 .. count |-> cells[k - 1]]
  BY <1>1 DEF Inside, Filled
<1>3. Removing => Inside = [k \in 1 .. count - 1 |->
                              IF k <= empty.j - 1 THEN cells[k - 1] ELSE cells[k]]
  BY <1>1 DEF Inside, Filled
<1>4. ~Removing' => Inside' = [k \in 1 .. count' |-> cells'[k - 1]]
  BY <1>1 DEF Inside, Filled
<1>5. Removing' => Inside' = [k \in 1 .. count' - 1 |->
                              IF k <= empty'.j - 1 THEN cells'[k - 1] ELSE cells'[k]]
  BY <1>1 DEF Inside, Filled
<1>6. CASE EmptyCheck
  <2>1. ~Removing /\ ~Removing' /\ count' = count /\ cells' = cells /\ taken' = taken
    BY <1>6 DEF EmptyCheck, Removing
  <2> QED BY <1>2, <1>4, <2>1 DEF Keeps
<1>7. CASE EmptyTake
  <2>1. /\ ~Removing /\ Removing' /\ count' = count /\ cells' = cells /\ empty'.j = 1
        /\ taken' = Append(taken, cells[0]) /\ count \in 1 .. WINDOW_SIZE
    BY <1>7 DEF EmptyTake, Removing
  <2>2. PICK q : q = Inside
    OBVIOUS
  <2>3. q = [k \in 1 .. count |-> cells[k - 1]]
    BY <1>2, <2>1, <2>2
  <2>4. q \in Seq(Message \cup {Unset}) /\ Len(q) = count
    BY <2>1, <2>3
  <2>5. q # <<>> /\ Head(q) = cells[0]
    <3>1. Len(q) > 0 /\ q[1] = cells[0]
      BY <2>1, <2>3, <2>4
    <3> QED BY <2>4, <3>1
  <2>6. Inside' = [k \in 1 .. count - 1 |-> cells[k]]
    BY <1>5, <2>1
  <2>7. Inside' = Tail(q)
    BY SMTT(30), <2>1, <2>3, <2>4, <2>6
  <2>8. Queue!Take
    BY <2>1, <2>2, <2>5, <2>7 DEF Queue!Take
  <2> QED BY <2>8 DEF Queue!Next
<1>8. CASE EmptyShift
  <2>1. /\ Removing /\ Removing' /\ count' = count /\ taken' = taken
        /\ empty'.j = empty.j + 1 /\ empty.j \in 1 .. count - 1 /\ count \in 1 .. WINDOW_SIZE
        /\ cells' = [cells EXCEPT ![empty.j - 1] = cells[empty.j]]
    BY <1>8 DEF EmptyShift, Removing, MoreToMove
  <2>2. \A k \in 1 .. count - 1 :
          (IF k <= empty'.j - 1 THEN cells'[k - 1] ELSE cells'[k])
            = (IF k <= empty.j - 1 THEN cells[k - 1] ELSE cells[k])
    BY <2>1
  <2> QED BY <1>3, <1>5, <2>1, <2>2 DEF Keeps
<1>9. CASE EmptyShifted \/ EmptyRead
  <2>1. /\ Removing /\ Removing' /\ count' = count /\ taken' = taken
        /\ empty'.j = empty.j /\ cells' = cells
    BY <1>9 DEF EmptyShifted, EmptyRead, Removing
  <2> QED BY <1>3, <1>5, <2>1 DEF Keeps
<1>10. CASE EmptyCount
  <2>1. /\ Removing /\ ~Removing' /\ count' = count - 1 /\ taken' = taken
        /\ empty.j = count /\ cells' = cells /\ count \in 1 .. WINDOW_SIZE
    BY <1>10 DEF EmptyCount, EmptyIdle, Removing
  <2>2. \A k \in 1 .. count - 1 :
          (IF k <= empty.j - 1 THEN cells[k - 1] ELSE cells[k]) = cells[k - 1]
    BY <2>1
  <2> QED BY <1>3, <1>4, <2>1, <2>2 DEF Keeps
<1> QED BY <1>6, <1>7, <1>8, <1>9, <1>10 DEF Empty

LEMMA CloseQueue == ASSUME Alone, k_close, ~overlapped' PROVE Queue!Next \/ Keeps
<1> USE BuffersAssumption DEF Alone, TypeOK
<1>1. /\ fill' = fill /\ empty' = empty /\ taken' = taken /\ count' = 0
      /\ fill.at = "idle" /\ empty.at = "idle"
  BY DEF k_close
<1>2. Inside' = [k \in 1 .. 0 |-> cells'[k - 1]]
  BY <1>1 DEF Inside, Filled, Removing
<1>3. Inside' = <<>>
  BY <1>2
<1>4. Queue!Clear
  BY <1>1, <1>3 DEF Queue!Clear
<1> QED BY <1>4 DEF Queue!Next

(* What KTP takes for one step is one: while no two calls overlap, the     *)
(* array with its count is a bounded queue, whoever closes the socket.     *)
THEOREM ArrayIsQueue == Spec => QueueSpec
<1>1. Init => AloneInv /\ Queue!Init
  <2> SUFFICES ASSUME Init PROVE Alone /\ Queue!Init
    BY DEF AloneInv
  <2>1. TypeOK
    BY InitSafe
  <2>2. fill = FillIdle /\ empty = EmptyIdle /\ count = 0 /\ taken = <<>>
    BY DEF Init
  <2>3. Alone
    BY <2>1, <2>2, BuffersAssumption DEF Alone, FillIdle, EmptyIdle
  <2>4. Inside = [k \in 1 .. 0 |-> cells[k - 1]]
    BY <2>2 DEF Inside, Removing, Filled, FillIdle, EmptyIdle
  <2> QED BY <2>2, <2>3, <2>4 DEF Queue!Init
<1>2. ASSUME AloneInv, [Next]_vars
      PROVE  AloneInv' /\ [~overlapped' => Queue!Next \/ UNCHANGED <<Inside, taken>>]_vars
  <2>1. CASE UNCHANGED vars
    BY <1>2, <2>1 DEF vars, AloneInv, Alone, TypeOK
  <2>2. CASE Next /\ ~overlapped'
    <3>1. ~overlapped
      BY <2>2 DEF Next, Fill, FillCheck, FillRead, FillStore, FillReread, FillCount, FillDone,
                  Empty, EmptyCheck, EmptyTake, EmptyShift, EmptyShifted, EmptyRead, EmptyCount,
                  k_close
    <3>2. Alone
      BY <1>2, <3>1 DEF AloneInv
    <3>3. Alone'
      BY <2>2, <3>2, AloneFill, AloneEmpty, AloneClose DEF Next
    <3>4. Queue!Next \/ UNCHANGED <<Inside, taken>>
      BY <2>2, <3>2, FillQueue, EmptyQueue, CloseQueue DEF Next, Keeps
    <3> QED BY <3>3, <3>4 DEF AloneInv
  <2>3. CASE overlapped'
    BY <2>3 DEF AloneInv
  <2> QED BY <1>2, <2>1, <2>2, <2>3
<1> QED BY <1>1, <1>2, PTL DEF Spec, QueueSpec
=============================================================================
