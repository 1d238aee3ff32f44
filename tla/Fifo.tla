-------------------------------- MODULE Fifo --------------------------------
(***************************************************************************)
(* What each message array of a KTP socket promises: a bounded queue.      *)
(***************************************************************************)
EXTENDS Naturals, Sequences

CONSTANTS Capacity, Message

VARIABLES queue, taken        \* the messages inside, those handed out

Init == queue = <<>> /\ taken = <<>>

Put(m) ==
  /\ Len(queue) < Capacity
  /\ queue' = Append(queue, m)
  /\ UNCHANGED taken

Take ==
  /\ queue # <<>>
  /\ taken' = Append(taken, Head(queue))
  /\ queue' = Tail(queue)

Clear == queue' = <<>> /\ UNCHANGED taken

Next == Take \/ Clear \/ \E m \in Message : Put(m)
Spec == Init /\ [][Next]_<<queue, taken>>
=============================================================================
