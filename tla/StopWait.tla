------------------------------ MODULE StopWait ------------------------------
(***************************************************************************)
(* The stop-and-wait pair over the first KTP of Assignment_4               *)
(* (DadiSasankKumar_22CS10020): user1.c sends numbered messages,           *)
(* user2.c marks and acknowledges each.  An ACK has no number.  k_sendto   *)
(* drops what it is given with probability P; loopback keeps the order.    *)
(***************************************************************************)
EXTENDS Integers, Sequences, FiniteSets

CONSTANTS
  NumMessages, MaxRetransmissions, MaxSeqNum,
  MaxDrops      \* bound: messages and ACKs that dropMessage takes

VARIABLES
  slow,       \* the receiver may take longer than the sender's select
  sender,     \* [at, i, tries, acked]: acked, the messages it takes for received
  received,   \* sequence numbers marked by the receiver
  messages,   \* datagrams to the receiver
  acks,       \* ACKs under way
  drops

vars == <<slow, sender, received, messages, acks, drops>>

Init ==
  /\ slow \in BOOLEAN
  /\ sender = [at |-> "send", i |-> 1, tries |-> 0, acked |-> {}]
  /\ received = {}
  /\ messages = <<>> /\ acks = 0
  /\ drops = 0

(* dropMessage: k_sendto says that it sent what it dropped.                *)
Dropped == drops < MaxDrops /\ drops' = drops + 1
Sent    == UNCHANGED drops

k_sendto ==
  /\ sender.at = "send"
  /\ sender' = [sender EXCEPT !.at = "select"]
  /\ \/ Dropped /\ UNCHANGED messages
     \/ Sent /\ messages' = Append(messages, sender.i)
  /\ UNCHANGED <<slow, received, acks>>

(* The next message, or the end.                                           *)
NextMessage(now) ==
  [now EXCEPT !.at = IF now.i = NumMessages THEN "end" ELSE "send",
              !.i = IF now.i = NumMessages THEN @ ELSE @ + 1, !.tries = 0]

TakeAck ==
  /\ sender.at = "select" /\ acks > 0
  /\ acks' = acks - 1
  /\ sender' = NextMessage([sender EXCEPT !.acked = @ \cup {sender.i}])
  /\ UNCHANGED <<slow, received, messages, drops>>

GivesUpLate(tries) == tries > MaxRetransmissions                 \* mutant
GivesUp(tries)     == tries = MaxRetransmissions

NoWait  == TRUE                                                  \* mutant
Waited  == slow \/ messages = <<>>

(* select waits two seconds, and a receiver that is not slow has answered  *)
(* by then.                                                                *)
Timeout ==
  /\ sender.at = "select" /\ acks = 0
  /\ Waited
  /\ sender' = LET tries == sender.tries + 1 IN
               IF GivesUp(tries) THEN NextMessage(sender)
               ELSE [sender EXCEPT !.at = "send", !.tries = tries]
  /\ UNCHANGED <<slow, received, messages, acks, drops>>

Done == Cardinality(received) = NumMessages

Parity(n) == n % 2                                               \* mutant
Slot(n)   == n % MaxSeqNum

(* Duplicates are acknowledged and not counted; after NumMessages          *)
(* different ones the receiver exits, and answers nothing any more.        *)
k_recvfrom ==
  /\ messages # <<>> /\ ~Done
  /\ received' = received \cup {Slot(Head(messages))}
  /\ \/ Dropped /\ UNCHANGED acks
     \/ Sent /\ acks' = acks + 1
  /\ messages' = Tail(messages)
  /\ UNCHANGED <<slow, sender>>

(* What comes to a port that nobody has is gone.                           *)
ToNobody ==
  /\ messages # <<>> /\ Done
  /\ messages' = Tail(messages)
  /\ UNCHANGED <<slow, sender, received, acks, drops>>

Next == k_sendto \/ TakeAck \/ Timeout \/ k_recvfrom \/ ToNobody

Spec == Init /\ [][Next]_vars /\ WF_vars(Next)
-----------------------------------------------------------------------------
(* What the sender takes for received was received, although nothing in an *)
(* ACK says what it is for (user1.c, line 64): it takes a receiver that    *)
(* answers within the two seconds, so that no second ACK for a message is  *)
(* left over for the next.                                                 *)
AckedIsReceived ==
  ~slow => \A n \in sender.acked : Slot(n) \in received

(* If the receiver is not slow and the sender gave up on no message, both  *)
(* programs end; a message given up leaves the receiver waiting.           *)
BothFinish ==
  ~slow ~> /\ sender.at = "end"
           /\ sender.acked = 1..NumMessages => Done
=============================================================================
