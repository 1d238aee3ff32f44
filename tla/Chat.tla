-------------------------------- MODULE Chat --------------------------------
(***************************************************************************)
(* The first lab test, chatserver.c and chatclient.c.  A client sends its  *)
(* address and, a second later, its port; the server takes one read for    *)
(* each, asks for a number and reads it, then accepts the next client.     *)
(***************************************************************************)
EXTENDS Sequences, FiniteSets

CONSTANT Guests

VARIABLES
  guest,   \* each client: its next step
  alone,   \* clients that came when the server waited in accept
  queue,   \* connections that wait for accept
  stream,  \* what each client sent and the server has not read
  asked,   \* clients that the question was sent to
  host     \* [at, whom]: the server, in accept or in one of its three reads

chatVars == <<guest, alone, queue, stream, asked, host>>

Init ==
  /\ guest = [c \in Guests |-> "connect"]
  /\ alone = {} /\ asked = {}
  /\ queue = <<>>
  /\ stream = [c \in Guests |-> <<>>]
  /\ host = [at |-> "accept", whom |-> {}]

Moves(c, from, to) == guest[c] = from /\ guest' = [guest EXCEPT ![c] = to]
Sends(c, text)     == stream' = [stream EXCEPT ![c] = Append(@, text)]

Connect(c) ==
  /\ Moves(c, "connect", "address")
  /\ queue' = Append(queue, c)
  /\ alone' = IF host.at = "accept" /\ queue = <<>> THEN alone \cup {c} ELSE alone
  /\ UNCHANGED <<stream, asked, host>>

SendAddress(c) ==
  /\ Moves(c, "address", "port")
  /\ Sends(c, "address")
  /\ UNCHANGED <<alone, queue, asked, host>>

(* The sleep is long enough for a server that is in accept, or reads from  *)
(* this client; it is not for one that serves another client.              *)
SendPort(c) ==
  /\ Moves(c, "port", "question")
  /\ stream[c] = <<>> \/ host.whom \notin {{}, {c}}
  /\ Sends(c, "port")
  /\ UNCHANGED <<alone, queue, asked, host>>

SendNumber(c) ==
  /\ Moves(c, "question", "closed")
  /\ c \in asked
  /\ Sends(c, "number")
  /\ UNCHANGED <<alone, queue, asked, host>>

Accept ==
  /\ host.at = "accept" /\ queue # <<>>
  /\ host' = [at |-> "address", whom |-> {Head(queue)}]
  /\ queue' = Tail(queue)
  /\ UNCHANGED <<guest, alone, stream, asked>>

(* One read takes all that has come, what was meant for the next one too.  *)
Read(c) ==
  /\ host.whom = {c} /\ stream[c] # <<>>
  /\ stream' = [stream EXCEPT ![c] = <<>>]
  /\ CASE host.at = "address" -> host' = [host EXCEPT !.at = "port"] /\ UNCHANGED asked
       [] host.at = "port" -> /\ host' = [host EXCEPT !.at = "number"]
                              /\ asked' = asked \cup {c}
       [] host.at = "number" -> /\ host' = [at |-> "accept", whom |-> {}]
                                /\ UNCHANGED asked
  /\ UNCHANGED <<guest, alone, queue>>

Step(c) == SendAddress(c) \/ SendPort(c) \/ SendNumber(c) \/ Read(c)
System  == Accept \/ \E c \in Guests : Step(c)
Next    == System \/ \E c \in Guests : Connect(c)

Spec == Init /\ [][Next]_chatVars /\ WF_chatVars(System)
-----------------------------------------------------------------------------
(* A client that finds the server in accept gets its question and sends    *)
(* its number.  One that has to wait for its turn may not: the server then *)
(* reads its address and port at once (chatserver.c, line 67), and both    *)
(* wait, and with them all that come later.                                *)
FirstServed == \A c \in Guests : c \in alone ~> guest[c] = "closed"
=============================================================================
