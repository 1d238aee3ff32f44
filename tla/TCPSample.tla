------------------------------ MODULE TCPSample ------------------------------
(***************************************************************************)
(* The sample TCP programs of Assignment_3: clients (tcpclient.c) of an    *)
(* iterative server (tcpserver.c), or of the same server with a child for  *)
(* each connection (tcpserver_conc.c).  The server speaks first, then      *)
(* waits for one message, in a recv that has no timeout.                   *)
(***************************************************************************)
EXTENDS Integers, Sequences, FiniteSets

CONSTANTS
  Peers,
  MaxFailures   \* bound: clients that are killed, or stop without closing

VARIABLES
  forks,     \* which of the two servers runs
  peer,      \* each client: idle, waiting, sent, stuck or killed
  backlog,   \* connections that wait for accept
  serving,   \* connections that are accepted and not closed
  greeted,   \* clients that the server's message was sent to
  heard      \* what is printed for each client that is done with

vars == <<forks, peer, backlog, serving, greeted, heard>>

Init ==
  /\ forks \in BOOLEAN
  /\ peer = [c \in Peers |-> "idle"]
  /\ backlog = <<>>
  /\ serving = {} /\ greeted = {}
  /\ heard = [c \in Peers |-> "nothing"]

Connect(c) ==
  /\ peer[c] = "idle"
  /\ peer' = [peer EXCEPT ![c] = "waiting"]
  /\ backlog' = Append(backlog, c)
  /\ UNCHANGED <<forks, serving, greeted, heard>>

OneAtATime   == serving = {}                                     \* mutant
FreeToAccept == forks \/ serving = {}

Accept ==
  /\ backlog # <<>> /\ FreeToAccept
  /\ backlog' = Tail(backlog)
  /\ serving' = serving \cup {Head(backlog)}
  /\ greeted' = greeted \cup {Head(backlog)}
  /\ UNCHANGED <<forks, peer, heard>>

(* The client reads the greeting, sends its own message and closes.        *)
Reply(c) ==
  /\ peer[c] = "waiting" /\ c \in greeted
  /\ peer' = [peer EXCEPT ![c] = "sent"]
  /\ UNCHANGED <<forks, backlog, serving, greeted, heard>>

(* What recv leaves in buf after the message or a beginning of it.  The    *)
(* iterative server has its own greeting there still (line 199).           *)
Printed(c) ==
  CASE peer[c] = "sent" -> {"message", IF forks THEN "part" ELSE "mixed"}
    [] peer[c] = "killed" -> {IF forks THEN "empty" ELSE "greeting"}
    [] OTHER -> {}

Hear(c) ==
  /\ c \in serving
  /\ \E text \in Printed(c) : heard' = [heard EXCEPT ![c] = text]
  /\ serving' = serving \ {c}
  /\ UNCHANGED <<forks, peer, backlog, greeted>>

Failed == {c \in Peers : peer[c] \in {"stuck", "killed"}}

Fail(c, how) ==
  /\ peer[c] = "waiting" /\ Cardinality(Failed) < MaxFailures
  /\ peer' = [peer EXCEPT ![c] = how]
  /\ UNCHANGED <<forks, backlog, serving, greeted, heard>>

System == Accept \/ \E c \in Peers : Reply(c) \/ Hear(c)

Next ==
  \/ System
  \/ \E c \in Peers : Connect(c) \/ \E how \in {"stuck", "killed"} : Fail(c, how)

Spec == Init /\ [][Next]_vars /\ WF_vars(System)
-----------------------------------------------------------------------------
(* A client that connects is served.  A client that stops without closing  *)
(* its connection keeps the iterative server for itself (tcpserver.c, line *)
(* 225), and hurts nobody where the server forks.                          *)
EveryoneServed == \A c \in Peers :
  peer[c] = "waiting" ~>
    \/ heard[c] # "nothing"
    \/ \E d \in Peers : peer[d] = "stuck" /\ (forks => d = c)
=============================================================================
