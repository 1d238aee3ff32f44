-------------------------------- MODULE CLDP --------------------------------
(***************************************************************************)
(* The discovery protocol of Assignment_7.  The final programs             *)
(* (code/cldp_server.c, code/cldp_client.c) and their first version        *)
(* (temp/) speak the same packets, so both may meet on one network.        *)
(*                                                                         *)
(* All clients run on one host: a raw socket gets every packet that comes  *)
(* to its host, so a response comes to each of them.  Time goes in ticks:  *)
(* a packet arrives within the tick unless it is a late one, and a program *)
(* that has something to do does it within the tick.                       *)
(***************************************************************************)
EXTENDS Integers, Sequences, FiniteSets

CONSTANTS
  NewServers, OldServers,  \* servers, of the final and of the first version
  NewClients, OldClients,
  Ids,                     \* transaction identifiers
  Types,                   \* the query types that users ask for
  HelloInterval,           \* ticks between two HELLOs of a server
  Timeout,                 \* ticks that poll waits
  MaxQueries,              \* bound: queries of all users together
  MaxFaults                \* bound: packets that are lost or late

Servers  == NewServers \cup OldServers
Clients  == NewClients \cup OldClients
Queries  == Clients \X (1..MaxQueries)
Metadata == <<"hostname", "time", "load">>

ASSUME CLDPAssumption ==
  /\ NewServers \cap OldServers = {}
  /\ NewClients \cap OldClients = {}
  /\ Servers \cap Clients = {}
  /\ IsFiniteSet(Clients)
  /\ Types \subseteq DOMAIN Metadata
  /\ MaxQueries \in Nat /\ 1..MaxQueries \subseteq Ids
  /\ HelloInterval \in Nat \ {0} /\ Timeout \in Nat \ {0}
  /\ MaxFaults \in Nat

VARIABLES
  client,   \* [at, quiet, shown]: quiet is how long poll has waited
  asked,    \* the queries of each client: [id, type]
  since,    \* ticks since the last HELLO of each server, up to the interval
  net,      \* packets under way and packets in the socket buffers
  faults

vars == <<client, asked, since, net, faults>>

Waiting(c) == client[c].at = "wait"
Open(c)    == client[c].at # "gone"
Current(c) == asked[c][Len(asked[c])]

(* A packet that is nobody's answer still has an effect on two programs: a *)
(* client of the final version starts to wait anew, and a server of the    *)
(* first one comes out of recvfrom, to say its HELLO if it is due.  Where  *)
(* it has none (a client that has not waited yet, a server that is not     *)
(* due) it is left out.                                                    *)
Due(s) == since[s] = HelloInterval
HELLO  == {[kind |-> "other", to |-> w, late |-> FALSE] :
             w \in {c \in NewClients : Waiting(c) /\ client[c].quiet > 0}
                   \cup {s \in OldServers : Due(s)}}

(* A server of the first version has said its first HELLO and waits for a  *)
(* packet; one of the final version is about to say it.                    *)
Init ==
  /\ client = [c \in Clients |-> [at |-> "prompt", quiet |-> 0, shown |-> {}]]
  /\ asked = [c \in Clients |-> <<>>]
  /\ since = [s \in Servers |-> IF s \in NewServers THEN HelloInterval ELSE 0]
  /\ net = {}
  /\ faults = 0

QUERY(c, n, q) ==
  {p \in HELLO : p.to \in NewClients} \cup
  {[kind |-> "QUERY", to |-> s, id |-> q.id, type |-> q.type,
    about |-> <<c, n>>, late |-> FALSE] : s \in Servers}
RESPONSE(s, id, about, data) ==
  {[kind |-> "RESPONSE", to |-> c, from |-> s, id |-> id,
    about |-> about, data |-> data, late |-> FALSE] :
     c \in {d \in Clients : Open(d)}}
-----------------------------------------------------------------------------
(* The servers.  The final version looks at its clock and its socket every *)
(* 100 ms; the first looks at the clock and then waits for a packet, so a  *)
(* round of its loop begins with one.                                      *)
HelloAgain(s) == Due(s) /\ net' = net \cup HELLO /\ UNCHANGED <<client, asked, since, faults>>  \* mutant
NewHello(s) ==
  /\ Due(s)
  /\ net' = net \cup HELLO
  /\ since' = [since EXCEPT ![s] = 0]
  /\ UNCHANGED <<client, asked, faults>>

Answer(type) ==
  IF type \in DOMAIN Metadata THEN Metadata[type] ELSE "error"

OwnId(p)   == CHOOSE i \in Ids : i # p.id                        \* mutant
TransId(p) == p.id

Answers(s, p) ==
  IF p.kind = "QUERY" THEN RESPONSE(s, TransId(p), p.about, Answer(p.type)) ELSE {}

NewServerReads(s, p) ==
  /\ p \in net /\ p.to = s
  /\ net' = (net \ {p}) \cup Answers(s, p)
  /\ UNCHANGED <<client, asked, since, faults>>

OldServerReads(s, p) ==
  /\ p \in net /\ p.to = s
  /\ net' = (net \ {p}) \cup Answers(s, p) \cup (IF Due(s) THEN {q \in HELLO : q.to # s} ELSE {})
  /\ since' = [since EXCEPT ![s] = IF Due(s) THEN 0 ELSE @]
  /\ UNCHANGED <<client, asked, faults>>
-----------------------------------------------------------------------------
(* The clients.                                                            *)
Ask(c, q) ==
  /\ client[c].at = "prompt"
  /\ Cardinality({x \in Queries : x[2] <= Len(asked[x[1]])}) < MaxQueries
  /\ asked' = [asked EXCEPT ![c] = Append(@, q)]
  /\ client' = [client EXCEPT ![c] = [at |-> "wait", quiet |-> 0, shown |-> {}]]
  /\ net' = net \cup QUERY(c, Len(asked[c]) + 1, q)
  /\ UNCHANGED <<since, faults>>

NewQuery(c, type) == \E i \in Ids : Ask(c, [id |-> i, type |-> type])

(* rand is not seeded: the n-th identifier is the same in every client.    *)
OldQuery(c, type) == Ask(c, [id |-> Len(asked[c]) + 1, type |-> type])

AnyId(c, p)   == p.kind = "RESPONSE"                             \* mutant
Matches(c, p) == p.kind = "RESPONSE" /\ p.id = Current(c).id

Shows(c, p) ==
  [client[c] EXCEPT !.quiet = 0,
     !.shown = IF Matches(c, p)
               THEN @ \cup {[from |-> p.from, about |-> p.about, data |-> p.data]}
               ELSE @]

Reads(c, p) ==
  /\ Waiting(c)
  /\ p \in net /\ p.to = c
  /\ net' = net \ {p}
  /\ UNCHANGED <<asked, since, faults>>

GoesOn(c, p) == client' = [client EXCEPT ![c] = Shows(c, p)]

Returns(c, now) == client' = [client EXCEPT ![c] = [now EXCEPT !.at = "prompt", !.quiet = 0]]

OldClientReads(c, p) ==
  /\ Reads(c, p)
  /\ IF Matches(c, p) THEN Returns(c, Shows(c, p)) ELSE GoesOn(c, p)

NewClientReads(c, p) ==
  /\ Reads(c, p)
  /\ GoesOn(c, p)

ExpiredLater(c) == Waiting(c) /\ client[c].quiet > Timeout        \* mutant
Expired(c) == Waiting(c) /\ client[c].quiet = Timeout

TimeOut(c) ==
  /\ Expired(c)
  /\ Returns(c, client[c])
  /\ UNCHANGED <<asked, since, net, faults>>

(* The menu's 0; what is left in a closed socket is thrown away.           *)
Leave(c) ==
  /\ client[c].at = "prompt"
  /\ client' = [client EXCEPT ![c].at = "gone"]
  /\ net' = {p \in net : p.to # c}
  /\ UNCHANGED <<asked, since, faults>>
-----------------------------------------------------------------------------
(* The network and the clock.                                              *)
Fault(changed) ==
  /\ faults < MaxFaults
  /\ faults' = faults + 1
  /\ net' = changed
  /\ UNCHANGED <<client, asked, since>>

Lose(p)  == Fault(net \ {p})
Delay(p) == p.kind = "RESPONSE" /\ ~p.late /\ Fault((net \ {p}) \cup {[p EXCEPT !.late = TRUE]})

Busy ==
  \/ \E p \in net : ~p.late /\ (p.to \in Servers \/ Waiting(p.to))
  \/ \E s \in NewServers : Due(s)
  \/ \E c \in NewClients : Expired(c)

Tick ==
  /\ ~Busy
  /\ since' = [s \in Servers |-> IF Due(s) THEN since[s] ELSE since[s] + 1]
  /\ client' = [c \in Clients |->
       IF c \in NewClients /\ Waiting(c)
       THEN [client[c] EXCEPT !.quiet = @ + 1] ELSE client[c]]
  /\ UNCHANGED <<asked, net, faults>>

Users ==
  \/ \E c \in NewClients, t \in Types : NewQuery(c, t)
  \/ \E c \in OldClients, t \in Types : OldQuery(c, t)
  \/ \E c \in Clients : Leave(c)

System ==
  \/ \E s \in NewServers : NewHello(s) \/ \E p \in net : NewServerReads(s, p)
  \/ \E s \in OldServers, p \in net : OldServerReads(s, p)
  \/ \E c \in NewClients : TimeOut(c) \/ \E p \in net : NewClientReads(c, p)
  \/ \E c \in OldClients, p \in net : OldClientReads(c, p)
  \/ Tick

Next ==
  \/ Users
  \/ System
  \/ \E p \in net : p.kind # "other" /\ (Lose(p) \/ Delay(p))

Spec == Init /\ [][Next]_vars
FairSpec == Spec /\ WF_vars(System)
-----------------------------------------------------------------------------
Shown == [from : Servers, about : Queries, data : {"hostname", "time", "load", "error"}]

(* The variables have their types.                                         *)
TypeOK ==
  /\ client \in [Clients -> [at : {"prompt", "wait", "gone"},
                             quiet : 0..Timeout, shown : SUBSET Shown]]
  /\ asked \in [Clients -> Seq([id : Ids, type : Types])]
  /\ since \in [Servers -> 0..HelloInterval]
  /\ faults \in 0..MaxFaults
  /\ \A p \in net : p.to \in Servers \cup {c \in Clients : Open(c)}

Collides(c) == \E d \in Clients : \E n \in DOMAIN asked[d] :
                 /\ <<d, n>> # <<c, Len(asked[c])>>
                 /\ asked[d][n].id = Current(c).id

(* What a client shows answers its present query, in all packets that are  *)
(* late, to other clients or left over in its socket, unless the random    *)
(* identifier is one that a query of this host had already (cldp_client.c, *)
(* line 257: the identifier is all that tells responses apart).            *)
AnswersOwnQuery == \A c \in Clients : \A r \in client[c].shown :
  Collides(c) \/ /\ r.about = <<c, Len(asked[c])>>
                 /\ r.data = Metadata[Current(c).type]

(* When the client of the final version is back at its prompt, every       *)
(* server has been heard, unless a packet was lost or late (the loop of    *)
(* cldp_client.c, line 217, goes on after a response).                     *)
AllServersShown == \A c \in NewClients :
  client[c].at = "prompt" /\ asked[c] # <<>> /\ faults = 0 =>
    {r.from : r \in client[c].shown} = Servers

(* The wait of the final client ends, whatever is lost, although every     *)
(* packet that comes, each HELLO too, starts its two seconds again         *)
(* (cldp_client.c, line 218).                                              *)
NewClientsReturn == \A c \in NewClients : Waiting(c) ~> ~Waiting(c)

(* The client of the first version has no timeout (temp/cldp_client.c,     *)
(* line 127): its wait ends with the first answer of any server, unless    *)
(* a packet to or from each of them is lost or late.                       *)
OldClientsReturn == \A c \in OldClients :
  Waiting(c) ~> (~Waiting(c) \/ faults >= Cardinality(Servers))
=============================================================================
