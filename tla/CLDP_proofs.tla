----------------------------- MODULE CLDP_proofs -----------------------------
(* The types of the variables; a client shows answers to its own query,    *)
(* and of all servers when nothing is lost or late; and one without a      *)
(* timeout waits for something that comes.                                 *)
EXTENDS CLDP, FiniteSetTheorems, SequenceTheorems, TLAPS

(* Queries as clients ask them.                                            *)
QueryType == [id : Ids \cup Nat, type : Types]

(* A query is named by its client and its place among that client's.       *)
Asked(a) == a \in Clients \X Nat /\ a[2] \in 1..Len(asked[a[1]])
Query(a) == asked[a[1]][a[2]]

(* A packet carries the identifier of the query it comes from, and a       *)
(* response the data that this query asked for.                            *)
Response == [kind : {"RESPONSE"}, to : Clients, from : Servers, id : Ids \cup Nat,
             about : Clients \X Nat, data : {"hostname", "time", "load", "error"},
             late : BOOLEAN]
IsQuery(p) ==
  /\ p.kind = "QUERY" /\ Asked(p.about)
  /\ p.id = Query(p.about).id /\ p.type = Query(p.about).type
IsResponse(p) ==
  /\ p \in Response /\ Asked(p.about)
  /\ p.id = Query(p.about).id /\ p.data = Answer(Query(p.about).type)
Packets == \A p \in net : p.kind = "other" \/ IsQuery(p) \/ IsResponse(p)

Entry == [from : Servers, about : Clients \X Nat,
          data : {"hostname", "time", "load", "error"}]

Client == [at : {"prompt", "wait", "gone"}, quiet : Int, shown : SUBSET Entry]

Fields ==
  /\ client \in [Clients -> Client]
  /\ asked \in [Clients -> Seq(QueryType)]

(* What a client shows was asked with the identifier of its present query. *)
ShownFor(c, r) == /\ Asked(r.about)
                  /\ Query(r.about).id = Current(c).id
                  /\ r.data = Answer(Query(r.about).type)
AllShown == \A c \in Clients : \A r \in client[c].shown : ShownFor(c, r)

Inv == Fields /\ Packets /\ AllShown

LEMMA InitInv == Init => Inv
<1>. SUFFICES ASSUME Init PROVE Inv
  OBVIOUS
<1>1. client \in [Clients -> Client]
  BY DEF Init, Client
<1>2. asked \in [Clients -> Seq(QueryType)]
  BY DEF Init
<1>3. Packets
  BY DEF Init, Packets
<1>4. AllShown
  <2>1. \A c \in Clients : client[c].shown = {}
    BY DEF Init
  <2>. QED BY <2>1 DEF AllShown
<1>. QED BY <1>1, <1>2, <1>3, <1>4 DEF Inv, Fields

(* A query of a user leaves the earlier ones as they are.                  *)
LEMMA EarlierQueries ==
  ASSUME Fields, NEW c \in Clients, NEW q \in QueryType,
         asked' = [asked EXCEPT ![c] = Append(@, q)],
         NEW n, n = Len(asked[c]) + 1
  PROVE  /\ asked' \in [Clients -> Seq(QueryType)]
         /\ \A a : Asked(a) => Asked(a)' /\ Query(a)' = Query(a)
         /\ Asked(<<c, n>>)'
         /\ Query(<<c, n>>)' = q
<1>1. asked[c] \in Seq(QueryType) /\ Len(asked[c]) \in Nat
  BY DEF Fields
<1>2. /\ asked'[c] = Append(asked[c], q)
      /\ \A d \in Clients : d # c => asked'[d] = asked[d]
  BY DEF Fields
<1>3. /\ Len(Append(asked[c], q)) = Len(asked[c]) + 1
      /\ \A i \in 1..Len(asked[c]) : Append(asked[c], q)[i] = asked[c][i]
      /\ Append(asked[c], q)[Len(asked[c]) + 1] = q
      /\ Append(asked[c], q) \in Seq(QueryType)
  BY <1>1
<1>4. asked' \in [Clients -> Seq(QueryType)]
  BY <1>3 DEF Fields
<1>5. ASSUME NEW a, Asked(a) PROVE Asked(a)' /\ Query(a)' = Query(a)
  <2>1. a \in Clients \X Nat /\ a[1] \in Clients /\ a[2] \in 1..Len(asked[a[1]])
    BY <1>5 DEF Asked
  <2>2. CASE a[1] = c
    <3>1. a[2] \in 1..Len(asked[c]) /\ a[2] \in 1..Len(Append(asked[c], q))
      BY <1>1, <1>3, <2>1, <2>2
    <3>. QED BY <1>2, <1>3, <2>1, <2>2, <3>1 DEF Asked, Query
  <2>3. CASE a[1] # c
    BY <1>2, <2>1, <2>3 DEF Asked, Query
  <2>. QED BY <2>2, <2>3
<1>6. Asked(<<c, n>>)' /\ Query(<<c, n>>)' = q
  <2>1. n \in 1..Len(asked'[c])
    BY <1>1, <1>2, <1>3
  <2>2. <<c, n>> \in Clients \X Nat /\ <<c, n>>[1] = c /\ <<c, n>>[2] = n
    BY <1>1
  <2>. QED BY <1>2, <1>3, <2>1, <2>2 DEF Asked, Query
<1>. QED BY <1>4, <1>5, <1>6

LEMMA AskInv ==
  ASSUME Inv, NEW c \in Clients, NEW q \in QueryType, Ask(c, q)
  PROVE  Inv'
<1>. USE DEF Inv
<1>. PICK n : n = Len(asked[c]) + 1
  OBVIOUS
<1>1. asked' = [asked EXCEPT ![c] = Append(@, q)]
  BY DEF Ask
<1>2. /\ asked' \in [Clients -> Seq(QueryType)]
      /\ \A a : Asked(a) => Asked(a)' /\ Query(a)' = Query(a)
      /\ Asked(<<c, n>>)'
      /\ Query(<<c, n>>)' = q
  BY <1>1, EarlierQueries
<1>3. client' \in [Clients -> Client] /\ client'[c].shown = {}
      /\ \A d \in Clients : d # c => client'[d] = client[d]
  BY DEF Ask, Fields, Client
<1>4. Packets'
  <2>. SUFFICES ASSUME NEW p \in net' PROVE (p.kind = "other" \/ IsQuery(p) \/ IsResponse(p))'
    BY DEF Packets
  <2>1. CASE p \in net
    BY <1>2, <2>1 DEF Packets, IsQuery, IsResponse
  <2>2. CASE p \in QUERY(c, n, q)
    <3>1. p.kind = "other" \/ /\ p.kind = "QUERY" /\ p.id = q.id /\ p.type = q.type
                              /\ p.about = <<c, n>>
      BY <2>2 DEF QUERY, HELLO
    <3>2. CASE p.kind = "other"
      BY <3>2
    <3>3. CASE p.kind = "QUERY"
      <4>1. p.about = <<c, n>> /\ p.id = q.id /\ p.type = q.type
        BY <3>1, <3>3
      <4>2. Asked(p.about)' /\ Query(p.about)' = q
        BY <1>2, <4>1
      <4>. QED BY <3>3, <4>1, <4>2 DEF IsQuery
    <3>. QED BY <3>1, <3>2, <3>3
  <2>. QED BY <2>1, <2>2 DEF Ask
<1>5. AllShown'
  <2>. SUFFICES ASSUME NEW d \in Clients, NEW r \in client'[d].shown PROVE ShownFor(d, r)'
    BY DEF AllShown
  <2>1. d # c /\ r \in client[d].shown
    BY <1>3
  <2>2. ShownFor(d, r)
    BY <2>1 DEF AllShown
  <2>3. Current(d)' = Current(d)
    BY <1>1, <2>1 DEF Current, Fields
  <2>. QED BY <1>2, <2>2, <2>3 DEF ShownFor
<1>. QED BY <1>2, <1>3, <1>4, <1>5 DEF Fields

(* Where no query is asked, packets and entries stay right.                *)
LEMMA SameQueries ==
  ASSUME asked' = asked
  PROVE  /\ \A p : IsQuery(p)' <=> IsQuery(p)
         /\ \A p : IsResponse(p)' <=> IsResponse(p)
         /\ \A c, r : ShownFor(c, r)' <=> ShownFor(c, r)
BY DEF IsQuery, IsResponse, ShownFor, Asked, Query, Current

LEMMA HelloKind == \A p \in HELLO : p.kind = "other"
BY DEF HELLO

(* A server answers with what the query asked for.                         *)
LEMMA AnswersRight ==
  ASSUME Fields, NEW s \in Servers, NEW p, p.kind = "QUERY" => IsQuery(p),
         NEW r \in Answers(s, p)
  PROVE  IsResponse(r)
<1>1. p.kind = "QUERY" /\ IsQuery(p) /\ r \in RESPONSE(s, p.id, p.about, Answer(p.type))
  BY DEF Answers, TransId
<1>2. PICK c \in Clients :
        r = [kind |-> "RESPONSE", to |-> c, from |-> s, id |-> p.id,
             about |-> p.about, data |-> Answer(p.type), late |-> FALSE]
  BY <1>1 DEF RESPONSE
<1>3. p.about \in Clients \X Nat /\ Query(p.about) \in QueryType
  <2>1. PICK d \in Clients, n \in Nat : p.about = <<d, n>>
    BY <1>1 DEF IsQuery, Asked
  <2>2. n \in 1..Len(asked[d]) /\ Query(p.about) = asked[d][n]
    BY <1>1, <2>1 DEF IsQuery, Asked, Query
  <2>3. asked[d] \in Seq(QueryType)
    BY DEF Fields
  <2>. QED BY <2>1, <2>2, <2>3
<1>4. p.id \in Ids \cup Nat
  BY <1>1, <1>3 DEF IsQuery, QueryType
<1>5. Answer(p.type) \in {"hostname", "time", "load", "error"}
  BY DEF Answer, Metadata
<1>6. r \in Response
  BY <1>2, <1>3, <1>4, <1>5 DEF Response
<1>. QED BY <1>1, <1>2, <1>6 DEF IsResponse, IsQuery

(* Packets that a server or the network leaves.                            *)
LEMMA PacketsLeft ==
  ASSUME Inv, asked' = asked, client' = client,
         \A p \in net' : p \in net \/ p.kind = "other" \/ IsResponse(p)
  PROVE  Inv'
<1>. USE DEF Inv
<1>1. Packets'
  BY SameQueries DEF Packets
<1>2. AllShown'
  BY SameQueries DEF AllShown
<1>. QED BY <1>1, <1>2 DEF Fields

LEMMA ServerInv ==
  ASSUME Inv, NEW s \in Servers,
         NewHello(s) \/ \E p \in net : NewServerReads(s, p) \/ OldServerReads(s, p)
  PROVE  Inv'
<1>1. CASE NewHello(s)
  BY <1>1, PacketsLeft, HelloKind DEF NewHello
<1>2. ASSUME NEW p \in net, NewServerReads(s, p) \/ OldServerReads(s, p) PROVE Inv'
  <2>1. p.kind = "QUERY" => IsQuery(p)
    BY DEF Inv, Packets, IsResponse, Response
  <2>2. \A r \in Answers(s, p) : IsResponse(r)
    BY <2>1, AnswersRight DEF Inv
  <2>3. asked' = asked /\ client' = client
    BY <1>2 DEF NewServerReads, OldServerReads
  <2>4. net' \subseteq net \cup HELLO \cup Answers(s, p)
    BY <1>2 DEF NewServerReads, OldServerReads
  <2>. QED BY <2>2, <2>3, <2>4, PacketsLeft, HelloKind
<1>. QED BY <1>1, <1>2

LEMMA FaultInv ==
  ASSUME Inv, NEW p \in net, Lose(p) \/ Delay(p)
  PROVE  Inv'
<1>1. CASE Lose(p)
  BY <1>1, PacketsLeft DEF Lose, Fault
<1>2. CASE Delay(p)
  <2>1. IsResponse(p)
    BY <1>2 DEF Delay, Inv, Packets, IsQuery
  <2>2. /\ [p EXCEPT !.late = TRUE] \in Response
        /\ [p EXCEPT !.late = TRUE].about = p.about
        /\ [p EXCEPT !.late = TRUE].id = p.id
        /\ [p EXCEPT !.late = TRUE].data = p.data
    BY <2>1 DEF IsResponse, Response
  <2>3. IsResponse([p EXCEPT !.late = TRUE])
    BY <2>1, <2>2 DEF IsResponse
  <2>. QED BY <1>2, <2>3, PacketsLeft DEF Delay, Fault
<1>. QED BY <1>1, <1>2

(* What a client adds to its list comes from a response with its present   *)
(* identifier.                                                             *)
LEMMA ShowsRight ==
  ASSUME Inv, NEW c \in Clients, NEW p \in net
  PROVE  Shows(c, p) \in Client /\ \A r \in Shows(c, p).shown : ShownFor(c, r)
<1>. USE DEF Inv
<1>1. client[c] \in Client /\ \A r \in client[c].shown : ShownFor(c, r)
  BY DEF Fields, AllShown
<1>2. CASE Matches(c, p)
  <2>. DEFINE new == [from |-> p.from, about |-> p.about, data |-> p.data]
  <2>1. IsResponse(p) /\ p.id = Current(c).id
    BY <1>2 DEF Matches, Packets, IsQuery
  <2>2. new \in Entry /\ ShownFor(c, new)
    BY <2>1 DEF IsResponse, Response, Entry, ShownFor
  <2>3. Shows(c, p) = [client[c] EXCEPT !.quiet = 0, !.shown = @ \cup {new}]
    BY <1>2 DEF Shows
  <2>. HIDE DEF new
  <2>4. Shows(c, p) = [at |-> client[c].at, quiet |-> 0, shown |-> client[c].shown \cup {new}]
    BY <1>1, <2>3 DEF Client
  <2>5. Shows(c, p) \in Client /\ Shows(c, p).shown = client[c].shown \cup {new}
    BY <1>1, <2>2, <2>4 DEF Client
  <2>. QED BY <1>1, <2>2, <2>5
<1>3. CASE ~Matches(c, p)
  <2>1. Shows(c, p) = [client[c] EXCEPT !.quiet = 0, !.shown = @]
    BY <1>3 DEF Shows
  <2>2. Shows(c, p) = [at |-> client[c].at, quiet |-> 0, shown |-> client[c].shown]
    BY <1>1, <2>1 DEF Client
  <2>3. Shows(c, p) \in Client /\ Shows(c, p).shown = client[c].shown
    BY <1>1, <2>2 DEF Client
  <2>. QED BY <1>1, <2>3
<1>. QED BY <1>2, <1>3

(* A step of one client that asks nothing and shows only what is right.    *)
LEMMA ClientStep ==
  ASSUME Inv, NEW c \in Clients, NEW now \in Client,
         \A r \in now.shown : ShownFor(c, r),
         client' = [client EXCEPT ![c] = now], asked' = asked, net' \subseteq net
  PROVE  Inv'
<1>. USE DEF Inv
<1>1. Packets'
  BY SameQueries DEF Packets
<1>2. client'[c] = now /\ \A d \in Clients : d # c => client'[d] = client[d]
  BY DEF Fields
<1>3. AllShown'
  BY <1>2, SameQueries DEF AllShown
<1>4. Fields'
  BY DEF Fields
<1>. QED BY <1>1, <1>3, <1>4

Back(now) == [now EXCEPT !.at = "prompt", !.quiet = 0]

LEMMA BackAtPrompt ==
  ASSUME NEW now \in Client
  PROVE  Back(now) \in Client /\ Back(now).shown = now.shown
<1>. DEFINE once == [now EXCEPT !.at = "prompt"]
<1>1. once = [at |-> "prompt", quiet |-> now.quiet, shown |-> now.shown]
  BY DEF Client
<1>2. Back(now) = [once EXCEPT !.quiet = 0]
  BY DEF Back
<1>. HIDE DEF once
<1>3. Back(now) = [at |-> "prompt", quiet |-> 0, shown |-> now.shown]
  BY <1>1, <1>2
<1>. QED BY <1>3 DEF Client

LEMMA ReadsInv ==
  ASSUME Inv, NEW c \in Clients, NEW p \in net, NewClientReads(c, p) \/ OldClientReads(c, p)
  PROVE  Inv'
<1>1. asked' = asked /\ net' \subseteq net
  BY DEF NewClientReads, OldClientReads, Reads
<1>2. Shows(c, p) \in Client /\ \A r \in Shows(c, p).shown : ShownFor(c, r)
  BY ShowsRight
<1>3. CASE client' = [client EXCEPT ![c] = Shows(c, p)]
  BY <1>1, <1>2, <1>3, ClientStep
<1>4. CASE client' = [client EXCEPT ![c] = Back(Shows(c, p))]
  <2>1. Back(Shows(c, p)) \in Client /\ Back(Shows(c, p)).shown = Shows(c, p).shown
    BY <1>2, BackAtPrompt
  <2>. QED BY <1>1, <1>2, <1>4, <2>1, ClientStep
<1>. QED BY <1>3, <1>4 DEF NewClientReads, OldClientReads, GoesOn, Returns, Back

LEMMA TimeOutInv ==
  ASSUME Inv, NEW c \in Clients, TimeOut(c)
  PROVE  Inv'
<1>1. client[c] \in Client /\ \A r \in client[c].shown : ShownFor(c, r)
  BY DEF Inv, Fields, AllShown
<1>2. Back(client[c]) \in Client /\ Back(client[c]).shown = client[c].shown
  BY <1>1, BackAtPrompt
<1>3. /\ client' = [client EXCEPT ![c] = Back(client[c])]
      /\ asked' = asked /\ net' \subseteq net
  BY DEF TimeOut, Returns, Back
<1>. QED BY <1>1, <1>2, <1>3, ClientStep

LEMMA LeaveInv ==
  ASSUME Inv, NEW c \in Clients, Leave(c)
  PROVE  Inv'
<1>. DEFINE now == [client[c] EXCEPT !.at = "gone"]
<1>1. client[c] \in Client /\ \A r \in client[c].shown : ShownFor(c, r)
  BY DEF Inv, Fields, AllShown
<1>2. now \in Client /\ now.shown = client[c].shown
  BY <1>1 DEF Client
<1>3. client' = [client EXCEPT ![c] = now] /\ asked' = asked /\ net' \subseteq net
  BY DEF Leave, Inv, Fields
<1>. HIDE DEF now
<1>. QED BY <1>1, <1>2, <1>3, ClientStep

LEMMA TickInv == Inv /\ Tick => Inv'
<1>. SUFFICES ASSUME Inv, Tick PROVE Inv'
  OBVIOUS
<1>. USE DEF Inv
<1>1. asked' = asked /\ net' = net
  BY DEF Tick
<1>2. ASSUME NEW c \in Clients PROVE client'[c] \in Client /\ client'[c].shown = client[c].shown
  <2>1. client[c] \in Client
    BY DEF Fields
  <2>2. client'[c] = client[c] \/ client'[c] = [client[c] EXCEPT !.quiet = @ + 1]
    BY DEF Tick
  <2>. QED BY <2>1, <2>2 DEF Client
<1>3. DOMAIN client' = Clients /\ client' = [c \in Clients |-> client'[c]]
  BY DEF Tick
<1>4. Fields'
  BY <1>1, <1>2, <1>3 DEF Fields
<1>5. Packets' /\ AllShown'
  BY <1>1, <1>2, SameQueries DEF Packets, AllShown
<1>. QED BY <1>4, <1>5

LEMMA UsersInv == Inv /\ Users => Inv'
<1>. SUFFICES ASSUME Inv, Users PROVE Inv'
  OBVIOUS
<1>1. ASSUME NEW c \in NewClients, NEW t \in Types, NewQuery(c, t) PROVE Inv'
  BY <1>1, AskInv DEF NewQuery, Clients, QueryType
<1>2. ASSUME NEW c \in OldClients, NEW t \in Types, OldQuery(c, t) PROVE Inv'
  <2>1. c \in Clients
    BY DEF Clients
  <2>2. Len(asked[c]) + 1 \in Nat
    BY <2>1 DEF Inv, Fields
  <2>3. [id |-> Len(asked[c]) + 1, type |-> t] \in QueryType
    BY <2>2 DEF QueryType
  <2>. QED BY <1>2, <2>1, <2>3, AskInv DEF OldQuery
<1>3. ASSUME NEW c \in Clients, Leave(c) PROVE Inv'
  BY <1>3, LeaveInv
<1>. QED BY <1>1, <1>2, <1>3 DEF Users

LEMMA SystemInv == Inv /\ System => Inv'
<1>. SUFFICES ASSUME Inv, System PROVE Inv'
  OBVIOUS
<1>1. ASSUME NEW s \in NewServers, NewHello(s) \/ \E p \in net : NewServerReads(s, p)
      PROVE  Inv'
  BY <1>1, ServerInv DEF Servers
<1>2. ASSUME NEW s \in OldServers, NEW p \in net, OldServerReads(s, p) PROVE Inv'
  BY <1>2, ServerInv DEF Servers
<1>3. ASSUME NEW c \in NewClients, TimeOut(c) \/ \E p \in net : NewClientReads(c, p)
      PROVE  Inv'
  BY <1>3, TimeOutInv, ReadsInv DEF Clients
<1>4. ASSUME NEW c \in OldClients, NEW p \in net, OldClientReads(c, p) PROVE Inv'
  BY <1>4, ReadsInv DEF Clients
<1>5. CASE Tick
  BY <1>5, TickInv
<1>. QED BY <1>1, <1>2, <1>3, <1>4, <1>5 DEF System

LEMMA NextInv == Inv /\ [Next]_vars => Inv'
<1>1. Inv /\ UNCHANGED vars => Inv'
  <2>. SUFFICES ASSUME Inv, UNCHANGED vars PROVE Inv'
    OBVIOUS
  <2>. QED BY PacketsLeft DEF vars
<1>. QED BY <1>1, UsersInv, SystemInv, FaultInv DEF Next

(* What is shown with the present identifier is the present query's, or    *)
(* another query has the same identifier.                                  *)
LEMMA ShownIsOwn == Inv => AnswersOwnQuery
<1>. SUFFICES ASSUME Inv, NEW c \in Clients, NEW r \in client[c].shown, ~Collides(c)
              PROVE  r.about = <<c, Len(asked[c])>> /\ r.data = Metadata[Current(c).type]
  BY DEF AnswersOwnQuery
<1>1. ShownFor(c, r)
  BY DEF Inv, AllShown
<1>2. PICK d \in Clients, n \in Nat : r.about = <<d, n>>
  BY <1>1 DEF ShownFor, Asked
<1>3. n \in 1..Len(asked[d]) /\ asked[d][n].id = Current(c).id
  BY <1>1, <1>2 DEF ShownFor, Asked, Query
<1>4. asked[d] \in Seq(QueryType)
  BY DEF Inv, Fields
<1>5. n \in DOMAIN asked[d]
  BY <1>3, <1>4
<1>6. <<d, n>> = <<c, Len(asked[c])>>
  BY <1>3, <1>5 DEF Collides
<1>7. Query(r.about) = Current(c) /\ Current(c) = asked[d][n]
  BY <1>2, <1>6 DEF Query, Current
<1>8. Current(c).type \in DOMAIN Metadata
  <2>1. asked[d][n] \in QueryType
    BY <1>3, <1>4
  <2>. QED BY <1>7, <2>1, CLDPAssumption DEF QueryType
<1>. QED BY <1>1, <1>2, <1>6, <1>7, <1>8 DEF ShownFor, Answer

(* For any servers, clients, identifiers and queries, and whatever packets *)
(* are lost or late: a client shows answers to its own query, unless two   *)
(* queries of the host have one identifier (cldp_client.c, line 257).      *)
THEOREM OwnAnswers == Spec => []AnswersOwnQuery
BY InitInv, NextInv, ShownIsOwn, PTL DEF Spec
-----------------------------------------------------------------------------
(* The users' bound on queries bounds those of each client, and with it    *)
(* the identifiers that a client of the first version counts.              *)
FewQueries == \A c \in Clients : Len(asked[c]) <= MaxQueries

LEMMA BelowBound ==
  ASSUME Fields, NEW c \in Clients,
         Cardinality({x \in Queries : x[2] <= Len(asked[x[1]])}) < MaxQueries
  PROVE  Len(asked[c]) < MaxQueries
<1>. DEFINE all == {x \in Queries : x[2] <= Len(asked[x[1]])}
            own == {c} \X (1..MaxQueries)
<1>1. MaxQueries \in Nat /\ IsFiniteSet(Clients)
  BY CLDPAssumption
<1>2. IsFiniteSet(1..MaxQueries) /\ Cardinality(1..MaxQueries) = MaxQueries
  <2>1. 1..MaxQueries = {} \/ MaxQueries > 0
    BY <1>1
  <2>. QED BY <1>1, FS_Interval
<1>3. IsFiniteSet(Queries)
  BY <1>1, <1>2, FS_Product DEF Queries
<1>4. IsFiniteSet(all)
  BY <1>3, FS_Subset
<1>5. IsFiniteSet({c}) /\ Cardinality({c}) = 1
  BY FS_Singleton
<1>6. Cardinality(own) = 1 * MaxQueries
  BY ZenonT(40), <1>2, <1>5, FS_Product
<1>7. Cardinality(own) = MaxQueries
  BY <1>1, <1>6
<1>8. Len(asked[c]) \in Nat
  BY DEF Fields
<1>. SUFFICES ASSUME Len(asked[c]) >= MaxQueries PROVE FALSE
  BY <1>1, <1>8
<1>9. own \subseteq all
  BY <1>1, <1>8 DEF Queries
<1>10. Cardinality(own) <= Cardinality(all)
  BY <1>4, <1>9, FS_Subset
<1>11. Cardinality(all) \in Nat
  BY <1>4, FS_CardinalityType
<1>. QED BY <1>1, <1>7, <1>10, <1>11

Receivers == Servers \cup {c \in Clients : Open(c)}
Bounds ==
  /\ \A c \in Clients : client[c].quiet \in 0..Timeout
  /\ asked \in [Clients -> Seq([id : Ids, type : Types])]
  /\ FewQueries
  /\ since \in [Servers -> 0..HelloInterval]
  /\ faults \in 0..MaxFaults
  /\ \A p \in net : p.to \in Receivers

LEMMA HelloTo == \A p \in HELLO : p.to \in Receivers
BY DEF HELLO, Receivers, Waiting, Open, Servers, Clients

LEMMA InitBounds == Init => Bounds
<1>. SUFFICES ASSUME Init PROVE Bounds
  OBVIOUS
<1>. USE CLDPAssumption DEF Init
<1>1. \A c \in Clients : client[c].quiet = 0 /\ asked[c] = <<>>
  OBVIOUS
<1>2. since \in [Servers -> 0..HelloInterval]
  OBVIOUS
<1>. QED BY <1>1, <1>2 DEF Bounds, FewQueries

LEMMA AskBounds ==
  ASSUME Inv, Bounds, NEW c \in Clients, NEW q \in [id : Ids, type : Types], Ask(c, q)
  PROVE  Bounds'
<1>. USE DEF Inv, Bounds, Fields
<1>1. Len(asked[c]) < MaxQueries
  BY BelowBound DEF Ask
<1>2. asked' = [asked EXCEPT ![c] = Append(@, q)]
  BY DEF Ask
<1>3. asked' \in [Clients -> Seq([id : Ids, type : Types])]
  <2>1. Append(asked[c], q) \in Seq([id : Ids, type : Types])
    BY AppendProperties
  <2>. QED BY <1>2, <2>1
<1>4. FewQueries'
  <2>. SUFFICES ASSUME NEW d \in Clients PROVE Len(asked'[d]) <= MaxQueries
    BY DEF FewQueries
  <2>1. CASE d = c
    <3>1. asked'[c] = Append(asked[c], q) /\ asked[c] \in Seq([id : Ids, type : Types])
      BY <1>2
    <3>2. Len(asked'[c]) = Len(asked[c]) + 1 /\ Len(asked[c]) \in Nat
      BY <3>1
    <3>. QED BY <1>1, <2>1, <3>2, CLDPAssumption
  <2>2. CASE d # c
    BY <1>2, <2>2 DEF FewQueries
  <2>. QED BY <2>1, <2>2
<1>5. \A d \in Clients : client'[d] = client[d]
                         \/ client'[d] = [at |-> "wait", quiet |-> 0, shown |-> {}]
  BY DEF Ask
<1>6. /\ \A d \in Clients : client'[d].quiet \in 0..Timeout
      /\ \A d \in Clients : Open(d) => Open(d)'
  <2>. SUFFICES ASSUME NEW d \in Clients
                PROVE  client'[d].quiet \in 0..Timeout /\ (Open(d) => client'[d].at # "gone")
    BY DEF Open
  <2>1. CASE client'[d] = client[d]
    BY <2>1 DEF Open
  <2>2. CASE client'[d] = [at |-> "wait", quiet |-> 0, shown |-> {}]
    BY <2>2, CLDPAssumption
  <2>. QED BY <1>5, <2>1, <2>2
<1>7. ASSUME NEW p \in net' PROVE p.to \in Receivers'
  <2>1. p \in net \cup QUERY(c, Len(asked[c]) + 1, q)
    BY DEF Ask
  <2>2. p.to \in Receivers
    BY <2>1, HelloTo DEF QUERY, Receivers
  <2>. QED BY <1>6, <2>2 DEF Receivers
<1>8. since' = since /\ faults' = faults
  BY DEF Ask
<1>. QED BY <1>3, <1>4, <1>6, <1>7, <1>8

LEMMA ServerBounds ==
  ASSUME Bounds, NEW s \in Servers,
         NewHello(s) \/ \E p \in net : NewServerReads(s, p) \/ OldServerReads(s, p)
  PROVE  Bounds'
<1>1. client' = client /\ asked' = asked /\ faults' = faults
  BY DEF NewHello, NewServerReads, OldServerReads
<1>2. since' \in [Servers -> 0..HelloInterval]
  BY CLDPAssumption DEF Bounds, NewHello, NewServerReads, OldServerReads
<1>3. \A p : \A r \in Answers(s, p) : r.to \in Receivers
  BY DEF Answers, RESPONSE, Receivers
<1>4. \A p \in net' : p.to \in Receivers
  BY <1>3, HelloTo DEF Bounds, NewHello, NewServerReads, OldServerReads
<1>5. Receivers' = Receivers
  BY <1>1 DEF Receivers, Open
<1>. QED BY <1>1, <1>2, <1>4, <1>5 DEF Bounds, FewQueries

LEMMA FaultBounds ==
  ASSUME Inv, Bounds, NEW p \in net, Lose(p) \/ Delay(p)
  PROVE  Bounds'
<1>1. client' = client /\ asked' = asked /\ since' = since /\ faults' = faults + 1
      /\ faults < MaxFaults
  BY DEF Lose, Delay, Fault
<1>2. Receivers' = Receivers
  BY <1>1 DEF Receivers, Open
<1>3. \A r \in net' : r.to \in Receivers
  <2>1. CASE Lose(p)
    BY <2>1 DEF Bounds, Lose, Fault
  <2>2. CASE Delay(p)
    <3>1. IsResponse(p)
      BY <2>2 DEF Delay, Inv, Packets, IsQuery
    <3>2. [p EXCEPT !.late = TRUE].to = p.to
      BY <3>1 DEF IsResponse, Response
    <3>. QED BY <2>2, <3>2 DEF Bounds, Delay, Fault
  <2>. QED BY <2>1, <2>2
<1>4. faults' \in 0..MaxFaults
  BY <1>1, CLDPAssumption DEF Bounds
<1>. QED BY <1>1, <1>2, <1>3, <1>4 DEF Bounds, FewQueries

(* A client that starts to wait anew, or comes back to its prompt.         *)
LEMMA ClientBounds ==
  ASSUME Inv, Bounds, NEW c \in Clients, NEW now \in Client,
         client' = [client EXCEPT ![c] = now], now.quiet = 0, now.at # "gone",
         net' \subseteq net, UNCHANGED <<asked, since, faults>>
  PROVE  Bounds'
<1>1. client'[c] = now /\ \A d \in Clients : d # c => client'[d] = client[d]
  BY DEF Inv, Fields
<1>2. \A d \in Clients : client'[d].quiet \in 0..Timeout
  BY <1>1, CLDPAssumption DEF Bounds
<1>3. \A p \in net' : p.to \in Receivers'
  BY <1>1 DEF Bounds, Receivers, Open
<1>. QED BY <1>2, <1>3 DEF Bounds, FewQueries

(* What a client becomes after a packet, and back at its prompt.           *)
LEMMA ShowsFields ==
  ASSUME Inv, NEW c \in Clients, NEW p
  PROVE  /\ Shows(c, p).quiet = 0 /\ Shows(c, p).at = client[c].at
         /\ client[c].shown \subseteq Shows(c, p).shown
<1>1. client[c] \in Client
  BY DEF Inv, Fields
<1>. QED BY <1>1 DEF Shows, Client

LEMMA BackFields ==
  ASSUME NEW now \in Client
  PROVE  Back(now).quiet = 0 /\ Back(now).at = "prompt"
<1>. DEFINE once == [now EXCEPT !.at = "prompt"]
<1>1. once = [at |-> "prompt", quiet |-> now.quiet, shown |-> now.shown]
  BY DEF Client
<1>2. Back(now) = [once EXCEPT !.quiet = 0]
  BY DEF Back
<1>. HIDE DEF once
<1>. QED BY <1>1, <1>2

LEMMA ReadsBounds ==
  ASSUME Inv, Bounds, NEW c \in Clients, NEW p \in net,
         NewClientReads(c, p) \/ OldClientReads(c, p)
  PROVE  Bounds'
<1>1. net' \subseteq net /\ UNCHANGED <<asked, since, faults>> /\ client[c].at = "wait"
  BY DEF NewClientReads, OldClientReads, Reads, Waiting
<1>2. Shows(c, p) \in Client /\ Shows(c, p).quiet = 0 /\ Shows(c, p).at = "wait"
  BY <1>1, ShowsRight, ShowsFields
<1>3. Back(Shows(c, p)) \in Client /\ Back(Shows(c, p)).quiet = 0
      /\ Back(Shows(c, p)).at = "prompt"
  BY <1>2, BackAtPrompt, BackFields
<1>4. CASE client' = [client EXCEPT ![c] = Shows(c, p)]
  BY <1>1, <1>2, <1>4, ClientBounds
<1>5. CASE client' = [client EXCEPT ![c] = Back(Shows(c, p))]
  BY <1>1, <1>3, <1>5, ClientBounds
<1>. QED BY <1>4, <1>5 DEF NewClientReads, OldClientReads, GoesOn, Returns, Back

LEMMA TimeOutBounds == ASSUME Inv, Bounds, NEW c \in Clients, TimeOut(c) PROVE Bounds'
<1>1. client[c] \in Client
  BY DEF Inv, Fields
<1>2. Back(client[c]) \in Client /\ Back(client[c]).quiet = 0
      /\ Back(client[c]).at = "prompt"
  BY <1>1, BackAtPrompt, BackFields
<1>3. client' = [client EXCEPT ![c] = Back(client[c])] /\ net' \subseteq net
      /\ UNCHANGED <<asked, since, faults>>
  BY DEF TimeOut, Returns, Back
<1>. QED BY <1>2, <1>3, ClientBounds

LEMMA LeaveBounds == ASSUME Inv, Bounds, NEW c \in Clients, Leave(c) PROVE Bounds'
<1>. USE DEF Inv, Fields
<1>1. client[c] \in Client
  OBVIOUS
<1>2. client'[c].quiet = client[c].quiet
      /\ \A d \in Clients : d # c => client'[d] = client[d]
  BY <1>1 DEF Leave, Client
<1>3. \A d \in Clients : client'[d].quiet \in 0..Timeout
  BY <1>2 DEF Bounds
<1>4. \A p \in net' : p.to \in Receivers'
  BY <1>2 DEF Leave, Bounds, Receivers, Open
<1>. QED BY <1>3, <1>4 DEF Leave, Bounds, FewQueries

LEMMA TickBounds == ASSUME Inv, Bounds, Tick PROVE Bounds'
<1>1. ASSUME NEW c \in Clients
      PROVE  client'[c].quiet \in 0..Timeout /\ client'[c].at = client[c].at
  <2>1. client[c] \in Client /\ client[c].quiet \in 0..Timeout
    BY DEF Inv, Fields, Bounds
  <2>2. CASE c \in NewClients /\ Waiting(c)
    <3>1. client[c].quiet # Timeout
      BY <2>2 DEF Tick, Busy, Expired
    <3>2. client'[c] = [client[c] EXCEPT !.quiet = client[c].quiet + 1]
      BY <2>2 DEF Tick
    <3>3. client'[c].quiet = client[c].quiet + 1 /\ client'[c].at = client[c].at
      BY <2>1, <3>2 DEF Client
    <3>. QED BY <2>1, <3>1, <3>3, CLDPAssumption
  <2>3. CASE ~(c \in NewClients /\ Waiting(c))
    BY <2>1, <2>3 DEF Tick
  <2>. QED BY <2>2, <2>3
<1>2. since' \in [Servers -> 0..HelloInterval]
  BY CLDPAssumption DEF Tick, Bounds, Due
<1>3. \A p \in net' : p.to \in Receivers'
  BY <1>1 DEF Tick, Bounds, Receivers, Open
<1>. QED BY <1>1, <1>2, <1>3 DEF Tick, Bounds, FewQueries

LEMMA NextBounds == Inv /\ Bounds /\ [Next]_vars => Bounds'
<1>. SUFFICES ASSUME Inv, Bounds, [Next]_vars PROVE Bounds'
  OBVIOUS
<1>1. ASSUME NEW c \in NewClients, NEW t \in Types, NewQuery(c, t) PROVE Bounds'
  <2>1. PICK i \in Ids : Ask(c, [id |-> i, type |-> t])
    BY <1>1 DEF NewQuery
  <2>2. [id |-> i, type |-> t] \in [id : Ids, type : Types] /\ c \in Clients
    BY DEF Clients
  <2>. QED BY <2>1, <2>2, AskBounds
<1>2. ASSUME NEW c \in OldClients, NEW t \in Types, OldQuery(c, t) PROVE Bounds'
  <2>1. c \in Clients
    BY DEF Clients
  <2>2. Len(asked[c]) \in Nat /\ Len(asked[c]) < MaxQueries
    BY <1>2, <2>1, BelowBound DEF OldQuery, Ask, Inv, Fields
  <2>3. Len(asked[c]) + 1 \in Ids
    BY <2>2, CLDPAssumption
  <2>4. [id |-> Len(asked[c]) + 1, type |-> t] \in [id : Ids, type : Types]
    BY <2>3
  <2>. QED BY <1>2, <2>1, <2>4, AskBounds DEF OldQuery
<1>3. ASSUME NEW c \in Clients, Leave(c) PROVE Bounds'
  BY <1>3, LeaveBounds
<1>4. ASSUME NEW s \in NewServers, NewHello(s) \/ \E p \in net : NewServerReads(s, p)
      PROVE  Bounds'
  BY <1>4, ServerBounds DEF Servers
<1>5. ASSUME NEW s \in OldServers, NEW p \in net, OldServerReads(s, p) PROVE Bounds'
  BY <1>5, ServerBounds DEF Servers
<1>6. ASSUME NEW c \in NewClients, TimeOut(c) \/ \E p \in net : NewClientReads(c, p)
      PROVE  Bounds'
  BY <1>6, TimeOutBounds, ReadsBounds DEF Clients
<1>7. ASSUME NEW c \in OldClients, NEW p \in net, OldClientReads(c, p) PROVE Bounds'
  BY <1>7, ReadsBounds DEF Clients
<1>8. CASE Tick
  BY <1>8, TickBounds
<1>9. ASSUME NEW p \in net, Lose(p) \/ Delay(p) PROVE Bounds'
  BY <1>9, FaultBounds
<1>10. CASE UNCHANGED vars
  BY <1>10 DEF vars, Bounds, FewQueries, Receivers, Open
<1>. QED BY <1>1, <1>2, <1>3, <1>4, <1>5, <1>6, <1>7, <1>8, <1>9, <1>10
         DEF Next, Users, System

LEMMA BoundsTyped == Inv /\ Bounds => TypeOK
<1>. SUFFICES ASSUME Inv, Bounds PROVE TypeOK
  OBVIOUS
<1>1. ASSUME NEW c \in Clients
      PROVE  client[c] \in [at : {"prompt", "wait", "gone"},
                            quiet : 0..Timeout, shown : SUBSET Shown]
  <2>1. client[c] \in Client /\ client[c].quiet \in 0..Timeout
    BY DEF Inv, Fields, Bounds
  <2>2. ASSUME NEW r \in client[c].shown PROVE r \in Shown
    <3>1. r \in Entry /\ Asked(r.about)
      BY <2>1 DEF Client, Inv, AllShown, ShownFor
    <3>2. PICK d \in Clients, n \in Nat : r.about = <<d, n>>
      BY <3>1 DEF Entry
    <3>3. n \in 1..Len(asked[d]) /\ Len(asked[d]) <= MaxQueries /\ Len(asked[d]) \in Nat
      BY <3>1, <3>2 DEF Asked, Bounds, FewQueries, Inv, Fields
    <3>4. n \in 1..MaxQueries
      BY <3>3, CLDPAssumption
    <3>. QED BY <3>1, <3>2, <3>4 DEF Entry, Shown, Queries
  <2>. QED BY <2>1, <2>2 DEF Client
<1>2. client = [c \in Clients |-> client[c]]
  BY DEF Inv, Fields
<1>3. client \in [Clients -> [at : {"prompt", "wait", "gone"},
                              quiet : 0..Timeout, shown : SUBSET Shown]]
  BY <1>1, <1>2
<1>. QED BY <1>3 DEF TypeOK, Bounds, Receivers

(* The variables of servers, clients and network keep their types.         *)
THEOREM TypeCorrect == Spec => []TypeOK
BY InitInv, InitBounds, NextInv, NextBounds, BoundsTyped, PTL DEF Spec
-----------------------------------------------------------------------------
(* While nothing is lost or late, each server that a waiting client has    *)
(* not heard has its query to read, or has answered it; and what is under  *)
(* way is read before a tick passes.                                       *)
HeardFrom(c, s) == \E r \in client[c].shown : r.from = s
Comes(c, s, p) ==
  /\ p.id = Current(c).id
  /\ \/ p.kind = "QUERY" /\ p.to = s
     \/ p.kind = "RESPONSE" /\ p.to = c /\ p.from = s
OnTheWay(c, s) == \E p \in net : Comes(c, s, p)
Settled(c) ==
  \/ Waiting(c) /\ client[c].quiet > 0
  \/ client[c].at = "prompt" /\ asked[c] # <<>>
Hears(c) ==
  /\ Waiting(c) => \A s \in Servers : OnTheWay(c, s) \/ HeardFrom(c, s)
  /\ Settled(c) => \A s \in Servers : HeardFrom(c, s)
InTime == \A p \in net : ~p.late
AllHeard == faults = 0 => InTime /\ \A c \in NewClients : Hears(c)

(* A step that leaves a client alone and takes nothing that it waits for.  *)
LEMMA SameHears ==
  ASSUME NEW c \in NewClients, Hears(c), client'[c] = client[c], asked'[c] = asked[c],
         \A s \in Servers, p \in net : Waiting(c) /\ Comes(c, s, p) => \E r \in net' : Comes(c, s, r)
  PROVE  Hears(c)'
<1>1. /\ Waiting(c)' <=> Waiting(c)
      /\ Settled(c)' <=> Settled(c)
      /\ \A s : HeardFrom(c, s)' <=> HeardFrom(c, s)
  BY DEF Waiting, Settled, HeardFrom
<1>2. \A s, p : Comes(c, s, p)' <=> Comes(c, s, p)
  BY DEF Comes, Current
<1>3. ASSUME NEW s \in Servers, Waiting(c), OnTheWay(c, s) PROVE OnTheWay(c, s)'
  BY <1>2, <1>3 DEF OnTheWay
<1>. QED BY <1>1, <1>3 DEF Hears

LEMMA InitHeard == Init => AllHeard
BY DEF Init, AllHeard, InTime, Hears, Waiting, Settled, Clients

LEMMA AskHeard ==
  ASSUME Inv, AllHeard, NEW c \in Clients, NEW q, Ask(c, q)
  PROVE  AllHeard'
<1>. SUFFICES ASSUME faults' = 0 PROVE InTime' /\ \A d \in NewClients : Hears(d)'
  BY DEF AllHeard
<1>1. faults = 0 /\ InTime /\ \A d \in NewClients : Hears(d)
  BY DEF Ask, AllHeard
<1>. PICK n : n = Len(asked[c]) + 1
  OBVIOUS
<1>2. /\ net' = net \cup QUERY(c, n, q)
      /\ \A d \in Clients : d # c => client'[d] = client[d] /\ asked'[d] = asked[d]
      /\ client'[c] = [at |-> "wait", quiet |-> 0, shown |-> {}]
      /\ asked'[c] = Append(asked[c], q)
  BY DEF Ask, Inv, Fields
<1>3. InTime'
  BY <1>1, <1>2 DEF InTime, QUERY, HELLO
<1>4. ASSUME NEW d \in NewClients PROVE Hears(d)'
  <2>1. CASE d # c
    BY <1>1, <1>2, <2>1, SameHears DEF Clients
  <2>2. CASE d = c
    <3>1. asked[c] \in Seq(QueryType)
      BY DEF Inv, Fields
    <3>2. Current(c)' = q
      BY <1>2, <3>1 DEF Current
    <3>3. ~Settled(c)'
      BY <1>2 DEF Settled
    <3>4. ASSUME NEW s \in Servers PROVE OnTheWay(c, s)'
      <4>1. PICK p : p = [kind |-> "QUERY", to |-> s, id |-> q.id, type |-> q.type,
                          about |-> <<c, n>>, late |-> FALSE]
        OBVIOUS
      <4>2. p \in net'
        BY <1>2, <4>1 DEF QUERY
      <4>3. Comes(c, s, p)'
        BY <3>2, <4>1 DEF Comes
      <4>. QED BY <4>2, <4>3 DEF OnTheWay
    <3>. QED BY <2>2, <3>3, <3>4 DEF Hears
  <2>. QED BY <2>1, <2>2
<1>. QED BY <1>3, <1>4

(* A server that reads a query has answered it at once: what a client      *)
(* waits for comes on.                                                     *)
LEMMA ServerKeeps ==
  ASSUME NEW s \in Servers, NEW p \in net, NewServerReads(s, p) \/ OldServerReads(s, p),
         NEW d \in Clients, NEW t \in Servers, NEW x \in net, Waiting(d), Comes(d, t, x)
  PROVE  \E r \in net' : Comes(d, t, r)
<1>1. p.to = s /\ (net \ {p}) \cup Answers(s, p) \subseteq net'
  BY DEF NewServerReads, OldServerReads
<1>2. CASE x # p
  BY <1>1, <1>2
<1>3. CASE x = p
  <2>1. p.kind = "QUERY" /\ t = s
    BY <1>1, <1>3, CLDPAssumption DEF Comes
  <2>2. PICK r : r = [kind |-> "RESPONSE", to |-> d, from |-> s, id |-> p.id,
                      about |-> p.about, data |-> Answer(p.type), late |-> FALSE]
    OBVIOUS
  <2>3. r \in Answers(s, p)
    BY <2>1, <2>2 DEF Answers, RESPONSE, TransId, Waiting, Open
  <2>4. Comes(d, t, r)
    BY <1>3, <2>1, <2>2 DEF Comes
  <2>. QED BY <1>1, <2>3, <2>4
<1>. QED BY <1>2, <1>3

LEMMA ServerHeard ==
  ASSUME Inv, AllHeard, NEW s \in Servers,
         NewHello(s) \/ \E p \in net : NewServerReads(s, p) \/ OldServerReads(s, p)
  PROVE  AllHeard'
<1>1. client' = client /\ asked' = asked /\ faults' = faults
  BY DEF NewHello, NewServerReads, OldServerReads
<1>. SUFFICES ASSUME faults = 0 PROVE InTime' /\ \A d \in NewClients : Hears(d)'
  BY <1>1 DEF AllHeard
<1>2. InTime /\ \A d \in NewClients : Hears(d)
  BY DEF AllHeard
<1>3. CASE NewHello(s)
  <2>1. net' = net \cup HELLO
    BY <1>3 DEF NewHello
  <2>2. InTime'
    BY <1>2, <2>1 DEF InTime, HELLO
  <2>. QED BY <1>1, <1>2, <2>1, <2>2, SameHears
<1>4. ASSUME NEW p \in net, NewServerReads(s, p) \/ OldServerReads(s, p)
      PROVE  InTime' /\ \A d \in NewClients : Hears(d)'
  <2>1. /\ p.to = s
        /\ net' \subseteq net \cup Answers(s, p) \cup HELLO
        /\ (net \ {p}) \cup Answers(s, p) \subseteq net'
    BY <1>4 DEF NewServerReads, OldServerReads
  <2>2. InTime'
    BY <1>2, <2>1 DEF InTime, HELLO, Answers, RESPONSE
  <2>3. ASSUME NEW d \in NewClients, NEW t \in Servers, NEW x \in net,
               Waiting(d), Comes(d, t, x)
        PROVE  \E r \in net' : Comes(d, t, r)
    BY <1>4, <2>3, ServerKeeps DEF Clients
  <2>4. ASSUME NEW d \in NewClients PROVE Hears(d)'
    BY <1>1, <1>2, <2>3, SameHears
  <2>. QED BY <2>2, <2>4
<1>. QED BY <1>3, <1>4

(* A step of one client takes only what is sent to it.                     *)
LEMMA OthersHear ==
  ASSUME Inv, NEW c \in Clients, NEW d \in NewClients, Hears(d), d # c,
         client'[d] = client[d], asked' = asked,
         \A p \in net : p.to # c => p \in net'
  PROVE  Hears(d)'
<1>1. ASSUME NEW s \in Servers, NEW p \in net, Comes(d, s, p) PROVE p \in net'
  BY <1>1, CLDPAssumption DEF Comes
<1>. QED BY <1>1, SameHears

LEMMA ReadsHeard ==
  ASSUME Inv, AllHeard, NEW c \in Clients, NEW p \in net,
         \/ c \in NewClients /\ NewClientReads(c, p)
         \/ c \in OldClients /\ OldClientReads(c, p)
  PROVE  AllHeard'
<1>1. /\ Waiting(c) /\ p.to = c /\ net' = net \ {p} /\ asked' = asked /\ faults' = faults
      /\ \A d \in Clients : d # c => client'[d] = client[d]
  BY DEF NewClientReads, OldClientReads, Reads, GoesOn, Returns, Inv, Fields
<1>. SUFFICES ASSUME faults = 0 PROVE InTime' /\ \A d \in NewClients : Hears(d)'
  BY <1>1 DEF AllHeard
<1>2. InTime /\ \A d \in NewClients : Hears(d)
  BY DEF AllHeard
<1>3. InTime'
  BY <1>1, <1>2 DEF InTime
<1>4. ASSUME NEW d \in NewClients, d # c PROVE Hears(d)'
  BY <1>1, <1>2, <1>4, OthersHear DEF Clients
<1>5. ASSUME c \in NewClients PROVE Hears(c)'
  <2>1. client'[c] = Shows(c, p)
    <3>1. NewClientReads(c, p)
      BY <1>5, CLDPAssumption
    <3>. QED BY <3>1 DEF NewClientReads, GoesOn, Inv, Fields
  <2>2. /\ Shows(c, p).quiet = 0 /\ Shows(c, p).at = "wait"
        /\ client[c].shown \subseteq Shows(c, p).shown
    BY <1>1, ShowsFields DEF Waiting
  <2>3. ~Settled(c)'
    BY <2>1, <2>2 DEF Settled
  <2>4. \A s : HeardFrom(c, s) => HeardFrom(c, s)'
    BY <2>1, <2>2 DEF HeardFrom
  <2>5. ASSUME NEW s \in Servers, NEW x \in net, Comes(c, s, x)
        PROVE  OnTheWay(c, s)' \/ HeardFrom(c, s)'
    <3>1. Comes(c, s, x)'
      BY <1>1, <2>5 DEF Comes, Current
    <3>2. CASE x # p
      BY <1>1, <3>1, <3>2 DEF OnTheWay
    <3>3. CASE x = p
      <4>1. Matches(c, p) /\ p.from = s
        BY <1>1, <2>5, <3>3, CLDPAssumption DEF Comes, Matches
      <4>2. PICK r : r = [from |-> p.from, about |-> p.about, data |-> p.data]
        OBVIOUS
      <4>3. r \in Shows(c, p).shown
        <5>1. client[c] \in Client
          BY DEF Inv, Fields
        <5>2. Shows(c, p) = [client[c] EXCEPT !.quiet = 0, !.shown = @ \cup {r}]
          BY <4>1, <4>2 DEF Shows
        <5>. QED BY <5>1, <5>2 DEF Client
      <4>4. r.from = s
        BY <4>1, <4>2
      <4>. QED BY <2>1, <4>3, <4>4 DEF HeardFrom
    <3>. QED BY <3>2, <3>3
  <2>6. \A s \in Servers : OnTheWay(c, s) \/ HeardFrom(c, s)
    BY <1>1, <1>2, <1>5 DEF Hears
  <2>7. \A s \in Servers : OnTheWay(c, s)' \/ HeardFrom(c, s)'
    BY <2>4, <2>5, <2>6 DEF OnTheWay
  <2>. QED BY <2>3, <2>7 DEF Hears
<1>. QED BY <1>3, <1>4, <1>5

(* poll has waited: what came before the last tick is read.                *)
LEMMA TimeOutHeard ==
  ASSUME Inv, AllHeard, NEW c \in NewClients, TimeOut(c) PROVE AllHeard'
<1>1. /\ Waiting(c) /\ client[c].quiet = Timeout /\ net' = net /\ asked' = asked
      /\ faults' = faults /\ client' = [client EXCEPT ![c] = Back(client[c])]
  BY DEF TimeOut, Returns, Back, Expired
<1>. SUFFICES ASSUME faults = 0 PROVE InTime' /\ \A d \in NewClients : Hears(d)'
  BY <1>1 DEF AllHeard
<1>2. InTime' /\ \A d \in NewClients : Hears(d)
  BY <1>1 DEF AllHeard, InTime
<1>3. client[c] \in Client /\ c \in Clients
  BY DEF Inv, Fields, Clients
<1>4. client'[c] = Back(client[c]) /\ \A d \in Clients : d # c => client'[d] = client[d]
  BY <1>1, <1>3 DEF Inv, Fields
<1>5. ASSUME NEW d \in NewClients, d # c PROVE Hears(d)'
  BY <1>1, <1>2, <1>3, <1>4, <1>5, OthersHear DEF Clients
<1>6. Hears(c)'
  <2>1. client'[c].at = "prompt" /\ client'[c].shown = client[c].shown
    BY <1>3, <1>4, BackAtPrompt, BackFields
  <2>2. Settled(c)
    BY <1>1, CLDPAssumption DEF Settled
  <2>3. \A s \in Servers : HeardFrom(c, s)'
    BY <1>2, <2>1, <2>2 DEF Hears, HeardFrom
  <2>. QED BY <2>3 DEF Hears
<1>. QED BY <1>2, <1>5, <1>6

LEMMA LeaveHeard == ASSUME Inv, AllHeard, NEW c \in Clients, Leave(c) PROVE AllHeard'
<1>1. /\ net' = {p \in net : p.to # c} /\ asked' = asked /\ faults' = faults
      /\ client' = [client EXCEPT ![c].at = "gone"]
  BY DEF Leave
<1>. SUFFICES ASSUME faults = 0 PROVE InTime' /\ \A d \in NewClients : Hears(d)'
  BY <1>1 DEF AllHeard
<1>2. InTime' /\ \A d \in NewClients : Hears(d)
  BY <1>1 DEF AllHeard, InTime
<1>3. client'[c].at = "gone" /\ \A d \in Clients : d # c => client'[d] = client[d]
  BY <1>1 DEF Inv, Fields, Client
<1>4. ASSUME NEW d \in NewClients, d # c PROVE Hears(d)'
  BY <1>1, <1>2, <1>3, <1>4, OthersHear DEF Clients
<1>5. Hears(c)'
  BY <1>3 DEF Hears, Waiting, Settled
<1>. QED BY <1>2, <1>4, <1>5

(* No tick passes while a waiting client's query or its answer is unread.  *)
LEMMA TickHeard == ASSUME Inv, AllHeard, Tick PROVE AllHeard'
<1>1. net' = net /\ asked' = asked /\ faults' = faults /\ ~Busy
  BY DEF Tick
<1>. SUFFICES ASSUME faults = 0 PROVE InTime' /\ \A d \in NewClients : Hears(d)'
  BY <1>1 DEF AllHeard
<1>2. InTime /\ InTime' /\ \A d \in NewClients : Hears(d)
  BY <1>1 DEF AllHeard, InTime
<1>3. ASSUME NEW c \in NewClients PROVE Hears(c)'
  <2>1. c \in Clients /\ client[c] \in Client
    BY DEF Inv, Fields, Clients
  <2>2. CASE Waiting(c)
    <3>1. \A s \in Servers : ~OnTheWay(c, s)
      BY <1>1, <1>2, <2>2 DEF OnTheWay, Comes, InTime, Busy
    <3>2. \A s \in Servers : HeardFrom(c, s)
      BY <1>2, <2>2, <3>1 DEF Hears
    <3>3. client'[c].shown = client[c].shown
      <4>1. client'[c] = [client[c] EXCEPT !.quiet = client[c].quiet + 1]
        BY <2>1, <2>2 DEF Tick
      <4>. QED BY <2>1, <4>1 DEF Client
    <3>4. \A s \in Servers : HeardFrom(c, s)'
      BY <3>2, <3>3 DEF HeardFrom
    <3>. QED BY <3>4 DEF Hears
  <2>3. CASE ~Waiting(c)
    <3>1. client'[c] = client[c]
      BY <2>1, <2>3 DEF Tick
    <3>. QED BY <1>1, <1>2, <3>1, SameHears
  <2>. QED BY <2>2, <2>3
<1>. QED BY <1>2, <1>3

LEMMA NextHeard == Inv /\ Bounds /\ AllHeard /\ [Next]_vars => AllHeard'
<1>. SUFFICES ASSUME Inv, Bounds, AllHeard, [Next]_vars PROVE AllHeard'
  OBVIOUS
<1>1. ASSUME NEW c \in NewClients, NEW t \in Types, NewQuery(c, t) PROVE AllHeard'
  BY <1>1, AskHeard DEF NewQuery, Clients
<1>2. ASSUME NEW c \in OldClients, NEW t \in Types, OldQuery(c, t) PROVE AllHeard'
  BY <1>2, AskHeard DEF OldQuery, Clients
<1>3. ASSUME NEW c \in Clients, Leave(c) PROVE AllHeard'
  BY <1>3, LeaveHeard
<1>4. ASSUME NEW s \in NewServers, NewHello(s) \/ \E p \in net : NewServerReads(s, p)
      PROVE  AllHeard'
  BY <1>4, ServerHeard DEF Servers
<1>5. ASSUME NEW s \in OldServers, NEW p \in net, OldServerReads(s, p) PROVE AllHeard'
  BY <1>5, ServerHeard DEF Servers
<1>6. ASSUME NEW c \in NewClients, TimeOut(c) \/ \E p \in net : NewClientReads(c, p)
      PROVE  AllHeard'
  BY <1>6, TimeOutHeard, ReadsHeard DEF Clients
<1>7. ASSUME NEW c \in OldClients, NEW p \in net, OldClientReads(c, p) PROVE AllHeard'
  BY <1>7, ReadsHeard DEF Clients
<1>8. CASE Tick
  BY <1>8, TickHeard
<1>9. ASSUME NEW p \in net, Lose(p) \/ Delay(p) PROVE AllHeard'
  <2>1. faults' = faults + 1 /\ faults \in Nat
    BY <1>9, CLDPAssumption DEF Lose, Delay, Fault, Bounds
  <2>. QED BY <2>1 DEF AllHeard
<1>10. CASE UNCHANGED vars
  <2>1. client' = client /\ asked' = asked /\ net' = net /\ faults' = faults
    BY <1>10 DEF vars
  <2>2. ASSUME NEW c \in NewClients, Hears(c) PROVE Hears(c)'
    BY <2>1, <2>2, SameHears
  <2>. QED BY <2>1, <2>2 DEF AllHeard, InTime
<1>. QED BY <1>1, <1>2, <1>3, <1>4, <1>5, <1>6, <1>7, <1>8, <1>9, <1>10
         DEF Next, Users, System

(* For any servers and clients: a final client that is back at its prompt  *)
(* has heard every server, unless a packet was lost or late                *)
(* (cldp_client.c, lines 217 and 218: the loop goes on after a response,   *)
(* and each packet starts the two seconds again).                          *)
THEOREM AllServersHeard == Spec => []AllServersShown
<1>1. Inv /\ AllHeard => AllServersShown
  <2>. SUFFICES ASSUME Inv, AllHeard, NEW c \in NewClients,
                       client[c].at = "prompt", asked[c] # <<>>, faults = 0
                PROVE  {r.from : r \in client[c].shown} = Servers
    BY DEF AllServersShown
  <2>1. \A s \in Servers : HeardFrom(c, s)
    BY DEF AllHeard, Hears, Settled
  <2>2. \A r \in client[c].shown : r.from \in Servers
    BY DEF Inv, Fields, Client, Entry, Clients
  <2>. QED BY <2>1, <2>2 DEF HeardFrom
<1>. QED BY InitInv, InitBounds, InitHeard, NextInv, NextBounds, NextHeard, <1>1, PTL
         DEF Spec
-----------------------------------------------------------------------------
(* The client of the first version has no timeout: what it waits for is    *)
(* its query on the way to a server, or an answer on the way back.  A      *)
(* server without either is one whose packet the network has lost.         *)
Cut(c)  == {s \in Servers : ~OnTheWay(c, s)}
Left(c) == Waiting(c) => IsFiniteSet(Cut(c)) /\ Cardinality(Cut(c)) <= faults
AllLeft == \A c \in OldClients : Left(c)

(* A fault cuts off one server from a client at most.                      *)
LEMMA OneMoreCut ==
  ASSUME Bounds, NEW c \in OldClients, Left(c), Waiting(c),
         NEW t, Cut(c)' \subseteq Cut(c) \cup {t}, faults' = faults + 1
  PROVE  Left(c)'
<1>1. IsFiniteSet(Cut(c)) /\ Cardinality(Cut(c)) <= faults /\ faults \in Nat
  BY CLDPAssumption DEF Left, Bounds
<1>2. /\ IsFiniteSet(Cut(c) \cup {t})
      /\ Cardinality(Cut(c) \cup {t}) \in {Cardinality(Cut(c)), Cardinality(Cut(c)) + 1}
      /\ Cardinality(Cut(c)) \in Nat
  BY <1>1, FS_AddElement, FS_CardinalityType
<1>3. /\ IsFiniteSet(Cut(c)') /\ Cardinality(Cut(c)') <= Cardinality(Cut(c) \cup {t})
      /\ Cardinality(Cut(c)') \in Nat
  BY <1>2, FS_Subset, FS_CardinalityType
<1>4. Cardinality(Cut(c)') <= faults + 1
  BY <1>1, <1>2, <1>3
<1>. QED BY <1>3, <1>4 DEF Left

(* A step that takes nothing a client waits for.                           *)
LEMMA SameLeft ==
  ASSUME Bounds, NEW c \in OldClients, Left(c),
         Waiting(c)' => Waiting(c), asked'[c] = asked[c], faults' = faults,
         \A s \in Servers, p \in net : Waiting(c) /\ Comes(c, s, p) => \E r \in net' : Comes(c, s, r)
  PROVE  Left(c)'
<1>. SUFFICES ASSUME Waiting(c)' PROVE IsFiniteSet(Cut(c)') /\ Cardinality(Cut(c)') <= faults'
  BY DEF Left
<1>1. \A s, p : Comes(c, s, p)' <=> Comes(c, s, p)
  BY DEF Comes, Current
<1>2. Cut(c)' \subseteq Cut(c)
  BY <1>1 DEF Cut, OnTheWay
<1>3. IsFiniteSet(Cut(c)) /\ Cardinality(Cut(c)) <= faults /\ faults \in Nat
  BY CLDPAssumption DEF Left, Bounds
<1>4. /\ IsFiniteSet(Cut(c)') /\ Cardinality(Cut(c)') <= Cardinality(Cut(c))
      /\ Cardinality(Cut(c)) \in Nat /\ Cardinality(Cut(c)') \in Nat
  BY <1>2, <1>3, FS_Subset, FS_CardinalityType
<1>5. Cardinality(Cut(c)') <= faults'
  BY <1>3, <1>4
<1>. QED BY <1>4, <1>5

LEMMA InitLeft == Init => AllLeft
BY DEF Init, AllLeft, Left, Waiting, Clients

LEMMA AskLeft ==
  ASSUME Inv, Bounds, AllLeft, NEW c \in Clients, NEW q, Ask(c, q)
  PROVE  AllLeft'
<1>. PICK n : n = Len(asked[c]) + 1
  OBVIOUS
<1>1. /\ net' = net \cup QUERY(c, n, q) /\ faults' = faults
      /\ \A d \in Clients : d # c => client'[d] = client[d] /\ asked'[d] = asked[d]
      /\ asked'[c] = Append(asked[c], q)
  BY DEF Ask, Inv, Fields
<1>2. ASSUME NEW d \in OldClients, d # c PROVE Left(d)'
  BY <1>1, <1>2, SameLeft DEF AllLeft, Waiting, Clients
<1>3. ASSUME c \in OldClients PROVE Left(c)'
  <2>1. asked[c] \in Seq(QueryType)
    BY DEF Inv, Fields
  <2>2. Current(c)' = q
    BY <1>1, <2>1 DEF Current
  <2>3. ASSUME NEW s \in Servers PROVE OnTheWay(c, s)'
    <3>1. PICK p : p = [kind |-> "QUERY", to |-> s, id |-> q.id, type |-> q.type,
                        about |-> <<c, n>>, late |-> FALSE]
      OBVIOUS
    <3>2. p \in net'
      BY <1>1, <3>1 DEF QUERY
    <3>3. Comes(c, s, p)'
      BY <2>2, <3>1 DEF Comes
    <3>. QED BY <3>2, <3>3 DEF OnTheWay
  <2>4. Cut(c)' = {}
    BY <2>3 DEF Cut
  <2>5. IsFiniteSet(Cut(c)') /\ Cardinality(Cut(c)') = 0
    BY <2>4, FS_EmptySet
  <2>6. faults' \in Nat
    BY <1>1, CLDPAssumption DEF Bounds
  <2>. QED BY <2>5, <2>6 DEF Left
<1>. QED BY <1>2, <1>3 DEF AllLeft

LEMMA ServerLeft ==
  ASSUME Inv, Bounds, AllLeft, NEW s \in Servers,
         NewHello(s) \/ \E p \in net : NewServerReads(s, p) \/ OldServerReads(s, p)
  PROVE  AllLeft'
<1>1. client' = client /\ asked' = asked /\ faults' = faults
  BY DEF NewHello, NewServerReads, OldServerReads
<1>2. CASE NewHello(s)
  BY <1>1, <1>2, SameLeft DEF NewHello, AllLeft, Waiting
<1>3. ASSUME NEW p \in net, NewServerReads(s, p) \/ OldServerReads(s, p) PROVE AllLeft'
  <2>1. ASSUME NEW d \in OldClients, NEW t \in Servers, NEW x \in net,
               Waiting(d), Comes(d, t, x)
        PROVE  \E r \in net' : Comes(d, t, r)
    BY <1>3, <2>1, ServerKeeps DEF Clients
  <2>. QED BY <1>1, <2>1, SameLeft DEF AllLeft, Waiting
<1>. QED BY <1>2, <1>3

(* A step of one client takes only what is sent to it.                     *)
LEMMA OthersLeft ==
  ASSUME Inv, Bounds, NEW c \in Clients, NEW d \in OldClients, Left(d), d # c,
         client'[d] = client[d], asked' = asked, faults' = faults,
         \A p \in net : p.to # c => p \in net'
  PROVE  Left(d)'
<1>1. ASSUME NEW s \in Servers, NEW p \in net, Comes(d, s, p) PROVE p \in net'
  BY <1>1, CLDPAssumption DEF Comes
<1>. QED BY <1>1, SameLeft DEF Waiting

(* The wait ends with the first answer: what a waiting client reads and    *)
(* throws away, it does not wait for.                                      *)
LEMMA ReadsLeft ==
  ASSUME Inv, Bounds, AllLeft, NEW c \in Clients, NEW p \in net,
         \/ c \in NewClients /\ NewClientReads(c, p)
         \/ c \in OldClients /\ OldClientReads(c, p)
  PROVE  AllLeft'
<1>1. /\ Waiting(c) /\ p.to = c /\ net' = net \ {p} /\ asked' = asked /\ faults' = faults
      /\ \A d \in Clients : d # c => client'[d] = client[d]
  BY DEF NewClientReads, OldClientReads, Reads, GoesOn, Returns, Inv, Fields
<1>2. ASSUME NEW d \in OldClients, d # c PROVE Left(d)'
  BY <1>1, <1>2, OthersLeft DEF Clients, AllLeft
<1>3. ASSUME c \in OldClients PROVE Left(c)'
  <2>1. OldClientReads(c, p)
    BY <1>3, CLDPAssumption
  <2>2. CASE Matches(c, p)
    <3>1. client' = [client EXCEPT ![c] = Back(Shows(c, p))]
      BY <2>1, <2>2 DEF OldClientReads, Returns, Back
    <3>2. Shows(c, p) \in Client
      BY <1>1, ShowsRight
    <3>3. Back(Shows(c, p)).at = "prompt"
      BY <3>2, BackFields
    <3>4. ~Waiting(c)'
      BY <3>1, <3>3 DEF Waiting, Inv, Fields
    <3>. QED BY <3>4 DEF Left
  <2>3. CASE ~Matches(c, p)
    <3>1. ASSUME NEW s \in Servers, NEW x \in net, Comes(c, s, x) PROVE x \in net'
      BY <1>1, <2>3, <3>1, CLDPAssumption DEF Comes, Matches
    <3>. QED BY <1>1, <1>3, <3>1, SameLeft DEF AllLeft
  <2>. QED BY <2>2, <2>3
<1>. QED BY <1>2, <1>3 DEF AllLeft

LEMMA LeaveLeft == ASSUME Inv, Bounds, AllLeft, NEW c \in Clients, Leave(c) PROVE AllLeft'
<1>1. /\ net' = {p \in net : p.to # c} /\ asked' = asked /\ faults' = faults
      /\ client' = [client EXCEPT ![c].at = "gone"]
  BY DEF Leave
<1>2. client'[c].at = "gone" /\ \A d \in Clients : d # c => client'[d] = client[d]
  BY <1>1 DEF Inv, Fields, Client
<1>3. ASSUME NEW d \in OldClients, d # c PROVE Left(d)'
  BY <1>1, <1>2, <1>3, OthersLeft DEF Clients, AllLeft
<1>4. Left(c)'
  BY <1>2 DEF Left, Waiting
<1>. QED BY <1>3, <1>4 DEF AllLeft

(* Clients of the first version look at no clock, and are not those of the *)
(* final one.                                                              *)
LEMMA ClockLeft ==
  ASSUME Inv, Bounds, AllLeft, Tick \/ \E c \in NewClients : TimeOut(c) PROVE AllLeft'
<1>1. net' = net /\ asked' = asked /\ faults' = faults
  BY DEF Tick, TimeOut
<1>2. ASSUME NEW d \in OldClients PROVE client'[d] = client[d]
  <2>1. d \in Clients /\ d \notin NewClients
    BY CLDPAssumption DEF Clients
  <2>. QED BY <2>1 DEF Tick, TimeOut, Returns, Inv, Fields
<1>. QED BY <1>1, <1>2, SameLeft DEF AllLeft, Waiting

(* A lost packet was for one server, or from one; a late one still comes.  *)
LEMMA FaultLeft ==
  ASSUME Inv, Bounds, AllLeft, NEW p \in net, Lose(p) \/ Delay(p) PROVE AllLeft'
<1>1. client' = client /\ asked' = asked /\ faults' = faults + 1
  BY DEF Lose, Delay, Fault
<1>. SUFFICES ASSUME NEW c \in OldClients, Waiting(c) PROVE Left(c)'
  BY <1>1 DEF AllLeft, Left, Waiting
<1>2. Left(c) /\ \A s, x : Comes(c, s, x)' <=> Comes(c, s, x)
  BY <1>1 DEF AllLeft, Comes, Current
<1>3. PICK t : t = IF p.kind = "QUERY" THEN p.to ELSE p.from
  OBVIOUS
<1>4. \A s \in Servers : Comes(c, s, p) => s = t
  BY <1>3 DEF Comes
<1>5. net \ {p} \subseteq net'
  BY DEF Lose, Delay, Fault
<1>6. Cut(c)' \subseteq Cut(c) \cup {t}
  BY <1>2, <1>4, <1>5 DEF Cut, OnTheWay
<1>. QED BY <1>1, <1>2, <1>6, OneMoreCut

LEMMA NextLeft == Inv /\ Bounds /\ AllLeft /\ [Next]_vars => AllLeft'
<1>. SUFFICES ASSUME Inv, Bounds, AllLeft, [Next]_vars PROVE AllLeft'
  OBVIOUS
<1>1. ASSUME NEW c \in NewClients, NEW t \in Types, NewQuery(c, t) PROVE AllLeft'
  BY <1>1, AskLeft DEF NewQuery, Clients
<1>2. ASSUME NEW c \in OldClients, NEW t \in Types, OldQuery(c, t) PROVE AllLeft'
  BY <1>2, AskLeft DEF OldQuery, Clients
<1>3. ASSUME NEW c \in Clients, Leave(c) PROVE AllLeft'
  BY <1>3, LeaveLeft
<1>4. ASSUME NEW s \in NewServers, NewHello(s) \/ \E p \in net : NewServerReads(s, p)
      PROVE  AllLeft'
  BY <1>4, ServerLeft DEF Servers
<1>5. ASSUME NEW s \in OldServers, NEW p \in net, OldServerReads(s, p) PROVE AllLeft'
  BY <1>5, ServerLeft DEF Servers
<1>6. ASSUME NEW c \in NewClients, NEW p \in net, NewClientReads(c, p) PROVE AllLeft'
  BY <1>6, ReadsLeft DEF Clients
<1>7. ASSUME NEW c \in OldClients, NEW p \in net, OldClientReads(c, p) PROVE AllLeft'
  BY <1>7, ReadsLeft DEF Clients
<1>8. CASE Tick \/ \E c \in NewClients : TimeOut(c)
  BY <1>8, ClockLeft
<1>9. ASSUME NEW p \in net, Lose(p) \/ Delay(p) PROVE AllLeft'
  BY <1>9, FaultLeft
<1>10. CASE UNCHANGED vars
  BY <1>10, SameLeft DEF vars, AllLeft, Waiting
<1>. QED BY <1>1, <1>2, <1>3, <1>4, <1>5, <1>6, <1>7, <1>8, <1>9, <1>10
         DEF Next, Users, System

(* A waiting client of the first version has its query, or an answer with  *)
(* its identifier, under way, unless there were as many faults as there    *)
(* are servers: without the timeout that temp/cldp_client.c (line 127)     *)
(* does not have, this is what the end of its wait rests on.               *)
AnswerStillComes == \A c \in OldClients : Waiting(c) =>
  \/ \E s \in Servers : OnTheWay(c, s)
  \/ IsFiniteSet(Servers) /\ faults >= Cardinality(Servers)

(* For any servers, clients and faults, a client without a timeout waits   *)
(* for something that comes (temp/cldp_client.c, line 127: recvfrom blocks *)
(* until a packet is there).                                               *)
THEOREM OldClientsAnswered == Spec => []AnswerStillComes
<1>1. Bounds /\ AllLeft => AnswerStillComes
  <2>. SUFFICES ASSUME Bounds, AllLeft, NEW c \in OldClients, Waiting(c),
                       \A s \in Servers : ~OnTheWay(c, s)
                PROVE  IsFiniteSet(Servers) /\ faults >= Cardinality(Servers)
    BY DEF AnswerStillComes
  <2>1. Cut(c) = Servers
    BY DEF Cut
  <2>2. IsFiniteSet(Servers) /\ Cardinality(Servers) <= faults /\ faults \in Nat
    BY <2>1, CLDPAssumption DEF AllLeft, Left, Bounds
  <2>3. Cardinality(Servers) \in Nat
    BY <2>2, FS_CardinalityType
  <2>. QED BY <2>2, <2>3
<1>. QED BY InitInv, InitBounds, InitLeft, NextInv, NextBounds, NextLeft, <1>1, PTL DEF Spec
=============================================================================
