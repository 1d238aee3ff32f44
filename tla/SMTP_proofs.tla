----------------------------- MODULE SMTP_proofs -----------------------------
(* The mail service: what a child stores is addressed, one child at a time *)
(* writes to a mailbox, what is stored is what was typed, client and       *)
(* server stay in step, and do not wait for each other.                    *)
EXTENDS SMTP, FiniteSetTheorems, SequenceTheorems, TLAPS

(* What state, in_data and the place of a child say about its addresses.   *)
(* HELO takes the state back and leaves in_data, a refusal clears both.    *)
Addressed(c) ==
  /\ c.state >= FROM => c.sender # Nothing
  /\ c.state >= RCPT => c.recipient # Nothing
  /\ c.in_data \/ c.at \in {"sem_wait", "append", "post 250", "post 500"}
       => c.sender # Nothing /\ c.recipient # Nothing

Sound == {c \in ChildType : Len(c.body) <= BodyCap /\ Addressed(c)}

ClientType == [at : {"start", "prompt", "await", "data", "body", "closed"},
               multi : BOOLEAN]
Mail == [by : Sessions, no : Nat, from : Names, to : Names, body : Seq(Line)]

Inv ==
  /\ child \in [Sessions -> Sound]
  /\ client \in [Sessions -> ClientType]
  /\ c2s \in [Sessions -> Seq(Line)]
  /\ sem \in [Names -> {0, 1}]
  /\ mailbox \in Seq(Mail)

(* The order of the states, on which the conditions of Addressed rest.     *)
States == INIT .. DATA
LEMMA Order ==
  /\ {INIT, HELO, FROM, RCPT, DATA} \subseteq States
  /\ ~(HELO >= FROM) /\ ~(HELO >= RCPT) /\ ~(FROM >= RCPT)
  /\ \A st \in States : st >= RCPT => st >= FROM
BY DEF States, INIT, HELO, FROM, RCPT, DATA

LEMMA Fields ==
  ASSUME NEW c \in Sound
  PROVE  /\ c.sender \in Names \cup {Nothing} /\ c.recipient \in Names \cup {Nothing}
         /\ c.body \in Seq(Line)
BY DEF Sound, ChildType

LEMMA InvTypes == Inv => TypeOK /\ EnvelopeComplete
BY DEF Inv, TypeOK, EnvelopeComplete, Sound, Addressed, Storing, InSection, ClientType, Mail

LEMMA LineFields ==
  ASSUME NEW l \in Line
  PROVE  l.a \in Names \cup {Nothing}
BY DEF Line

LEMMA ArgType ==
  ASSUME Inv, NEW s \in Sessions, c2s[s] # <<>>
  PROVE  arg(s) \in Names \cup {Nothing}
<1>1. Head(c2s[s]) \in Line
  BY DEF Inv
<1>2. Word \in Names
  BY DEF Names
<1>. QED BY <1>1, <1>2, LineFields DEF arg

(* A child that moves on stays sound: it begins to store a message only    *)
(* when it is in one, and goes on storing the message it has.              *)
Takes(at) == at \in {"sem_wait", "append", "post 250", "post 500"}
Places == {"none", "read", "sem_wait", "append", "post 250", "post 500", "250", "500",
           "gone", "killed"}

LEMMA Moves ==
  ASSUME NEW c \in Sound, NEW at \in Places,
         Takes(at) => Takes(c.at) \/ c.in_data
  PROVE  [c EXCEPT !.at = at] \in Sound
BY DEF Sound, ChildType, Addressed, Takes, Places

(* A step of one child that leaves it outside the section of the semaphore. *)
Section == {"append", "post 250", "post 500", "killed"}
Outside(s) ==
  /\ child' \in [Sessions -> Sound]
  /\ child'[s].at \notin Section
  /\ \A t \in Sessions \ {s} : child'[t] = child[t]

LEMMA Replaces ==
  ASSUME Inv, NEW s \in Sessions, NEW d \in Sound, d.at \notin Section,
         child' = [child EXCEPT ![s] = d]
  PROVE  Outside(s)
BY DEF Inv, Outside

LEMMA Keeps ==
  ASSUME Inv, NEW s \in Sessions, child[s].at \notin Section, UNCHANGED child
  PROVE  Outside(s)
BY DEF Inv, Outside

LEMMA FreshSound ==
  /\ Fresh \in Sound /\ Fresh.at \notin Section
  /\ [Fresh EXCEPT !.at = "read"] \in Sound
  /\ [Fresh EXCEPT !.at = "read"].at \notin Section
<1>1. Fresh \in Sound
  <2>1. Fresh \in ChildType
    BY DEF Fresh, ChildType, INIT, DATA
  <2>2. Len(Fresh.body) <= BodyCap
    BY SMTPAssumption DEF Fresh
  <2>3. Addressed(Fresh)
    BY DEF Fresh, Addressed, INIT, FROM, RCPT
  <2>. QED BY <2>1, <2>2, <2>3 DEF Sound
<1>2. "read" \in Places /\ ~Takes("read")
  BY DEF Places, Takes
<1>3. Fresh.at = "none" /\ [Fresh EXCEPT !.at = "read"].at = "read"
  BY DEF Fresh
<1>. QED BY <1>1, <1>2, <1>3, Moves DEF Section

LEMMA InitInv == Init => Inv
BY FreshSound DEF Init, Inv, ClientType

(* The commands of the dialogue: what each leaves in state and addresses.  *)
LEMMA HeloStep ==
  ASSUME Inv, NEW s \in Sessions, Helo(s)
  PROVE  Outside(s)
<1>. DEFINE d == [child[s] EXCEPT !.state = HELO]
<1>1. child[s] \in Sound /\ child[s].at \notin Section
  BY DEF Inv, Helo, Reads, Section
<1>2. d \in Sound /\ d.at \notin Section
  BY <1>1, Order DEF Sound, ChildType, Addressed, States
<1>. QED BY <1>1, <1>2, Replaces, Keeps DEF Helo, Becomes

LEMMA MailFromStep ==
  ASSUME Inv, NEW s \in Sessions, MailFrom(s)
  PROVE  Outside(s)
<1>. DEFINE a == arg(s)
<1>1. /\ child[s] \in Sound /\ child[s].at \notin Section
      /\ a \in Names \cup {Nothing}
  BY ArgType DEF Inv, MailFrom, Reads, Section
<1>2. CASE Forbid(s)
  BY <1>2, FreshSound, Replaces DEF Forbid, Becomes
<1>3. CASE Becomes(s, [child[s] EXCEPT !.sender = Scanned(@, a)])
  <2>. DEFINE d == [child[s] EXCEPT !.sender = Scanned(@, a)]
  <2>1. d \in Sound /\ d.at \notin Section
    BY <1>1 DEF Sound, ChildType, Addressed, Scanned
  <2>. QED BY <1>3, <2>1, Replaces DEF Becomes
<1>4. CASE /\ child[s].state >= HELO
           /\ a \in Addresses
           /\ Becomes(s, [child[s] EXCEPT !.state = FROM, !.sender = a])
  <2>1. a # Nothing
    BY <1>4, SMTPAssumption
  <2>. DEFINE d == [child[s] EXCEPT !.state = FROM, !.sender = a]
  <2>2. d \in Sound /\ d.at \notin Section
    BY <1>1, <2>1, Order DEF Sound, ChildType, Addressed, States
  <2>. QED BY <1>4, <2>2, Replaces DEF Becomes
<1>. QED BY <1>2, <1>3, <1>4 DEF MailFrom

LEMMA RcptToStep ==
  ASSUME Inv, NEW s \in Sessions, RcptTo(s)
  PROVE  Outside(s)
<1>. DEFINE a == arg(s)
<1>1. /\ child[s] \in Sound /\ child[s].at \notin Section
      /\ a \in Names \cup {Nothing}
  BY ArgType DEF Inv, RcptTo, Reads, Section
<1>2. CASE Forbid(s)
  BY <1>2, FreshSound, Replaces DEF Forbid, Becomes
<1>3. CASE Becomes(s, [child[s] EXCEPT !.recipient = Scanned(@, a)])
  <2>. DEFINE d == [child[s] EXCEPT !.recipient = Scanned(@, a)]
  <2>1. d \in Sound /\ d.at \notin Section
    BY <1>1 DEF Sound, ChildType, Addressed, Scanned
  <2>. QED BY <1>3, <2>1, Replaces DEF Becomes
<1>4. CASE /\ child[s].state >= FROM
           /\ a \in Addresses
           /\ Becomes(s, [child[s] EXCEPT !.state = RCPT, !.recipient = a])
  <2>1. a # Nothing
    BY <1>4, SMTPAssumption
  <2>. DEFINE d == [child[s] EXCEPT !.state = RCPT, !.recipient = a]
  <2>2. d \in Sound /\ d.at \notin Section
    BY <1>1, <1>4, <2>1, Order DEF Sound, ChildType, Addressed, States
  <2>. QED BY <1>4, <2>2, Replaces DEF Becomes
<1>. QED BY <1>2, <1>3, <1>4 DEF RcptTo

LEMMA DataStep ==
  ASSUME Inv, NEW s \in Sessions, Data(s)
  PROVE  Outside(s)
<1>1. child[s] \in Sound /\ child[s].at \notin Section
  BY DEF Inv, Data, Reads, Section
<1>2. CASE Forbid(s)
  BY <1>2, FreshSound, Replaces DEF Forbid, Becomes
<1>3. CASE /\ MayStart(child[s])
           /\ Becomes(s, [child[s] EXCEPT !.in_data = TRUE, !.state = DATA, !.body = <<>>])
  <2>1. <<>> \in Seq(Line) /\ Len(<<>>) <= BodyCap
    BY SMTPAssumption
  <2>. DEFINE d == [child[s] EXCEPT !.in_data = TRUE, !.state = DATA, !.body = <<>>]
  <2>2. d \in Sound /\ d.at \notin Section
    BY <1>1, <1>3, <2>1, Order DEF Sound, ChildType, Addressed, States, MayStart
  <2>. QED BY <1>3, <2>2, Replaces DEF Becomes
<1>. QED BY <1>2, <1>3 DEF Data

(* What Cut leaves of a message fits into the buffer.                      *)
LEMMA CutFits ==
  ASSUME NEW b \in Seq(Line)
  PROVE  Cut(b) \in Seq(Line) /\ Len(Cut(b)) <= BodyCap
<1>. DEFINE n == IF Len(b) < BodyCap THEN Len(b) ELSE BodyCap
<1>1. n \in Nat /\ n <= Len(b) /\ n <= BodyCap
  BY SMTPAssumption
<1>2. SubSeq(b, 1, n) \in Seq(Line) /\ Len(SubSeq(b, 1, n)) = n
  BY <1>1
<1>. QED BY <1>1, <1>2 DEF Cut, FirstOf

LEMMA BodyStep ==
  ASSUME Inv, NEW s \in Sessions, Body(s)
  PROVE  Outside(s)
<1>. DEFINE b == Cut(child[s].body \o c2s[s])
            d == [child[s] EXCEPT !.body = b]
<1>1. child[s] \in Sound /\ child[s].at \notin Section /\ c2s[s] \in Seq(Line)
  BY DEF Inv, Body, Reads, Section
<1>2. child[s].body \o c2s[s] \in Seq(Line)
  BY <1>1, Fields
<1>3. b \in Seq(Line) /\ Len(b) <= BodyCap
  BY <1>2, CutFits
<1>. HIDE DEF b
<1>4. d \in Sound /\ d.at \notin Section
  BY <1>1, <1>3 DEF Sound, ChildType, Addressed
<1>5. child' = [child EXCEPT ![s] = d]
  BY DEF Body, Becomes, b
<1>. QED BY <1>4, <1>5, Replaces

(* The dot ends a message only when the child is in one.                   *)
LEMMA EndMessageStep ==
  ASSUME Inv, NEW s \in Sessions, EndMessage(s)
  PROVE  Outside(s)
<1>. DEFINE d == [child[s] EXCEPT !.in_data = FALSE, !.at = "sem_wait"]
<1>1. child[s] \in Sound
  BY DEF Inv
<1>2. child[s].in_data
  <2>. DEFINE k == Head(c2s[s]).k
  <2>1. Command(child[s], c2s[s]) = "."
    BY DEF EndMessage, Reads
  <2>. SUFFICES ASSUME ~child[s].in_data PROVE FALSE
    OBVIOUS
  <2>2. Command(child[s], c2s[s]) # "."
    BY DEF Command, MessageFirst, Query, Envelope
  <2>. QED BY <2>1, <2>2
<1>3. d \in Sound /\ d.at \notin Section
  BY <1>1, <1>2 DEF Sound, ChildType, Addressed, Section
<1>. QED BY <1>3, Replaces DEF EndMessage, Becomes

(* A child that moves about outside the section.                           *)
LEMMA MoveStep ==
  ASSUME Inv, NEW s \in Sessions, NEW at \in Places \ Section, at # "sem_wait",
         child' = [child EXCEPT ![s].at = at]
  PROVE  Outside(s)
<1>. DEFINE d == [child[s] EXCEPT !.at = at]
<1>1. child[s] \in Sound
  BY DEF Inv
<1>2. d \in Sound
  BY <1>1, Moves DEF Takes, Section
<1>3. d.at = at
  BY <1>1 DEF Sound, ChildType
<1>4. child' = [child EXCEPT ![s] = d]
  OBVIOUS
<1>. HIDE DEF d
<1>. QED BY <1>2, <1>3, <1>4, Replaces

(* What the users have typed, and the streams to the clients.              *)
Histories ==
  /\ typed \in [Sessions -> Seq(Line)]
  /\ sent \in [Sessions -> Seq(Seq(Line))]
  /\ refused \in [Sessions -> SUBSET Nat]
  /\ s2c = [s \in Sessions |-> s2c[s]]

LEMMA HistoriesKept == Histories /\ [Next]_vars => Histories'
<1>. SUFFICES ASSUME Histories, [Next]_vars PROVE Histories'
  OBVIOUS
<1>. USE DEF Histories
<1>1. CASE UNCHANGED <<typed, sent, refused>> /\ s2c' = [s \in Sessions |-> s2c'[s]]
  BY <1>1
<1>2. ASSUME NEW s \in Sessions, NEW l \in BodyLines, TypeBody(s, l) PROVE Histories'
  <2>1. l \in Line /\ typed' = [typed EXCEPT ![s] = Append(typed[s], l)]
    BY <1>2, SMTPAssumption DEF TypeBody
  <2>2. Append(typed[s], l) \in Seq(Line)
    BY <2>1
  <2>. QED BY <1>2, <2>1, <2>2 DEF TypeBody, Write
<1>3. ASSUME NEW s \in Sessions, TypeDot(s) PROVE Histories'
  <2>1. /\ sent' = [sent EXCEPT ![s] = Append(sent[s], typed[s])]
        /\ typed' = [typed EXCEPT ![s] = <<>>]
    BY <1>3 DEF TypeDot
  <2>2. Append(sent[s], typed[s]) \in Seq(Seq(Line)) /\ <<>> \in Seq(Line)
    OBVIOUS
  <2>. QED BY <1>3, <2>1, <2>2 DEF TypeDot, Write
<1>4. ASSUME NEW s \in Sessions, StoreFails(s) PROVE Histories'
  <2>1. Len(sent[s]) \in Nat /\ refused' = [refused EXCEPT ![s] = refused[s] \cup {Len(sent[s])}]
    BY <1>4, LenProperties DEF StoreFails
  <2>. QED BY <1>4, <2>1 DEF StoreFails, conns
<1>5. ASSUME NEW s \in Sessions, handle_client(s) PROVE Histories'
  BY <1>5 DEF handle_client, Helo, MailFrom, RcptTo, Data, Body, EndMessage, List, GetMail, Quit,
              Invalid, Disconnect, Reads, Reply, Forbid, hist, conns
<1>6. ASSUME NEW s \in Sessions, Deliver(s) PROVE Histories'
  BY <1>4, <1>6 DEF Deliver, Store, sem_post, Stored, Reply, Others, hist
<1>. QED BY <1>1, <1>2, <1>3, <1>4, <1>5, <1>6
         DEF Next, vars, conns, hist, Others, Connect, TypeCommand, Write, ClientRead, Leave,
             EndOfInput, ServerGone, sem_wait, Crash

LEMMA MailStep ==
  ASSUME Inv, Histories, NEW s \in Sessions, child[s].at = "append"
  PROVE  [by |-> s, no |-> Len(sent[s]), from |-> child[s].sender, to |-> child[s].recipient,
          body |-> child[s].body] \in Mail
<1>1. Len(sent[s]) \in Nat
  BY LenProperties DEF Histories
<1>. QED BY <1>1 DEF Inv, Sound, ChildType, Addressed, Mail

LEMMA ClientStep ==
  ASSUME Inv, NEW s \in Sessions, NEW c \in ClientType,
         client' = [client EXCEPT ![s] = c]
  PROVE  client' \in [Sessions -> ClientType]
BY DEF Inv

LEMMA LineStep ==
  ASSUME Inv, NEW s \in Sessions, NEW l \in Line, Write(s, l)
  PROVE  c2s' \in [Sessions -> Seq(Line)]
BY DEF Inv, Write

LEMMA ChunkStep ==
  ASSUME Inv, NEW s \in Sessions, NEW k, Reads(s, k)
  PROVE  /\ c2s' \in [Sessions -> Seq(Line)]
         /\ UNCHANGED <<client, mailbox, sem>>
<1>1. <<>> \in Seq(Line)
  OBVIOUS
<1>. QED BY <1>1 DEF Inv, Reads
-----------------------------------------------------------------------------
(* The semaphore of a mailbox is at 1 and nobody holds it, or at 0 and one *)
(* child does: it is in the section, or it was killed there.               *)
Holds(s, r) == child[s].at \in Section /\ child[s].recipient = r
Exclusive ==
  \A r \in Names :
    \/ sem[r] = 1 /\ \A s \in Sessions : ~Holds(s, r)
    \/ sem[r] = 0 /\ \E s \in Sessions : \A t \in Sessions : Holds(t, r) <=> t = s

LEMMA ExclusiveIsOneWriter == Exclusive => OneWriter
<1>. SUFFICES ASSUME Exclusive, NEW r \in Names
              PROVE  Cardinality(Holders(r)) + sem[r] = 1
  BY DEF OneWriter
<1>1. Holders(r) = {s \in Sessions : Holds(s, r)}
  BY DEF Holders, Holds, InSection, Killed, Section
<1>2. CASE sem[r] = 1 /\ \A s \in Sessions : ~Holds(s, r)
  <2>1. Holders(r) = {}
    BY <1>1, <1>2
  <2>. QED BY <1>2, <2>1, FS_EmptySet
<1>3. CASE sem[r] = 0 /\ \E s \in Sessions : \A t \in Sessions : Holds(t, r) <=> t = s
  <2>1. PICK s \in Sessions : \A t \in Sessions : Holds(t, r) <=> t = s
    BY <1>3
  <2>2. Holders(r) = {s}
    BY <1>1, <2>1
  <2>. QED BY <1>3, <2>2, FS_Singleton
<1>. QED BY <1>2, <1>3 DEF Exclusive

LEMMA OutsideKeeps ==
  ASSUME Inv, Exclusive, NEW s \in Sessions, child[s].at \notin Section,
         Outside(s), UNCHANGED sem
  PROVE  Exclusive'
<1>1. \A t \in Sessions, r \in Names : Holds(t, r)' <=> Holds(t, r)
  BY DEF Outside, Holds
<1>. QED BY <1>1 DEF Exclusive

(* A child that stays in the section, or is killed in it.                  *)
LEMMA InsideKeeps ==
  ASSUME Inv, Exclusive, NEW s \in Sessions, child[s].at \in Section \ {"killed"},
         NEW at \in Section, child' = [child EXCEPT ![s].at = at], UNCHANGED sem
  PROVE  child' \in [Sessions -> Sound] /\ Exclusive'
<1>. DEFINE d == [child[s] EXCEPT !.at = at]
<1>1. child[s] \in Sound
  BY DEF Inv
<1>2. d \in Sound
  BY <1>1, Moves DEF Section, Takes, Places
<1>3. d.at = at /\ d.recipient = child[s].recipient
  BY <1>1 DEF Sound, ChildType
<1>4. child' = [child EXCEPT ![s] = d]
  OBVIOUS
<1>. HIDE DEF d
<1>5. /\ child' \in [Sessions -> Sound] /\ child'[s] = d
      /\ \A t \in Sessions \ {s} : child'[t] = child[t]
  BY <1>2, <1>4 DEF Inv
<1>6. \A t \in Sessions, r \in Names : Holds(t, r)' <=> Holds(t, r)
  BY <1>3, <1>5 DEF Holds
<1>. QED BY <1>5, <1>6 DEF Exclusive

LEMMA WaitStep ==
  ASSUME Inv, Exclusive, NEW s \in Sessions, sem_wait(s)
  PROVE  /\ child' \in [Sessions -> Sound] /\ sem' \in [Names -> {0, 1}]
         /\ Exclusive'
<1>. DEFINE d == [child[s] EXCEPT !.at = "append"]
            r == child[s].recipient
<1>1. child[s] \in Sound /\ child[s].at = "sem_wait"
  BY DEF Inv, sem_wait
<1>2. r \in Names
  BY <1>1 DEF Sound, ChildType, Addressed
<1>3. d \in Sound
  BY <1>1, Moves DEF Takes, Places
<1>4. d.at = "append" /\ d.recipient = r
  BY <1>1 DEF Sound, ChildType
<1>5. child' = [child EXCEPT ![s] = d]
  BY DEF sem_wait
<1>. HIDE DEF d
<1>6. /\ child' \in [Sessions -> Sound] /\ child'[s] = d
      /\ \A t \in Sessions \ {s} : child'[t] = child[t]
  BY <1>3, <1>5 DEF Inv
<1>7. sem[r] = 1 /\ sem' = [sem EXCEPT ![r] = 0]
  <2>1. sem[r] > 0 /\ sem' = [sem EXCEPT ![r] = sem[r] - 1]
    BY DEF sem_wait
  <2>2. sem[r] \in {0, 1}
    BY <1>2 DEF Inv
  <2>3. sem[r] = 1
    BY <2>1, <2>2
  <2>. QED BY <2>1, <2>3
<1>8. \A t \in Sessions, q \in Names :
        Holds(t, q)' <=> Holds(t, q) \/ (t = s /\ q = r)
  BY <1>1, <1>4, <1>6 DEF Holds, Section
<1>9. \A t \in Sessions : ~Holds(t, r)
  BY <1>2, <1>7 DEF Exclusive
<1>10. sem' \in [Names -> {0, 1}] /\ sem'[r] = 0
       /\ \A q \in Names \ {r} : sem'[q] = sem[q]
  BY <1>2, <1>7 DEF Inv
<1>11. Exclusive'
  <2>. SUFFICES ASSUME NEW q \in Names
                PROVE  \/ sem'[q] = 1 /\ \A t \in Sessions : ~Holds(t, q)'
                       \/ /\ sem'[q] = 0
                          /\ \E u \in Sessions : \A t \in Sessions : Holds(t, q)' <=> t = u
    BY DEF Exclusive
  <2>1. CASE q = r
    BY <2>1, <1>8, <1>9, <1>10
  <2>2. CASE q # r
    BY <2>2, <1>8, <1>10 DEF Exclusive
  <2>. QED BY <2>1, <2>2
<1>. QED BY <1>6, <1>10, <1>11

LEMMA PostStep ==
  ASSUME Inv, Exclusive, NEW s \in Sessions, sem_post(s)
  PROVE  /\ child' \in [Sessions -> Sound] /\ sem' \in [Names -> {0, 1}]
         /\ Exclusive'
<1>. DEFINE at == IF child[s].at = "post 250" THEN "250" ELSE "500"
            r == child[s].recipient
<1>1. child[s] \in Sound /\ child[s].at \in {"post 250", "post 500"}
  BY DEF Inv, sem_post
<1>2. r \in Names /\ Holds(s, r)
  BY <1>1 DEF Sound, ChildType, Addressed, Holds, Section
<1>3. child' = [child EXCEPT ![s].at = at]
  BY DEF sem_post
<1>4. at \in Places \ Section /\ at # "sem_wait"
  BY DEF Places, Section
<1>. HIDE DEF at
<1>5. Outside(s)
  BY <1>3, <1>4, MoveStep
<1>6. sem[r] = 0 /\ \A t \in Sessions : Holds(t, r) <=> t = s
  BY <1>2 DEF Exclusive
<1>7. sem' = [sem EXCEPT ![r] = 1]
  <2>1. sem' = [sem EXCEPT ![r] = sem[r] + 1]
    BY <1>1 DEF sem_post, Posts
  <2>. QED BY <2>1, <1>6
<1>8. \A t \in Sessions, q \in Names : Holds(t, q)' <=> Holds(t, q) /\ t # s
  BY <1>5 DEF Holds, Outside
<1>9. \A q \in Names : Holds(s, q) => q = r
  BY DEF Holds
<1>10. sem' \in [Names -> {0, 1}] /\ sem'[r] = 1
       /\ \A q \in Names \ {r} : sem'[q] = sem[q]
  BY <1>2, <1>7 DEF Inv
<1>11. Exclusive'
  <2>. SUFFICES ASSUME NEW q \in Names
                PROVE  \/ sem'[q] = 1 /\ \A t \in Sessions : ~Holds(t, q)'
                       \/ /\ sem'[q] = 0
                          /\ \E u \in Sessions : \A t \in Sessions : Holds(t, q)' <=> t = u
    BY DEF Exclusive
  <2>1. CASE q = r
    BY <2>1, <1>6, <1>8, <1>10
  <2>2. CASE q # r
    <3>1. ~Holds(s, q)
      BY <2>2, <1>9
    <3>2. \A t \in Sessions : Holds(t, q)' <=> Holds(t, q)
      BY <3>1, <1>8
    <3>. QED BY <2>2, <3>2, <1>10 DEF Exclusive
  <2>. QED BY <2>1, <2>2
<1>. QED BY <1>5, <1>10, <1>11 DEF Outside

-----------------------------------------------------------------------------
(* A client that has not connected has no child yet.                       *)
Unborn == \A s \in Sessions : client[s].at = "start" => child[s].at = "none"
Full   == Inv /\ Exclusive /\ Unborn

(* What the clients and the users do.                                      *)
LEMMA ConnectStep == ASSUME Full, NEW s \in Sessions, Connect(s) PROVE Full'
<1>1. client[s] \in ClientType /\ child[s].at = "none"
  BY DEF Full, Inv, Unborn, Connect
<1>2. [client[s] EXCEPT !.at = "prompt"] \in ClientType
  BY <1>1 DEF ClientType
<1>3. client' = [client EXCEPT ![s] = [client[s] EXCEPT !.at = "prompt"]]
  BY DEF Connect
<1>4. client' \in [Sessions -> ClientType]
  BY <1>2, <1>3, ClientStep DEF Full
<1>5. Outside(s)
  <2>1. "read" \in Places \ Section /\ "read" # "sem_wait"
    BY DEF Places, Section
  <2>. QED BY <2>1, MoveStep DEF Full, Connect
<1>6. Exclusive'
  BY <1>1, <1>5, OutsideKeeps DEF Full, Connect, Section
<1>7. Unborn'
  <2>1. client'[s].at = "prompt"
    BY <1>1, <1>3 DEF ClientType, Full, Inv
  <2>2. \A t \in Sessions \ {s} : client'[t] = client[t]
    BY <1>3 DEF Full, Inv
  <2>. QED BY <2>1, <2>2, <1>5 DEF Outside, Unborn, Full
<1>. QED BY <1>4, <1>5, <1>6, <1>7 DEF Full, Inv, Outside, Connect, conns

(* A client that goes on: neither its child nor the files take part.       *)
LEMMA ClientOnly ==
  ASSUME Full, NEW s \in Sessions, client[s].at # "start",
         NEW c \in ClientType, c.at # "start", client' = [client EXCEPT ![s] = c],
         c2s' \in [Sessions -> Seq(Line)], UNCHANGED <<child, mailbox, sem>>
  PROVE  Full'
<1>1. client' \in [Sessions -> ClientType]
  BY ClientStep DEF Full
<1>2. Exclusive'
  BY DEF Full, Exclusive, Holds
<1>3. Unborn'
  <2>1. client'[s] = c /\ \A t \in Sessions \ {s} : client'[t] = client[t]
    BY DEF Full, Inv
  <2>. QED BY <2>1 DEF Unborn, Full
<1>. QED BY <1>1, <1>2, <1>3 DEF Full, Inv

ClientPlaces == {"prompt", "await", "data", "body", "closed"}
LEMMA ClientMoves ==
  ASSUME NEW c \in ClientType, NEW at \in ClientPlaces
  PROVE  [c EXCEPT !.at = at] \in ClientType /\ [c EXCEPT !.at = at].at # "start"
BY DEF ClientType, ClientPlaces

LEMMA TypeCommandStep ==
  ASSUME Full, NEW s \in Sessions, NEW l \in Commands, TypeCommand(s, l)
  PROVE  Full'
<1>. DEFINE c == [at |-> IF l.k = "DATA" THEN "data" ELSE "await",
                  multi |-> l.k \in {"LIST", "GET_MAIL"}]
<1>1. l \in Line
  BY SMTPAssumption
<1>2. c2s' \in [Sessions -> Seq(Line)]
  BY <1>1, LineStep DEF TypeCommand, Full
<1>3. c \in ClientType /\ c.at # "start"
  BY DEF ClientType
<1>4. client' = [client EXCEPT ![s] = c]
  BY DEF TypeCommand
<1>. HIDE DEF c
<1>. QED BY <1>2, <1>3, <1>4, ClientOnly DEF TypeCommand, Write

LEMMA TypeBodyStep ==
  ASSUME Full, NEW s \in Sessions, NEW l \in BodyLines, TypeBody(s, l)
  PROVE  Full'
<1>1. l \in Line
  BY SMTPAssumption
<1>2. c2s' \in [Sessions -> Seq(Line)]
  BY <1>1, LineStep DEF TypeBody, Full
<1>. QED BY <1>2 DEF TypeBody, Write, Full, Inv, Exclusive, Holds, Unborn

LEMMA TypeDotStep == ASSUME Full, NEW s \in Sessions, TypeDot(s) PROVE Full'
<1>1. Dot \in Line
  BY DEF Dot, Line
<1>2. c2s' \in [Sessions -> Seq(Line)]
  BY <1>1, LineStep DEF TypeDot, Full
<1>3. client[s] \in ClientType
  BY DEF Full, Inv
<1>4. client' = [client EXCEPT ![s] = [client[s] EXCEPT !.at = "await"]]
  BY DEF TypeDot
<1>. QED BY <1>2, <1>3, <1>4, ClientMoves, ClientOnly DEF TypeDot, Write, ClientPlaces

LEMMA ClientReadStep == ASSUME Full, NEW s \in Sessions, ClientRead(s) PROVE Full'
<1>. DEFINE got == s2c[s]
            at == CASE client[s].multi /\ ~Has(got, Dashes)          -> client[s].at
                    [] Head(got).code = "Goodbye"                    -> "closed"
                    [] client[s].at = "data" /\ Has(got, {"Enter"})  -> "body"
                    [] OTHER                                         -> "prompt"
<1>1. client[s] \in ClientType /\ client[s].at \in {"await", "data"}
  BY DEF Full, Inv, ClientRead
<1>2. at \in ClientPlaces
  BY <1>1 DEF ClientPlaces
<1>3. client' = [client EXCEPT ![s] = [client[s] EXCEPT !.at = at]]
  BY DEF ClientRead
<1>. HIDE DEF at
<1>4. c2s' \in [Sessions -> Seq(Line)] /\ UNCHANGED <<child, mailbox, sem>>
  BY DEF ClientRead, Full, Inv
<1>. QED BY <1>1, <1>2, <1>3, <1>4, ClientMoves, ClientOnly

LEMMA LeaveStep ==
  ASSUME Full, NEW s \in Sessions, client[s].at # "start", Leave(s)
  PROVE  Full'
<1>1. client[s] \in ClientType /\ "closed" \in ClientPlaces
  BY DEF Full, Inv, ClientPlaces
<1>2. client' = [client EXCEPT ![s] = [client[s] EXCEPT !.at = "closed"]]
  BY DEF Leave
<1>3. c2s' \in [Sessions -> Seq(Line)] /\ UNCHANGED <<child, mailbox, sem>>
  BY DEF Leave, conns, Full, Inv
<1>. QED BY <1>1, <1>2, <1>3, ClientMoves, ClientOnly
-----------------------------------------------------------------------------
(* What a child does outside the section.                                  *)
LEMMA ChildOnly ==
  ASSUME Full, NEW s \in Sessions, child[s].at \notin Section, child[s].at # "none",
         Outside(s), c2s' \in [Sessions -> Seq(Line)], UNCHANGED <<client, mailbox, sem>>
  PROVE  Full'
<1>1. Exclusive'
  BY OutsideKeeps DEF Full
<1>2. Unborn'
  BY DEF Full, Unborn, Outside
<1>. QED BY <1>1, <1>2 DEF Full, Inv, Outside

LEMMA ReadSteps ==
  ASSUME Full, NEW s \in Sessions, NEW k, Reads(s, k), Outside(s)
  PROVE  Full'
<1>1. child[s].at \notin Section /\ child[s].at # "none"
  BY DEF Reads, Section
<1>. QED BY <1>1, ChunkStep, ChildOnly DEF Full

LEMMA handle_clientStep ==
  ASSUME Full, NEW s \in Sessions, handle_client(s)
  PROVE  Full'
<1>. Inv /\ Exclusive /\ Unborn
  BY DEF Full
<1>1. CASE Helo(s)
  BY <1>1, HeloStep, ReadSteps DEF Helo
<1>2. CASE MailFrom(s)
  BY <1>2, MailFromStep, ReadSteps DEF MailFrom
<1>3. CASE RcptTo(s)
  BY <1>3, RcptToStep, ReadSteps DEF RcptTo
<1>4. CASE Data(s)
  BY <1>4, DataStep, ReadSteps DEF Data
<1>5. CASE Body(s)
  BY <1>5, BodyStep, ReadSteps DEF Body
<1>6. CASE EndMessage(s)
  BY <1>6, EndMessageStep, ReadSteps DEF EndMessage
<1>7. CASE List(s) \/ GetMail(s) \/ Invalid(s)
  <2>1. PICK k \in {"LIST", "GET_MAIL", "empty", "unknown"} : Reads(s, k)
    BY <1>7 DEF List, GetMail, Invalid
  <2>2. child[s].at \notin Section
    BY <2>1 DEF Reads, Section
  <2>. QED BY <1>7, <2>1, <2>2, Keeps, ReadSteps DEF List, GetMail, Invalid
<1>8. CASE Quit(s)
  <2>1. "gone" \in Places \ Section /\ "gone" # "sem_wait"
    BY DEF Places, Section
  <2>2. Outside(s)
    BY <1>8, <2>1, MoveStep DEF Quit
  <2>. QED BY <1>8, <2>2, ReadSteps DEF Quit
<1>9. CASE Disconnect(s)
  <2>1. "gone" \in Places \ Section /\ "gone" # "sem_wait"
    BY DEF Places, Section
  <2>2. Outside(s)
    BY <1>9, <2>1, MoveStep DEF Disconnect
  <2>3. child[s].at \notin Section /\ child[s].at # "none"
    BY <1>9 DEF Disconnect, Section
  <2>. QED BY <1>9, <2>2, <2>3, ChildOnly DEF Disconnect, conns, Inv
<1>. QED BY <1>1, <1>2, <1>3, <1>4, <1>5, <1>6, <1>7, <1>8, <1>9 DEF handle_client

(* The section of the semaphore.                                           *)
LEMMA sem_waitStep == ASSUME Full, NEW s \in Sessions, sem_wait(s) PROVE Full'
<1>1. /\ child' \in [Sessions -> Sound] /\ sem' \in [Names -> {0, 1}]
      /\ Exclusive'
  BY WaitStep DEF Full
<1>2. Unborn'
  <2>1. child[s].at = "sem_wait" /\ \A t \in Sessions \ {s} : child'[t] = child[t]
    BY DEF sem_wait, Full, Inv
  <2>. QED BY <2>1 DEF Full, Unborn, sem_wait, Others
<1>. QED BY <1>1, <1>2 DEF Full, Inv, sem_wait, Others

LEMMA DeliverStep == ASSUME Full, Histories, NEW s \in Sessions, Deliver(s) PROVE Full'
<1>. Inv /\ Exclusive /\ Unborn
  BY DEF Full
<1>1. Unborn'
  <2>1. child[s].at # "none" /\ \A t \in Sessions \ {s} : child'[t] = child[t]
    BY DEF Deliver, Store, StoreFails, sem_post, Stored, Inv
  <2>. QED BY <2>1 DEF Unborn, Deliver, Store, StoreFails, sem_post, Stored, Others
<1>2. ASSUME child[s].at = "append", NEW at \in {"post 250", "post 500"},
             child' = [child EXCEPT ![s].at = at], UNCHANGED sem
      PROVE  child' \in [Sessions -> Sound] /\ Exclusive'
  BY <1>2, InsideKeeps DEF Section
<1>3. CASE Store(s)
  <2>1. child' \in [Sessions -> Sound] /\ Exclusive'
    BY <1>2, <1>3 DEF Store
  <2>2. PICK m \in Mail : mailbox' = Append(mailbox, m)
    BY <1>3, MailStep DEF Store
  <2>3. mailbox' \in Seq(Mail)
    BY <2>2 DEF Inv
  <2>. QED BY <1>1, <1>3, <2>1, <2>3 DEF Full, Inv, Store, Others
<1>4. CASE StoreFails(s)
  BY <1>1, <1>2, <1>4 DEF Full, Inv, StoreFails, conns
<1>5. CASE sem_post(s)
  BY <1>1, <1>5, PostStep DEF Full, Inv, sem_post, Others
<1>6. CASE Stored(s)
  <2>. DEFINE d == [child[s] EXCEPT !.at = "read", !.state = HELO]
  <2>1. child[s] \in Sound /\ child[s].at \notin Section
    BY <1>6 DEF Inv, Stored, Section
  <2>2. d \in Sound /\ d.at \notin Section
    BY <2>1, Order DEF Sound, ChildType, Addressed, States, Section
  <2>3. child' = [child EXCEPT ![s] = d]
    BY <1>6 DEF Stored
  <2>. HIDE DEF d
  <2>4. Outside(s)
    BY <2>2, <2>3, Replaces
  <2>5. Exclusive'
    BY <1>6, <2>1, <2>4, OutsideKeeps DEF Stored
  <2>. QED BY <1>1, <1>6, <2>4, <2>5 DEF Full, Inv, Outside, Stored, Others
<1>. QED BY <1>3, <1>4, <1>5, <1>6 DEF Deliver

LEMMA CrashStep == ASSUME Full, NEW s \in Sessions, Crash(s) PROVE Full'
<1>. Inv /\ Exclusive /\ Unborn
  BY DEF Full
<1>1. Unborn'
  <2>1. child[s].at # "none" /\ \A t \in Sessions \ {s} : child'[t] = child[t]
    BY DEF Crash, Inv
  <2>. QED BY <2>1 DEF Unborn, Crash
<1>2. child' \in [Sessions -> Sound] /\ Exclusive'
  <2>1. CASE InSection(s)
    <3>1. child' = [child EXCEPT ![s].at = "killed"]
      BY <2>1 DEF Crash
    <3>. QED BY <2>1, <3>1, InsideKeeps DEF InSection, Section, Crash
  <2>2. CASE ~InSection(s)
    <3>1. child' = [child EXCEPT ![s].at = "gone"] /\ child[s].at \notin Section
      BY <2>2 DEF Crash, InSection, Gone, Section
    <3>2. "gone" \in Places \ Section /\ "gone" # "sem_wait"
      BY DEF Places, Section
    <3>3. Outside(s)
      BY <3>1, <3>2, MoveStep
    <3>. QED BY <3>1, <3>3, OutsideKeeps DEF Outside, Crash
  <2>. QED BY <2>1, <2>2
<1>. QED BY <1>1, <1>2 DEF Full, Inv, Crash, conns

LEMMA NextInv == Full /\ Histories /\ [Next]_vars => Full'
<1>. SUFFICES ASSUME Full, Histories, [Next]_vars PROVE Full'
  OBVIOUS
<1>1. CASE UNCHANGED vars
  BY <1>1 DEF vars, conns, Full, Inv, Exclusive, Holds, Unborn
<1>2. ASSUME NEW s \in Sessions, EndOfInput(s) \/ ServerGone(s) PROVE Full'
  <2>1. client[s].at # "start" /\ Leave(s)
    BY <1>2 DEF EndOfInput, ServerGone
  <2>. QED BY <2>1, LeaveStep
<1>. QED BY <1>1, <1>2, ConnectStep, TypeCommandStep, TypeBodyStep, TypeDotStep,
            ClientReadStep, handle_clientStep, sem_waitStep, DeliverStep, CrashStep
         DEF Next

LEMMA Invariant == Spec => [](Full /\ Histories)
<1>0. Init => Histories
  BY DEF Init, Histories
<1>1. Init => Full
  <2>. SUFFICES ASSUME Init PROVE Full
    OBVIOUS
  <2>1. Exclusive
    BY DEF Init, Exclusive, Holds, Fresh, Section
  <2>2. Unborn
    BY DEF Init, Unborn, Fresh
  <2>. QED BY <2>1, <2>2, InitInv DEF Full
<1>. QED BY <1>0, <1>1, NextInv, HistoriesKept, PTL DEF Spec

(* The types, and that a body fits into email_body whatever number of lines*)
(* is appended to it (TypeOK); and that a child that is in a message, or   *)
(* stores one, has both addresses, although HELO takes the state back,     *)
(* refusals clear the session and bad addresses overwrite them             *)
(* (EnvelopeComplete; process_command and handle_client).                  *)
THEOREM Envelopes == Spec => [](TypeOK /\ EnvelopeComplete)
<1>1. Full => TypeOK /\ EnvelopeComplete
  BY InvTypes DEF Full
<1>. QED BY <1>1, Invariant, PTL

(* At most one child is between sem_wait and sem_post for a recipient,     *)
(* whatever children are killed, and a semaphore is at 1 exactly when      *)
(* nobody is there and nobody was killed there (store_email).              *)
THEOREM Exclusion == Spec => []OneWriter
<1>1. Full => OneWriter
  BY ExclusiveIsOneWriter DEF Full
<1>. QED BY <1>1, Invariant, PTL
-----------------------------------------------------------------------------
(* Which messages of s are stored, as far as the first n go: some of them, *)
(* in their order and cut to the buffer, and perhaps all but the refused.  *)
Filed(s, n) ==
  /\ \A k \in Mine(s) :
       /\ mailbox[k].no \in 1 .. n /\ mailbox[k].no \notin refused[s]
       /\ mailbox[k].body = FirstOf(BodyCap, sent[s][mailbox[k].no])
  /\ \A j, k \in Mine(s) : j < k => mailbox[j].no < mailbox[k].no
  /\ refused[s] \subseteq 1 .. n
Complete(s, n) ==
  \A m \in 1 .. n : m \in refused[s] \/ \E k \in Mine(s) : mailbox[k].no = m

SomeFiled(s) == \E n \in Nat : Len(sent[s]) = n /\ Filed(s, n)
AllFiled(s)  == \E n \in Nat : Len(sent[s]) = n /\ Filed(s, n) /\ Complete(s, n)
LastOpen(s)  == \E n \in Nat : Len(sent[s]) = n + 1 /\ Filed(s, n) /\ Complete(s, n)

(* Where client and child stand.                                           *)
Plainly(l)     == l \in Line /\ l.k \notin Envelope \cup {"DATA", ""} /\ l # Dot
Expects(s)     == client[s].at \in {"await", "data"}
Reading(s)     == child[s].at = "read"
KeptBody(s)    == child[s].body = FirstOf(BodyCap, sent[s][Len(sent[s])])

Unconnected(s) ==
  /\ client[s].at = "start" /\ child[s].at = "none"
  /\ c2s[s] = <<>> /\ s2c[s] = <<>> /\ typed[s] = <<>>
  /\ ~child[s].in_data /\ AllFiled(s)
Resting(s) ==
  /\ client[s].at \in {"prompt", "closed"} /\ Reading(s)
  /\ c2s[s] = <<>> /\ s2c[s] = <<>> /\ typed[s] = <<>>
  /\ ~child[s].in_data /\ AllFiled(s)
Asked(s) ==
  /\ Expects(s) /\ Reading(s)
  /\ \E l \in Line : c2s[s] = <<l>> /\ (l.k = "DATA" => client[s].at = "data")
  /\ s2c[s] = <<>> /\ typed[s] = <<>>
  /\ ~child[s].in_data /\ AllFiled(s)
Told(s) ==
  /\ Expects(s) /\ Reading(s)
  /\ s2c[s] # <<>> /\ s2c[s] = <<Head(s2c[s])>>
  /\ IF Head(s2c[s]).code = "Enter"
     THEN client[s].at = "data" /\ child[s].in_data /\ child[s].body = <<>>
     ELSE ~child[s].in_data
  /\ c2s[s] = <<>> /\ typed[s] = <<>> /\ AllFiled(s)
Typing(s) ==
  /\ client[s].at = "body" /\ Reading(s)
  /\ \A i \in DOMAIN c2s[s] : Plainly(c2s[s][i])
  /\ FirstOf(BodyCap, child[s].body \o c2s[s]) = FirstOf(BodyCap, typed[s])
  /\ s2c[s] = <<>>
  /\ child[s].in_data /\ AllFiled(s)
Ended(s) ==
  /\ Expects(s) /\ Reading(s)
  /\ c2s[s] = <<Dot>> /\ s2c[s] = <<>> /\ typed[s] = <<>>
  /\ child[s].in_data /\ KeptBody(s) /\ LastOpen(s)
Unseen(s) ==
  /\ Expects(s) /\ Reading(s)
  /\ Len(c2s[s]) > 1 /\ Plainly(Head(c2s[s])) /\ s2c[s] = <<>>
  /\ child[s].in_data /\ SomeFiled(s)
Taken(s) ==
  /\ Expects(s) /\ ~child[s].in_data
  /\ c2s[s] = <<>> /\ s2c[s] = <<>> /\ typed[s] = <<>>
  /\ \/ child[s].at \in {"sem_wait", "append"} /\ KeptBody(s) /\ LastOpen(s)
     \/ child[s].at \in {"post 250", "post 500", "250", "500"} /\ AllFiled(s)
Stuck(s) ==
  /\ Expects(s) /\ Reading(s)
  /\ c2s[s] = <<>> /\ s2c[s] = <<>> /\ SomeFiled(s)
Over(s) ==
  /\ Gone(s) /\ SomeFiled(s)
  /\ client[s].at \in {"prompt", "body"} => s2c[s] = <<>>
  /\ client[s].at = "prompt" \/ s2c[s] # <<>> => AllFiled(s)

(* Client and child are in step, or neither moves any more, or the child   *)
(* is gone.                                                                *)
Sync(s) ==
  Clean(s) =>
    \/ Unconnected(s) \/ Resting(s) \/ Asked(s) \/ Told(s) \/ Typing(s) \/ Ended(s)
    \/ Unseen(s) \/ Taken(s) \/ Stuck(s) \/ Over(s)

(* What is the same before and after, for one session.                     *)
Apart(t) ==
  /\ client'[t] = client[t] /\ child'[t] = child[t]
  /\ c2s'[t] = c2s[t] /\ s2c'[t] = s2c[t]
  /\ typed'[t] = typed[t] /\ sent'[t] = sent[t] /\ refused'[t] = refused[t]
FilesApart(t) ==
  \/ mailbox' = mailbox
  \/ \E m \in Mail : m.by # t /\ mailbox' = Append(mailbox, m)

LEMMA MineKept ==
  ASSUME Inv, NEW t \in Sessions, FilesApart(t)
  PROVE  Mine(t)' = Mine(t) /\ \A k \in Mine(t) : mailbox'[k] = mailbox[k]
<1>1. CASE mailbox' = mailbox
  BY <1>1 DEF Mine
<1>2. ASSUME NEW m \in Mail, m.by # t, mailbox' = Append(mailbox, m)
      PROVE  Mine(t)' = Mine(t) /\ \A k \in Mine(t) : mailbox'[k] = mailbox[k]
  <2>1. /\ Len(mailbox) \in Nat /\ DOMAIN mailbox = 1 .. Len(mailbox)
        /\ DOMAIN mailbox' = 1 .. (Len(mailbox) + 1)
        /\ \A k \in 1 .. Len(mailbox) : mailbox'[k] = mailbox[k]
        /\ mailbox'[Len(mailbox) + 1] = m
    BY <1>2, AppendProperties, LenProperties DEF Inv
  <2>. QED BY <1>2, <2>1 DEF Mine
<1>. QED BY <1>1, <1>2 DEF FilesApart

LEMMA FilesKept ==
  ASSUME Inv, NEW t \in Sessions, FilesApart(t),
         sent'[t] = sent[t], refused'[t] = refused[t]
  PROVE  /\ SomeFiled(t) => SomeFiled(t)'
         /\ AllFiled(t) => AllFiled(t)'
         /\ LastOpen(t) => LastOpen(t)'
<1>1. Mine(t)' = Mine(t) /\ \A k \in Mine(t) : mailbox'[k] = mailbox[k]
  BY MineKept
<1>2. ASSUME NEW n \in Nat, Filed(t, n) PROVE Filed(t, n)'
  BY <1>1, <1>2 DEF Filed
<1>3. ASSUME NEW n \in Nat, Complete(t, n) PROVE Complete(t, n)'
  BY <1>1, <1>3 DEF Complete
<1>. QED BY <1>2, <1>3 DEF SomeFiled, AllFiled, LastOpen

LEMMA FilesWeaken ==
  ASSUME NEW t \in Sessions
  PROVE  /\ AllFiled(t) => SomeFiled(t)
         /\ LastOpen(t) => SomeFiled(t)
<1>1. ASSUME NEW n \in Nat, Filed(t, n) PROVE Filed(t, n + 1)
  BY <1>1 DEF Filed
<1>2. ASSUME NEW n \in Nat PROVE n + 1 \in Nat
  OBVIOUS
<1>. QED BY <1>1, <1>2 DEF SomeFiled, AllFiled, LastOpen

(* A session in which nothing happens is in the same state.                *)
LEMMA SyncKept ==
  ASSUME Inv, NEW t \in Sessions, Apart(t), FilesApart(t), Sync(t)
  PROVE  Sync(t)'
<1>1. /\ SomeFiled(t) => SomeFiled(t)'
      /\ AllFiled(t) => AllFiled(t)'
      /\ LastOpen(t) => LastOpen(t)'
  BY FilesKept DEF Apart
<1>2. Clean(t)' => Clean(t)
  BY DEF Clean, Apart
<1>. SUFFICES ASSUME Clean(t) PROVE Sync(t)'
  BY <1>2 DEF Sync
<1>3. CASE Unconnected(t)
  BY <1>1, <1>3 DEF Sync, Apart, Unconnected
<1>4. CASE Resting(t)
  BY <1>1, <1>4 DEF Sync, Apart, Resting, Reading
<1>5. CASE Asked(t)
  BY <1>1, <1>5 DEF Sync, Apart, Asked, Reading, Expects
<1>6. CASE Told(t)
  BY <1>1, <1>6 DEF Sync, Apart, Told, Reading, Expects
<1>7. CASE Typing(t)
  BY <1>1, <1>7 DEF Sync, Apart, Typing, Reading
<1>8. CASE Ended(t)
  BY <1>1, <1>8 DEF Sync, Apart, Ended, Reading, Expects, KeptBody
<1>9. CASE Unseen(t)
  BY <1>1, <1>9 DEF Sync, Apart, Unseen, Reading, Expects
<1>10. CASE Taken(t)
  BY <1>1, <1>10 DEF Sync, Apart, Taken, Expects, KeptBody
<1>11. CASE Stuck(t)
  BY <1>1, <1>11 DEF Sync, Apart, Stuck, Reading, Expects
<1>12. CASE Over(t)
  BY <1>1, <1>12 DEF Sync, Apart, Over, Gone
<1>. QED BY <1>3, <1>4, <1>5, <1>6, <1>7, <1>8, <1>9, <1>10, <1>11, <1>12 DEF Sync

(* Texts that agree as far as the buffer holds them still agree when both  *)
(* are given one more line.                                                *)
LEMMA FirstOfIs ==
  ASSUME NEW n \in Nat, NEW a \in Seq(Line)
  PROVE  /\ FirstOf(n, a) \in Seq(Line)
         /\ Len(FirstOf(n, a)) = IF Len(a) < n THEN Len(a) ELSE n
         /\ \A i \in 1 .. Len(FirstOf(n, a)) : FirstOf(n, a)[i] = a[i]
<1>. DEFINE m == IF Len(a) < n THEN Len(a) ELSE n
<1>1. m \in Nat /\ m <= Len(a) /\ Len(a) \in Nat
  BY LenProperties
<1>2. /\ SubSeq(a, 1, m) \in Seq(Line) /\ Len(SubSeq(a, 1, m)) = m
      /\ \A i \in 1 .. m : SubSeq(a, 1, m)[i] = a[i]
  BY <1>1, SubSeqProperties
<1>. QED BY <1>2 DEF FirstOf

LEMMA FirstOfShort ==
  ASSUME NEW n \in Nat, NEW a \in Seq(Line), Len(a) <= n
  PROVE  FirstOf(n, a) = a
<1>1. Len(FirstOf(n, a)) = Len(a)
  BY FirstOfIs, LenProperties
<1>. QED BY <1>1, FirstOfIs, SeqEqual

LEMMA FirstOfAppend ==
  ASSUME NEW n \in Nat, NEW a \in Seq(Line), NEW b \in Seq(Line), NEW l \in Line,
         FirstOf(n, a) = FirstOf(n, b)
  PROVE  FirstOf(n, Append(a, l)) = FirstOf(n, Append(b, l))
<1>1. Len(a) \in Nat /\ Len(b) \in Nat
  BY LenProperties
<1>2. CASE Len(a) < n
  <2>1. FirstOf(n, a) = a /\ Len(b) < n
    BY <1>1, <1>2, FirstOfShort, FirstOfIs
  <2>2. Len(b) <= n
    BY <1>1, <2>1
  <2>3. FirstOf(n, b) = b
    BY ONLY <2>2, FirstOfShort
  <2>. QED BY <2>1, <2>3
<1>3. CASE Len(a) >= n
  <2>1. Len(b) >= n
    BY <1>1, <1>3, FirstOfIs
  <2>2. ASSUME NEW c \in Seq(Line), Len(c) >= n
        PROVE  /\ Len(FirstOf(n, Append(c, l))) = n /\ Len(FirstOf(n, c)) = n
               /\ \A i \in 1 .. n : FirstOf(n, Append(c, l))[i] = FirstOf(n, c)[i]
    <3>1. /\ Append(c, l) \in Seq(Line) /\ Len(Append(c, l)) = Len(c) + 1
          /\ \A i \in 1 .. Len(c) : Append(c, l)[i] = c[i]
          /\ Len(c) \in Nat
      BY AppendProperties, LenProperties
    <3>2. Len(FirstOf(n, Append(c, l))) = n /\ Len(FirstOf(n, c)) = n
      <4>1. Len(FirstOf(n, c)) = IF Len(c) < n THEN Len(c) ELSE n
        BY ONLY FirstOfIs, n \in Nat, c \in Seq(Line)
      <4>2. Len(FirstOf(n, Append(c, l)))
              = IF Len(Append(c, l)) < n THEN Len(Append(c, l)) ELSE n
        BY ONLY FirstOfIs, <3>1, n \in Nat
      <4>. QED BY ONLY <2>2, <3>1, <4>1, <4>2, n \in Nat
    <3>3. ASSUME NEW i \in 1 .. n
          PROVE  FirstOf(n, Append(c, l))[i] = FirstOf(n, c)[i]
      <4>1. FirstOf(n, Append(c, l))[i] = Append(c, l)[i] /\ FirstOf(n, c)[i] = c[i]
        BY <3>1, <3>2, FirstOfIs
      <4>2. i \in 1 .. Len(c)
        BY <2>2, <3>1
      <4>. QED BY <3>1, <4>1, <4>2
    <3>. QED BY <3>2, <3>3
  <2>3. Append(a, l) \in Seq(Line) /\ Append(b, l) \in Seq(Line)
    OBVIOUS
  <2>4. FirstOf(n, Append(a, l)) \in Seq(Line) /\ FirstOf(n, Append(b, l)) \in Seq(Line)
    BY <2>3, FirstOfIs
  <2>5. /\ Len(FirstOf(n, Append(a, l))) = n /\ Len(FirstOf(n, Append(b, l))) = n
        /\ \A i \in 1 .. n : FirstOf(n, Append(a, l))[i] = FirstOf(n, Append(b, l))[i]
    BY <1>3, <2>1, <2>2
  <2>. QED BY ONLY <2>4, <2>5, SeqEqual
<1>. QED BY <1>1, <1>2, <1>3

(* What process_command takes a chunk for.                                 *)
LEMMA Commands1 ==
  ASSUME NEW c, ~c.in_data, NEW l, NEW chunk, chunk = <<l>>
  PROVE  /\ Command(c, chunk) \notin {"body", "."}
         /\ Command(c, chunk) = "DATA" => l.k = "DATA"
<1>1. Head(chunk) = l
  OBVIOUS
<1>. QED BY <1>1 DEF Command, MessageFirst, Query, Envelope

LEMMA Commands2 ==
  ASSUME NEW c, c.in_data = TRUE, NEW chunk \in Seq(Line), chunk # <<>>, Plainly(Head(chunk))
  PROVE  Command(c, chunk) = "body"
<1>1. chunk # <<Dot>>
  <2>1. Head(<<Dot>>) = Dot
    OBVIOUS
  <2>. QED BY <2>1 DEF Plainly
<1>. QED BY <1>1 DEF Command, MessageFirst, Message, EndsMessage, Plainly

LEMMA Commands3 ==
  ASSUME NEW c, c.in_data = TRUE
  PROVE  Command(c, <<Dot>>) = "."
<1>1. Head(<<Dot>>) = Dot /\ Dot.k = "."
  BY DEF Dot
<1>. QED BY <1>1 DEF Command, MessageFirst, Message, EndsMessage, Envelope

(* What a message that is ended, stored or refused changes in the files.   *)
LEMMA FilesOpen ==
  ASSUME Inv, Histories, NEW s \in Sessions,
         sent'[s] = Append(sent[s], typed[s]), refused'[s] = refused[s], mailbox' = mailbox
  PROVE  /\ SomeFiled(s) => SomeFiled(s)'
         /\ AllFiled(s) => LastOpen(s)'
<1>1. /\ Mine(s)' = Mine(s) /\ \A k \in Mine(s) : mailbox'[k] = mailbox[k]
      /\ sent[s] \in Seq(Seq(Line)) /\ typed[s] \in Seq(Line)
  BY DEF Mine, Histories
<1>2. /\ Len(sent[s]) \in Nat /\ Len(sent'[s]) = Len(sent[s]) + 1
      /\ \A m \in 1 .. Len(sent[s]) : sent'[s][m] = sent[s][m]
  BY <1>1, AppendProperties, LenProperties
<1>3. ASSUME NEW n \in Nat, Len(sent[s]) = n, Filed(s, n)
      PROVE  Filed(s, n)' /\ Filed(s, n + 1)'
  <2>1. ASSUME NEW k \in Mine(s)
        PROVE  /\ mailbox'[k].no \in 1 .. n /\ mailbox'[k].no \notin refused'[s]
               /\ mailbox'[k].body = FirstOf(BodyCap, sent'[s][mailbox'[k].no])
    BY <1>1, <1>2, <1>3 DEF Filed
  <2>2. \A j, k \in Mine(s) : j < k => mailbox'[j].no < mailbox'[k].no
    BY <1>1, <1>3 DEF Filed
  <2>3. 1 .. n \subseteq 1 .. n + 1
    OBVIOUS
  <2>. QED BY <1>1, <1>3, <2>1, <2>2, <2>3 DEF Filed
<1>4. ASSUME NEW n \in Nat, Complete(s, n) PROVE Complete(s, n)'
  BY <1>1, <1>4 DEF Complete
<1>5. ASSUME SomeFiled(s) PROVE SomeFiled(s)'
  <2>1. PICK n \in Nat : Len(sent[s]) = n /\ Filed(s, n)
    BY <1>5 DEF SomeFiled
  <2>2. n + 1 \in Nat /\ Len(sent'[s]) = n + 1 /\ Filed(s, n + 1)'
    BY <1>2, <1>3, <2>1
  <2>. QED BY <2>2 DEF SomeFiled
<1>6. ASSUME AllFiled(s) PROVE LastOpen(s)'
  <2>1. PICK n \in Nat : Len(sent[s]) = n /\ Filed(s, n) /\ Complete(s, n)
    BY <1>6 DEF AllFiled
  <2>2. Len(sent'[s]) = n + 1 /\ Filed(s, n)' /\ Complete(s, n)'
    BY <1>2, <1>3, <1>4, <2>1
  <2>. QED BY <2>2 DEF LastOpen
<1>. QED BY <1>5, <1>6

LEMMA FilesStored ==
  ASSUME Inv, Histories, NEW s \in Sessions, Store(s), LastOpen(s), KeptBody(s)
  PROVE  AllFiled(s)'
<1>. DEFINE z == Len(mailbox) + 1
<1>1. PICK n \in Nat : Len(sent[s]) = n + 1 /\ Filed(s, n) /\ Complete(s, n)
  BY DEF LastOpen
<1>2. PICK m \in Mail : /\ mailbox' = Append(mailbox, m) /\ m.by = s /\ m.no = n + 1
                        /\ m.body = child[s].body
  BY <1>1, MailStep DEF Store
<1>3. /\ Len(mailbox) \in Nat /\ DOMAIN mailbox = 1 .. Len(mailbox)
      /\ DOMAIN mailbox' = 1 .. z
      /\ \A k \in 1 .. Len(mailbox) : mailbox'[k] = mailbox[k]
      /\ mailbox'[z] = m
  BY <1>2, AppendProperties, LenProperties DEF Inv
<1>4. Mine(s)' = Mine(s) \cup {z} /\ Mine(s) \subseteq 1 .. Len(mailbox)
  BY <1>2, <1>3 DEF Mine
<1>5. sent' = sent /\ refused' = refused
  BY DEF Store, Others, hist
<1>6. /\ \A k \in Mine(s) : mailbox[k].no \in 1 .. n /\ mailbox[k].no \notin refused[s]
                            /\ mailbox[k].body = FirstOf(BodyCap, sent[s][mailbox[k].no])
      /\ \A j, k \in Mine(s) : j < k => mailbox[j].no < mailbox[k].no
      /\ refused[s] \subseteq 1 .. n
  BY <1>1 DEF Filed
<1>7. Filed(s, n + 1)'
  <2>1. ASSUME NEW k \in Mine(s) \cup {z}
        PROVE  /\ mailbox'[k].no \in 1 .. n + 1 /\ mailbox'[k].no \notin refused[s]
               /\ mailbox'[k].body = FirstOf(BodyCap, sent[s][mailbox'[k].no])
    <3>1. CASE k \in Mine(s)
      BY <1>3, <1>4, <1>6, <3>1
    <3>2. CASE k = z
      BY <1>1, <1>2, <1>3, <1>6, <3>2 DEF KeptBody
    <3>. QED BY <3>1, <3>2
  <2>2. ASSUME NEW j \in Mine(s) \cup {z}, NEW k \in Mine(s) \cup {z}, j < k
        PROVE  mailbox'[j].no < mailbox'[k].no
    <3>1. j \in Mine(s)
      BY <1>3, <1>4, <2>2
    <3>2. mailbox'[j] = mailbox[j]
      BY <1>3, <1>4, <3>1
    <3>3. CASE k \in Mine(s)
      BY <1>3, <1>4, <1>6, <2>2, <3>1, <3>2, <3>3
    <3>4. CASE k = z
      BY <1>2, <1>3, <1>6, <3>1, <3>2, <3>4
    <3>. QED BY <3>3, <3>4
  <2>. QED BY <1>4, <1>5, <1>6, <2>1, <2>2 DEF Filed
<1>8. Complete(s, n + 1)'
  <2>1. ASSUME NEW i \in 1 .. n + 1
        PROVE  i \in refused[s] \/ \E k \in Mine(s) \cup {z} : mailbox'[k].no = i
    <3>1. CASE i = n + 1
      BY <1>2, <1>3, <3>1
    <3>2. CASE i \in 1 .. n
      BY <1>1, <1>3, <1>4, <3>2 DEF Complete
    <3>. QED BY <3>1, <3>2
  <2>. QED BY <1>4, <1>5, <2>1 DEF Complete
<1>. QED BY <1>1, <1>5, <1>7, <1>8 DEF AllFiled

LEMMA FilesRefused ==
  ASSUME Inv, Histories, NEW s \in Sessions, StoreFails(s), LastOpen(s)
  PROVE  AllFiled(s)'
<1>1. PICK n \in Nat : Len(sent[s]) = n + 1 /\ Filed(s, n) /\ Complete(s, n)
  BY DEF LastOpen
<1>2. /\ refused'[s] = refused[s] \cup {n + 1}
      /\ UNCHANGED <<mailbox, sent>>
  BY <1>1 DEF StoreFails, Histories
<1>3. Mine(s)' = Mine(s)
  BY <1>2 DEF Mine
<1>4. Filed(s, n + 1)'
  BY <1>1, <1>2, <1>3 DEF Filed
<1>5. Complete(s, n + 1)'
  <2>1. ASSUME NEW i \in 1 .. n + 1
        PROVE  i \in refused[s] \cup {n + 1} \/ \E k \in Mine(s) : mailbox[k].no = i
    <3>1. i = n + 1 \/ i \in 1 .. n
      OBVIOUS
    <3>. QED BY <1>1, <3>1 DEF Complete
  <2>. QED BY <1>2, <1>3, <2>1 DEF Complete
<1>. QED BY <1>1, <1>2, <1>4, <1>5 DEF AllFiled
-----------------------------------------------------------------------------
(* The client's steps.                                                     *)
LEMMA FilesStay ==
  ASSUME Inv, NEW s \in Sessions, UNCHANGED <<mailbox, sent, refused>>
  PROVE  /\ SomeFiled(s) => SomeFiled(s)'
         /\ AllFiled(s) => AllFiled(s)' /\ SomeFiled(s)'
         /\ LastOpen(s) => LastOpen(s)' /\ SomeFiled(s)'
BY FilesKept, FilesWeaken DEF FilesApart

LEMMA RangeOfAppend ==
  ASSUME NEW S, NEW q \in Seq(S), NEW x \in S
  PROVE  Range(Append(q, x)) = Range(q) \cup {x}
<1>1. /\ DOMAIN q = 1 .. Len(q) /\ DOMAIN Append(q, x) = 1 .. Len(q) + 1 /\ Len(q) \in Nat
      /\ \A i \in 1 .. Len(q) : Append(q, x)[i] = q[i]
      /\ Append(q, x)[Len(q) + 1] = x
  BY AppendProperties, LenProperties
<1>2. 1 .. Len(q) + 1 = (1 .. Len(q)) \cup {Len(q) + 1}
  BY <1>1
<1>. QED BY <1>1, <1>2, Zenon DEF Range

LEMMA ConcatOfAppend ==
  ASSUME NEW a \in Seq(Line), NEW b \in Seq(Line), NEW l \in Line
  PROVE  a \o Append(b, l) = Append(a \o b, l)
<1>1. /\ Append(b, l) \in Seq(Line) /\ Len(Append(b, l)) = Len(b) + 1
      /\ \A i \in 1 .. Len(b) : Append(b, l)[i] = b[i]
      /\ Append(b, l)[Len(b) + 1] = l
      /\ Len(a) \in Nat /\ Len(b) \in Nat
  BY AppendProperties, LenProperties
<1>2. /\ a \o b \in Seq(Line) /\ Len(a \o b) = Len(a) + Len(b)
      /\ \A i \in 1 .. Len(a) + Len(b) :
            (a \o b)[i] = IF i <= Len(a) THEN a[i] ELSE b[i - Len(a)]
  BY ConcatProperties
<1>3. /\ a \o Append(b, l) \in Seq(Line) /\ Len(a \o Append(b, l)) = Len(a) + Len(b) + 1
      /\ \A i \in 1 .. Len(a) + Len(b) + 1 :
            (a \o Append(b, l))[i] = IF i <= Len(a) THEN a[i] ELSE Append(b, l)[i - Len(a)]
  BY <1>1, ConcatProperties
<1>4. /\ Append(a \o b, l) \in Seq(Line) /\ Len(Append(a \o b, l)) = Len(a) + Len(b) + 1
      /\ \A i \in 1 .. Len(a) + Len(b) : Append(a \o b, l)[i] = (a \o b)[i]
      /\ Append(a \o b, l)[Len(a) + Len(b) + 1] = l
  BY <1>2, AppendProperties
<1>5. ASSUME NEW i \in 1 .. Len(a) + Len(b) + 1
      PROVE  (a \o Append(b, l))[i] = Append(a \o b, l)[i]
  <2>1. CASE i <= Len(a)
    BY <1>1, <1>2, <1>3, <1>4, <2>1
  <2>2. CASE i > Len(a) /\ i <= Len(a) + Len(b)
    <3>1. i - Len(a) \in 1 .. Len(b) /\ i \in 1 .. Len(a) + Len(b)
      BY <1>1, <2>2
    <3>. QED BY <1>1, <1>2, <1>3, <1>4, <2>2, <3>1
  <2>3. CASE i = Len(a) + Len(b) + 1
    <3>1. i - Len(a) = Len(b) + 1 /\ ~(i <= Len(a))
      BY <1>1, <2>3
    <3>. QED BY <1>1, <1>3, <1>4, <2>3, <3>1
  <2>. QED BY <1>1, <2>1, <2>2, <2>3
<1>. QED BY ONLY <1>3, <1>4, <1>5, SeqEqual

LEMMA ConnectSync ==
  ASSUME Full, Histories, NEW s \in Sessions, Sync(s), Connect(s)
  PROVE  Sync(s)'
<1>1. Clean(s)' => Clean(s)
  BY DEF Connect, Clean, hist
<1>. SUFFICES ASSUME Clean(s) PROVE Sync(s)'
  BY <1>1 DEF Sync
<1>2. Unconnected(s)
  BY DEF Sync, Connect, Full, Unborn, Resting, Asked, Told, Typing, Ended, Unseen, Taken, Stuck,
         Over, Expects, Reading, Gone
<1>3. /\ client'[s].at = "prompt" /\ child'[s].at = "read"
      /\ child'[s].in_data = child[s].in_data
  BY DEF Connect, Full, Inv, ClientType, Sound, ChildType
<1>4. AllFiled(s)'
  BY <1>2, FilesStay DEF Connect, hist, Full, Unconnected
<1>5. Resting(s)'
  BY <1>2, <1>3, <1>4 DEF Connect, conns, hist, Unconnected, Resting, Reading
<1>. QED BY <1>5 DEF Sync

LEMMA TypeCommandSync ==
  ASSUME Full, Histories, NEW s \in Sessions, Sync(s), NEW l \in Commands, TypeCommand(s, l)
  PROVE  Sync(s)'
<1>1. Clean(s)' => Clean(s)
  BY DEF TypeCommand, Clean
<1>. SUFFICES ASSUME Clean(s) PROVE Sync(s)'
  BY <1>1 DEF Sync
<1>2. Resting(s) \/ Over(s)
  BY DEF Sync, TypeCommand, Unconnected, Asked, Told, Typing, Ended, Unseen, Taken, Stuck, Expects
<1>3. /\ client'[s].at \in {"await", "data"} /\ (l.k = "DATA" => client'[s].at = "data")
      /\ c2s'[s] = Append(c2s[s], l)
      /\ UNCHANGED <<child, s2c, mailbox, typed, sent, refused>>
  BY DEF TypeCommand, Write, Full, Inv
<1>4. CASE Resting(s)
  <2>1. l \in Line
    BY SMTPAssumption
  <2>2. AllFiled(s)'
    BY <1>3, <1>4, FilesStay DEF Full, Resting
  <2>3. c2s'[s] = <<l>>
    BY <1>3, <1>4 DEF Resting
  <2>4. Asked(s)'
    BY <1>3, <1>4, <2>1, <2>2, <2>3 DEF Resting, Asked, Expects, Reading
  <2>. QED BY <2>4 DEF Sync
<1>5. CASE Over(s)
  <2>1. SomeFiled(s)' /\ (AllFiled(s) => AllFiled(s)')
    BY <1>3, <1>5, FilesStay DEF Full, Over
  <2>2. Over(s)'
    BY <1>3, <1>5, <2>1 DEF Over, Gone
  <2>. QED BY <2>2 DEF Sync
<1>. QED BY <1>2, <1>4, <1>5

LEMMA TypeBodySync ==
  ASSUME Full, Histories, NEW s \in Sessions, Sync(s), NEW l \in BodyLines, TypeBody(s, l)
  PROVE  Sync(s)'
<1>1. /\ l \in Line /\ l # Dot
      /\ typed'[s] = Append(typed[s], l) /\ typed[s] \in Seq(Line)
      /\ c2s'[s] = Append(c2s[s], l) /\ c2s[s] \in Seq(Line)
      /\ child[s].body \in Seq(Line)
      /\ UNCHANGED <<client, child, s2c, mailbox, sent, refused>>
  BY Fields, SMTPAssumption DEF TypeBody, Write, Full, Inv, Histories
<1>3. Range(typed'[s]) = Range(typed[s]) \cup {l}
  BY <1>1, RangeOfAppend
<1>4. Clean(s)' => Clean(s) /\ Plainly(l)
  BY <1>1, <1>3 DEF Clean, Plainly
<1>. SUFFICES ASSUME Clean(s), Plainly(l) PROVE Sync(s)'
  BY <1>4 DEF Sync
<1>5. Typing(s) \/ Over(s)
  BY DEF Sync, TypeBody, Unconnected, Resting, Asked, Told, Ended, Unseen, Taken, Stuck, Expects
<1>6. CASE Typing(s)
  <2>1. \A i \in DOMAIN c2s'[s] : Plainly(c2s'[s][i])
    <3>1. /\ DOMAIN c2s[s] = 1 .. Len(c2s[s]) /\ DOMAIN c2s'[s] = 1 .. Len(c2s[s]) + 1
          /\ Len(c2s[s]) \in Nat
          /\ \A i \in 1 .. Len(c2s[s]) : c2s'[s][i] = c2s[s][i]
          /\ c2s'[s][Len(c2s[s]) + 1] = l
      BY <1>1, AppendProperties, LenProperties
    <3>. QED BY <1>6, <3>1 DEF Typing
  <2>2. child[s].body \o c2s'[s] = Append(child[s].body \o c2s[s], l)
    BY <1>1, ConcatOfAppend
  <2>3. child[s].body \o c2s[s] \in Seq(Line)
    BY <1>1
  <2>4. FirstOf(BodyCap, child[s].body \o c2s'[s]) = FirstOf(BodyCap, typed'[s])
    <3>1. FirstOf(BodyCap, child[s].body \o c2s[s]) = FirstOf(BodyCap, typed[s])
      BY <1>6 DEF Typing
    <3>2. FirstOf(BodyCap, Append(child[s].body \o c2s[s], l))
            = FirstOf(BodyCap, Append(typed[s], l))
      BY <1>1, <2>3, <3>1, FirstOfAppend, SMTPAssumption
    <3>. QED BY <1>1, <2>2, <3>2
  <2>5. AllFiled(s)'
    BY <1>1, <1>6, FilesStay DEF Full, Typing
  <2>6. Typing(s)'
    BY <1>1, <1>6, <2>1, <2>4, <2>5 DEF Typing, Reading, Plainly
  <2>. QED BY <2>6 DEF Sync
<1>7. CASE Over(s)
  <2>1. SomeFiled(s)' /\ (AllFiled(s) => AllFiled(s)')
    BY <1>1, <1>7, FilesStay DEF Full, Over
  <2>2. Over(s)'
    BY <1>1, <1>7, <2>1 DEF Over, Gone
  <2>. QED BY <2>2 DEF Sync
<1>. QED BY <1>5, <1>6, <1>7

LEMMA TypeDotSync ==
  ASSUME Full, Histories, NEW s \in Sessions, Sync(s), TypeDot(s)
  PROVE  Sync(s)'
<1>1. /\ client[s].at = "body" /\ client'[s].at = "await"
      /\ typed'[s] = <<>> /\ typed[s] \in Seq(Line)
      /\ sent'[s] = Append(sent[s], typed[s]) /\ sent[s] \in Seq(Seq(Line))
      /\ c2s'[s] = Append(c2s[s], Dot) /\ c2s[s] \in Seq(Line)
      /\ child[s].body \in Seq(Line) /\ Len(child[s].body) <= BodyCap
      /\ UNCHANGED <<child, s2c, mailbox, refused>>
  BY DEF TypeDot, Write, Full, Inv, Histories, ClientType, Sound, ChildType
<1>2. /\ DOMAIN sent[s] = 1 .. Len(sent[s]) /\ DOMAIN sent'[s] = 1 .. Len(sent'[s])
      /\ Len(sent[s]) \in Nat /\ Len(sent'[s]) = Len(sent[s]) + 1
      /\ \A i \in 1 .. Len(sent[s]) : sent'[s][i] = sent[s][i]
      /\ sent'[s][Len(sent'[s])] = typed[s]
  BY <1>1, AppendProperties, LenProperties
<1>3. Range(sent'[s]) = Range(sent[s]) \cup {typed[s]}
  BY <1>1, RangeOfAppend
<1>4. Clean(s)' => Clean(s)
  BY <1>3 DEF Clean
<1>. SUFFICES ASSUME Clean(s) PROVE Sync(s)'
  BY <1>4 DEF Sync
<1>5. Typing(s) \/ Over(s)
  BY <1>1 DEF Sync, Unconnected, Resting, Asked, Told, Ended, Unseen, Taken, Stuck, Expects
<1>6. /\ SomeFiled(s) => SomeFiled(s)'
      /\ AllFiled(s) => LastOpen(s)' /\ SomeFiled(s)'
  BY <1>1, FilesOpen, FilesWeaken DEF Full
<1>7. CASE Typing(s)
  <2>1. CASE c2s[s] = <<>>
    <3>1. c2s'[s] = <<Dot>>
      BY <1>1, <2>1
    <3>2. child[s].body \o <<>> = child[s].body
      BY <1>1, ConcatEmptySeq
    <3>3. child[s].body = FirstOf(BodyCap, typed[s])
      BY <1>1, <1>7, <2>1, <3>2, FirstOfShort, SMTPAssumption DEF Typing
    <3>4. KeptBody(s)'
      BY <1>1, <1>2, <3>3 DEF KeptBody
    <3>5. Ended(s)'
      BY <1>1, <1>6, <1>7, <3>1, <3>4 DEF Typing, Ended, Reading, Expects
    <3>. QED BY <3>5 DEF Sync
  <2>2. CASE c2s[s] # <<>>
    <3>1. Len(c2s'[s]) > 1 /\ Head(c2s'[s]) = c2s[s][1] /\ 1 \in DOMAIN c2s[s]
      BY <1>1, <2>2
    <3>2. Unseen(s)'
      BY <1>1, <1>6, <1>7, <3>1 DEF Typing, Unseen, Reading, Expects, Plainly
    <3>. QED BY <3>2 DEF Sync
  <2>. QED BY <2>1, <2>2
<1>8. CASE Over(s)
  <2>1. Over(s)'
    BY <1>1, <1>6, <1>8 DEF Over, Gone
  <2>. QED BY <2>1 DEF Sync
<1>. QED BY <1>5, <1>7, <1>8

(* What read_response makes of one response.                               *)
LEMMA ClientReadSync ==
  ASSUME Full, Histories, NEW s \in Sessions, Sync(s), ClientRead(s)
  PROVE  Sync(s)'
<1>. DEFINE got == s2c[s]
            at == client[s].at
<1>1. /\ at \in {"await", "data"} /\ got # <<>>
      /\ s2c'[s] = <<>>
      /\ UNCHANGED <<c2s, child, mailbox, typed, sent, refused>>
  BY DEF ClientRead, hist, Histories
<1>2. \/ client'[s].at = at
      \/ Head(got).code = "Goodbye" /\ client'[s].at = "closed"
      \/ at = "data" /\ Has(got, {"Enter"}) /\ client'[s].at = "body"
      \/ ~(at = "data" /\ Has(got, {"Enter"})) /\ client'[s].at = "prompt"
  <2>. DEFINE to == CASE client[s].multi /\ ~Has(got, Dashes)  -> at
                      [] Head(got).code = "Goodbye"            -> "closed"
                      [] at = "data" /\ Has(got, {"Enter"})    -> "body"
                      [] OTHER                                 -> "prompt"
  <2>1. client'[s].at = to
    BY DEF ClientRead, Full, Inv, ClientType
  <2>. HIDE DEF got, at
  <2>. QED BY <2>1
<1>3. Clean(s)' => Clean(s)
  BY <1>1 DEF Clean
<1>. SUFFICES ASSUME Clean(s) PROVE Sync(s)'
  BY <1>3 DEF Sync
<1>4. Told(s) \/ Over(s)
  BY <1>1 DEF Sync, Unconnected, Resting, Asked, Typing, Ended, Unseen, Taken, Stuck
<1>5. CASE Told(s)
  <2>1. AllFiled(s)' /\ SomeFiled(s)'
    BY <1>1, <1>5, FilesStay DEF Full, Told
  <2>2. CASE client'[s].at = at
    <3>1. Stuck(s)'
      BY <1>1, <1>5, <2>1, <2>2 DEF Told, Stuck, Expects, Reading
    <3>. QED BY <3>1 DEF Sync
  <2>3. CASE Head(got).code = "Enter"
    <3>1. 1 \in DOMAIN got /\ got[1] = Head(got)
      BY <1>5 DEF Told
    <3>2. Has(got, {"Enter"}) /\ at = "data"
      BY <1>5, <2>3, <3>1 DEF Has, Told
    <3>3. client'[s].at \in {at, "body"}
      BY <1>2, <2>3, <3>2
    <3>4. CASE client'[s].at = "body"
      <4>1. /\ child[s].body \o c2s[s] = typed[s] /\ DOMAIN c2s[s] = {}
            /\ child[s].in_data /\ child[s].at = "read"
        BY <1>5, <2>3 DEF Told, Reading
      <4>2. Typing(s)'
        BY <1>1, <2>1, <3>4, <4>1 DEF Typing, Reading
      <4>. QED BY <4>2 DEF Sync
    <3>. QED BY <2>2, <3>3, <3>4
  <2>4. CASE Head(got).code # "Enter"
    <3>1. ~Has(got, {"Enter"})
      BY <1>5, <2>4 DEF Has, Told
    <3>2. client'[s].at \in {at, "closed", "prompt"}
      BY <1>2, <3>1
    <3>3. CASE client'[s].at \in {"closed", "prompt"}
      <4>1. Resting(s)'
        BY <1>1, <1>5, <2>1, <2>4, <3>3 DEF Told, Resting, Reading
      <4>. QED BY <4>1 DEF Sync
    <3>. QED BY <2>2, <3>2, <3>3
  <2>. QED BY <2>3, <2>4
<1>6. CASE Over(s)
  <2>1. AllFiled(s)' /\ SomeFiled(s)'
    BY <1>1, <1>6, FilesStay DEF Full, Over
  <2>2. Over(s)'
    BY <1>1, <1>6, <2>1 DEF Over, Gone
  <2>. QED BY <2>2 DEF Sync
<1>. QED BY <1>4, <1>5, <1>6

LEMMA LeaveSync ==
  ASSUME Full, Histories, NEW s \in Sessions, Sync(s), EndOfInput(s) \/ ServerGone(s)
  PROVE  Sync(s)'
<1>1. /\ client[s].at = "prompt" \/ Gone(s)
      /\ client'[s].at = "closed"
      /\ UNCHANGED <<c2s, s2c, child, mailbox, typed, sent, refused>>
  BY DEF EndOfInput, ServerGone, Leave, conns, hist, Full, Inv, ClientType
<1>2. Clean(s)' => Clean(s)
  BY <1>1 DEF Clean
<1>. SUFFICES ASSUME Clean(s) PROVE Sync(s)'
  BY <1>2 DEF Sync
<1>3. Resting(s) \/ Over(s)
  BY <1>1 DEF Sync, Unconnected, Asked, Told, Typing, Ended, Unseen, Taken, Stuck, Gone, Expects,
              Reading
<1>4. CASE Resting(s)
  <2>1. AllFiled(s)'
    BY <1>1, <1>4, FilesStay DEF Full, Resting
  <2>2. Resting(s)'
    BY <1>1, <1>4, <2>1 DEF Resting, Reading
  <2>. QED BY <2>2 DEF Sync
<1>5. CASE Over(s)
  <2>1. SomeFiled(s)' /\ (AllFiled(s) => AllFiled(s)')
    BY <1>1, <1>5, FilesStay DEF Full, Over
  <2>2. Over(s)'
    BY <1>1, <1>5, <2>1 DEF Over, Gone
  <2>. QED BY <2>2 DEF Sync
<1>. QED BY <1>3, <1>4, <1>5
-----------------------------------------------------------------------------
(* The child's steps: the answer to a command.                             *)
Answers(s) == Helo(s) \/ MailFrom(s) \/ RcptTo(s) \/ Data(s) \/ List(s) \/ GetMail(s) \/ Invalid(s)
LEMMA AnswerIs ==
  ASSUME Full, Histories, NEW s \in Sessions, Answers(s), ~child[s].in_data
  PROVE  /\ child'[s].at = "read"
         /\ \E r : /\ s2c'[s] = Append(s2c[s], r)
                   /\ IF r.code = "Enter"
                      THEN /\ child'[s].in_data /\ child'[s].body = <<>>
                           /\ Command(child[s], c2s[s]) = "DATA"
                      ELSE ~child'[s].in_data
<1>1. /\ child[s].at = "read" /\ child[s] \in ChildType
      /\ \A r : Reply(s, r) => s2c'[s] = Append(s2c[s], r)
      /\ \A d : Becomes(s, d) => child'[s] = d
  BY DEF Answers, Helo, MailFrom, RcptTo, Data, List, GetMail, Invalid, Reads, Reply, Becomes,
         Full, Inv, Histories, Sound
<1>2. \A k \in {"400", "200", "403", "401", "mail"} : Code(k).code # "Enter"
  BY DEF Code
<1>3. CASE Forbid(s)
  <2>1. child'[s].at = "read" /\ ~child'[s].in_data
    BY <1>1, <1>3 DEF Forbid, Fresh
  <2>. QED BY <1>1, <1>2, <1>3, <2>1 DEF Forbid
<1>4. CASE Helo(s)
  BY <1>1, <1>2, <1>4 DEF Helo, ChildType
<1>5. CASE MailFrom(s) /\ ~Forbid(s)
  BY <1>1, <1>2, <1>5 DEF MailFrom, ChildType
<1>6. CASE RcptTo(s) /\ ~Forbid(s)
  BY <1>1, <1>2, <1>6 DEF RcptTo, ChildType
<1>7. CASE Data(s) /\ ~Forbid(s)
  <2>1. Code("Enter").code = "Enter"
    BY DEF Code
  <2>2. child'[s].at = "read" /\ child'[s].in_data /\ child'[s].body = <<>>
    BY <1>1, <1>7 DEF Data, ChildType
  <2>. QED BY <1>1, <1>7, <2>1, <2>2 DEF Data, Reads
<1>8. CASE List(s)
  <2>1. \A n : [code |-> "list", n |-> n].code # "Enter"
    OBVIOUS
  <2>. QED BY <1>1, <1>2, <1>8, <2>1 DEF List
<1>9. CASE GetMail(s)
  BY <1>1, <1>2, <1>9 DEF GetMail
<1>10. CASE Invalid(s)
  BY <1>1, <1>2, <1>10 DEF Invalid
<1>. QED BY <1>3, <1>4, <1>5, <1>6, <1>7, <1>8, <1>9, <1>10 DEF Answers

LEMMA AnswerSync ==
  ASSUME Full, Histories, NEW s \in Sessions, Sync(s), Answers(s)
  PROVE  Sync(s)'
<1>1. PICK k \in Envelope \cup {"DATA", "LIST", "GET_MAIL", "empty", "unknown"} : Reads(s, k)
  BY DEF Answers, Helo, MailFrom, RcptTo, Data, List, GetMail, Invalid, Envelope
<1>2. /\ child[s].at = "read" /\ c2s[s] # <<>> /\ c2s'[s] = <<>>
      /\ Command(child[s], c2s[s]) = k
      /\ k \notin {"body", "."}
      /\ UNCHANGED <<client, mailbox, typed, sent, refused>>
  BY <1>1 DEF Reads, hist, Full, Inv, Envelope
<1>3. Clean(s)' => Clean(s)
  BY <1>2 DEF Clean
<1>. SUFFICES ASSUME Clean(s) PROVE Sync(s)'
  BY <1>3 DEF Sync
<1>4. c2s[s] \in Seq(Line) /\ child[s].in_data \in BOOLEAN
  BY DEF Full, Inv, Sound, ChildType
<1>5. ~Typing(s) /\ ~Ended(s) /\ ~Unseen(s)
  <2>1. CASE child[s].in_data /\ Plainly(Head(c2s[s]))
    BY <1>2, <1>4, <2>1, Commands2
  <2>2. CASE child[s].in_data /\ c2s[s] = <<Dot>>
    BY <1>2, <1>4, <2>2, Commands3
  <2>3. Typing(s) => child[s].in_data /\ Plainly(Head(c2s[s]))
    <3>1. 1 \in DOMAIN c2s[s] /\ c2s[s][1] = Head(c2s[s])
      BY <1>2, <1>4
    <3>. QED BY <3>1 DEF Typing
  <2>. QED BY <2>1, <2>2, <2>3 DEF Ended, Unseen
<1>6. Asked(s)
  BY <1>2, <1>5 DEF Sync, Unconnected, Resting, Told, Taken, Stuck, Over, Gone
<1>7. PICK l \in Line : c2s[s] = <<l>> /\ (l.k = "DATA" => client[s].at = "data")
  BY <1>6 DEF Asked
<1>8. Command(child[s], c2s[s]) = "DATA" => client[s].at = "data"
  BY <1>6, <1>7, Commands1 DEF Asked
<1>9. /\ child'[s].at = "read"
      /\ \E r : /\ s2c'[s] = Append(s2c[s], r)
                /\ IF r.code = "Enter"
                   THEN child'[s].in_data /\ child'[s].body = <<>> /\ client[s].at = "data"
                   ELSE ~child'[s].in_data
  BY <1>6, <1>8, AnswerIs DEF Asked
<1>10. PICK r : /\ s2c'[s] = Append(s2c[s], r)
                /\ IF r.code = "Enter"
                   THEN child'[s].in_data /\ child'[s].body = <<>> /\ client[s].at = "data"
                   ELSE ~child'[s].in_data
  BY <1>9
<1>11. s2c'[s] = <<r>> /\ Head(<<r>>) = r /\ <<r>> # <<>>
  BY <1>6, <1>10 DEF Asked
<1>12. AllFiled(s)'
  BY <1>2, <1>6, FilesStay DEF Full, Asked
<1>13. Told(s)'
  BY <1>2, <1>6, <1>9, <1>10, <1>11, <1>12 DEF Told, Asked, Expects, Reading
<1>. QED BY <1>13 DEF Sync

(* A child that ends: the files stay as they are.                          *)
LEMMA GoneSync ==
  ASSUME Full, Histories, NEW s \in Sessions, Sync(s), Gone(s)',
         UNCHANGED <<client, mailbox, typed, sent, refused>>,
         \/ s2c'[s] = s2c[s]
         \/ Asked(s)
  PROVE  Sync(s)'
<1>1. Clean(s)' => Clean(s)
  BY DEF Clean
<1>. SUFFICES ASSUME Clean(s) PROVE Sync(s)'
  BY <1>1 DEF Sync
<1>2. /\ SomeFiled(s) => SomeFiled(s)'
      /\ AllFiled(s) => AllFiled(s)' /\ SomeFiled(s)'
      /\ LastOpen(s) => SomeFiled(s)'
  BY FilesStay DEF Full
<1>3. CASE Asked(s)
  BY <1>2, <1>3 DEF Sync, Asked, Over, Expects
<1>4. CASE s2c'[s] = s2c[s]
  <2>1. SomeFiled(s)'
    BY <1>2 DEF Sync, Unconnected, Resting, Asked, Told, Typing, Ended, Unseen, Taken, Stuck, Over
  <2>2. client[s].at \in {"prompt", "body"} => s2c[s] = <<>>
    BY DEF Sync, Unconnected, Resting, Asked, Told, Typing, Ended, Unseen, Taken, Stuck, Over,
           Expects
  <2>3. client[s].at = "prompt" \/ s2c[s] # <<>> => AllFiled(s)
    BY DEF Sync, Unconnected, Resting, Asked, Told, Typing, Ended, Unseen, Taken, Stuck, Over,
           Expects
  <2>4. Over(s)'
    BY <1>2, <1>4, <2>1, <2>2, <2>3 DEF Over
  <2>. QED BY <2>4 DEF Sync
<1>. QED BY <1>3, <1>4

LEMMA QuitSync ==
  ASSUME Full, Histories, NEW s \in Sessions, Sync(s), Clean(s), Quit(s)
  PROVE  Asked(s)
<1>1. /\ child[s].at = "read" /\ c2s[s] # <<>> /\ Command(child[s], c2s[s]) = "QUIT"
      /\ c2s[s] \in Seq(Line) /\ child[s].in_data \in BOOLEAN
  BY DEF Quit, Reads, Full, Inv, Sound, ChildType
<1>2. ~(child[s].in_data /\ (Plainly(Head(c2s[s])) \/ c2s[s] = <<Dot>>))
  BY <1>1, Commands2, Commands3
<1>3. 1 \in DOMAIN c2s[s] /\ c2s[s][1] = Head(c2s[s])
  BY <1>1
<1>. QED BY <1>1, <1>2, <1>3
         DEF Sync, Unconnected, Resting, Told, Typing, Ended, Unseen, Taken, Stuck, Over, Gone

LEMMA EndingSync ==
  ASSUME Full, Histories, NEW s \in Sessions, Sync(s), Quit(s) \/ Disconnect(s) \/ Crash(s)
  PROVE  Sync(s)'
<1>1. Gone(s)'
  BY DEF Quit, Disconnect, Crash, Gone, Full, Inv, Sound, ChildType
<1>2. UNCHANGED <<client, mailbox, typed, sent, refused>>
  BY DEF Quit, Reads, Disconnect, Crash, hist
<1>3. Clean(s)' => Clean(s)
  BY <1>2 DEF Clean
<1>. SUFFICES ASSUME Clean(s) PROVE Sync(s)'
  BY <1>3 DEF Sync
<1>4. CASE Quit(s)
  BY <1>1, <1>2, <1>4, QuitSync, GoneSync
<1>5. CASE Disconnect(s) \/ Crash(s)
  <2>1. s2c'[s] = s2c[s]
    BY <1>5 DEF Disconnect, Crash, conns
  <2>. QED BY <1>1, <1>2, <2>1, GoneSync
<1>. QED BY <1>4, <1>5

(* A message: its lines, and its end.                                      *)
LEMMA BodySync ==
  ASSUME Full, Histories, NEW s \in Sessions, Sync(s), Body(s)
  PROVE  Sync(s)'
<1>1. /\ child[s].at = "read" /\ c2s[s] # <<>> /\ c2s[s] \in Seq(Line) /\ c2s'[s] = <<>>
      /\ Command(child[s], c2s[s]) = "body"
      /\ child[s].in_data \in BOOLEAN /\ child[s].body \in Seq(Line)
      /\ child'[s] = [child[s] EXCEPT !.body = Cut(child[s].body \o c2s[s])]
      /\ child[s] \in ChildType
      /\ UNCHANGED <<client, s2c, mailbox, typed, sent, refused>>
  BY DEF Body, Reads, Becomes, hist, Full, Inv, Sound, ChildType
<1>2. Clean(s)' => Clean(s)
  BY <1>1 DEF Clean
<1>. SUFFICES ASSUME Clean(s) PROVE Sync(s)'
  BY <1>2 DEF Sync
<1>3. ~Asked(s)
  <2>. SUFFICES ASSUME Asked(s) PROVE FALSE
    OBVIOUS
  <2>1. PICK l \in Line : c2s[s] = <<l>>
    BY DEF Asked
  <2>. QED BY <1>1, <2>1, Commands1 DEF Asked
<1>4. ~Ended(s)
  BY <1>1, Commands3 DEF Ended
<1>5. Typing(s) \/ Unseen(s)
  BY <1>1, <1>3, <1>4 DEF Sync, Unconnected, Resting, Told, Taken, Stuck, Over, Gone
<1>6. /\ child'[s].at = "read" /\ child'[s].in_data = child[s].in_data
      /\ child'[s].body = Cut(child[s].body \o c2s[s])
  BY <1>1 DEF ChildType
<1>7. CASE Typing(s)
  <2>1. /\ child'[s].body = FirstOf(BodyCap, child[s].body \o c2s[s])
        /\ child[s].body \o c2s[s] \in Seq(Line)
    BY <1>1, <1>6 DEF Cut
  <2>2. child'[s].body \in Seq(Line) /\ Len(child'[s].body) <= BodyCap
    BY <1>6, <2>1, CutFits
  <2>3. child'[s].body \o c2s'[s] = child'[s].body
    BY <1>1, <2>2, ConcatEmptySeq
  <2>4. FirstOf(BodyCap, child'[s].body \o c2s'[s]) = FirstOf(BodyCap, typed[s])
    BY <1>7, <2>1, <2>2, <2>3, FirstOfShort, SMTPAssumption DEF Typing
  <2>5. DOMAIN c2s'[s] = {}
    BY <1>1
  <2>6. AllFiled(s)'
    BY <1>1, <1>7, FilesStay DEF Full, Typing
  <2>7. Typing(s)'
    BY <1>1, <1>6, <1>7, <2>4, <2>5, <2>6 DEF Typing, Reading
  <2>. QED BY <2>7 DEF Sync
<1>8. CASE Unseen(s)
  <2>1. SomeFiled(s)'
    BY <1>1, <1>8, FilesStay DEF Full, Unseen
  <2>2. Stuck(s)'
    BY <1>1, <1>6, <1>8, <2>1 DEF Unseen, Stuck, Expects, Reading
  <2>. QED BY <2>2 DEF Sync
<1>. QED BY <1>5, <1>7, <1>8

LEMMA EndMessageSync ==
  ASSUME Full, Histories, NEW s \in Sessions, Sync(s), EndMessage(s)
  PROVE  Sync(s)'
<1>1. /\ child[s].at = "read" /\ c2s[s] # <<>> /\ c2s[s] \in Seq(Line) /\ c2s'[s] = <<>>
      /\ Command(child[s], c2s[s]) = "."
      /\ child[s].in_data \in BOOLEAN
      /\ child'[s] = [child[s] EXCEPT !.in_data = FALSE, !.at = "sem_wait"]
      /\ child[s] \in ChildType
      /\ UNCHANGED <<client, s2c, mailbox, typed, sent, refused>>
  BY DEF EndMessage, Reads, Becomes, hist, Full, Inv, Sound, ChildType
<1>2. Clean(s)' => Clean(s)
  BY <1>1 DEF Clean
<1>. SUFFICES ASSUME Clean(s) PROVE Sync(s)'
  BY <1>2 DEF Sync
<1>3. ~Asked(s)
  <2>. SUFFICES ASSUME Asked(s) PROVE FALSE
    OBVIOUS
  <2>1. PICK l \in Line : c2s[s] = <<l>>
    BY DEF Asked
  <2>. QED BY <1>1, <2>1, Commands1 DEF Asked
<1>4. ~Typing(s) /\ ~Unseen(s)
  <2>1. 1 \in DOMAIN c2s[s] /\ c2s[s][1] = Head(c2s[s])
    BY <1>1
  <2>. QED BY ZenonT(40), <1>1, <2>1, Commands2 DEF Typing, Unseen
<1>5. Ended(s)
  BY <1>1, <1>3, <1>4 DEF Sync, Unconnected, Resting, Told, Taken, Stuck, Over, Gone
<1>6. LastOpen(s)'
  BY <1>1, <1>5, FilesStay DEF Full, Ended
<1>7. /\ child'[s].at = "sem_wait" /\ ~child'[s].in_data /\ child'[s].body = child[s].body
  BY <1>1 DEF ChildType
<1>8. Taken(s)'
  BY <1>1, <1>5, <1>6, <1>7 DEF Ended, Taken, KeptBody, Expects
<1>. QED BY <1>8 DEF Sync

(* A message is stored or refused, and answered.                           *)
LEMMA DeliverSync ==
  ASSUME Full, Histories, NEW s \in Sessions, Sync(s), sem_wait(s) \/ Deliver(s)
  PROVE  Sync(s)'
<1>1. /\ child[s].at \in {"sem_wait", "append", "post 250", "post 500", "250", "500"}
      /\ child[s] \in ChildType
      /\ UNCHANGED <<client, c2s, typed, sent>>
  BY DEF sem_wait, Deliver, Store, StoreFails, sem_post, Stored, Others, hist, conns, Full, Inv,
         Sound
<1>2. Clean(s)' => Clean(s)
  BY <1>1 DEF Clean
<1>. SUFFICES ASSUME Clean(s) PROVE Sync(s)'
  BY <1>2 DEF Sync
<1>3. Taken(s)
  BY <1>1 DEF Sync, Unconnected, Resting, Asked, Told, Typing, Ended, Unseen, Stuck, Over, Gone,
              Reading
<1>4. \A at : child' = [child EXCEPT ![s].at = at] =>
        /\ child'[s].at = at /\ child'[s].in_data = child[s].in_data
        /\ child'[s].body = child[s].body
  BY ZenonT(40), <1>1 DEF Full, Inv, ChildType
<1>5. CASE sem_wait(s)
  <2>1. /\ child[s].at = "sem_wait" /\ child'[s].at = "append"
        /\ child'[s].in_data = child[s].in_data /\ child'[s].body = child[s].body
        /\ UNCHANGED <<s2c, mailbox, refused>>
    BY <1>4, <1>5 DEF sem_wait, Others, hist
  <2>2. LastOpen(s)'
    BY <1>1, <1>3, <2>1, FilesStay DEF Full, Taken
  <2>3. Taken(s)'
    BY <1>1, <1>3, <2>1, <2>2 DEF Taken, Expects, KeptBody
  <2>. QED BY <2>3 DEF Sync
<1>6. CASE Store(s) \/ StoreFails(s)
  <2>1. /\ child[s].at = "append" /\ child'[s].at \in {"post 250", "post 500"}
        /\ child'[s].in_data = child[s].in_data
        /\ UNCHANGED s2c
    BY <1>4, <1>6 DEF Store, StoreFails, conns
  <2>2. AllFiled(s)'
    BY <1>3, <1>6, <2>1, FilesStored, FilesRefused DEF Full, Taken
  <2>3. Taken(s)'
    BY <1>1, <1>3, <2>1, <2>2 DEF Taken, Expects
  <2>. QED BY <2>3 DEF Sync
<1>7. CASE sem_post(s)
  <2>1. /\ child[s].at \in {"post 250", "post 500"} /\ child'[s].at \in {"250", "500"}
        /\ child'[s].in_data = child[s].in_data
        /\ UNCHANGED <<s2c, mailbox, refused>>
    <3>. DEFINE d == [child[s] EXCEPT !.at = IF @ = "post 250" THEN "250" ELSE "500"]
    <3>1. child'[s] = d
      BY <1>7 DEF sem_post, Full, Inv
    <3>2. d.at \in {"250", "500"} /\ d.in_data = child[s].in_data
      BY <1>1 DEF ChildType
    <3>. QED BY <1>7, <3>1, <3>2 DEF sem_post, Others, hist
  <2>2. AllFiled(s)'
    BY <1>1, <1>3, <2>1, FilesStay DEF Full, Taken
  <2>3. Taken(s)'
    BY <1>1, <1>3, <2>1, <2>2 DEF Taken, Expects
  <2>. QED BY <2>3 DEF Sync
<1>8. CASE Stored(s)
  <2>1. /\ child[s].at \in {"250", "500"} /\ child'[s].at = "read"
        /\ child'[s].in_data = child[s].in_data
        /\ s2c'[s] = Append(s2c[s], Code(child[s].at))
        /\ UNCHANGED <<mailbox, refused>>
    BY <1>1, <1>8 DEF Stored, Reply, Others, hist, Full, Inv, Histories, ChildType
  <2>2. PICK r : s2c'[s] = Append(s2c[s], r) /\ r.code # "Enter"
    BY <2>1 DEF Code
  <2>3. s2c'[s] = <<r>> /\ Head(<<r>>) = r /\ <<r>> # <<>>
    <3>1. s2c[s] = <<>>
      BY <1>3 DEF Taken
    <3>. QED BY ONLY <2>2, <3>1
  <2>4. AllFiled(s)'
    BY <1>1, <1>3, <2>1, FilesStay DEF Full, Taken
  <2>5. Told(s)'
    BY <1>1, <1>3, <2>1, <2>2, <2>3, <2>4 DEF Taken, Told, Expects, Reading
  <2>. QED BY <2>5 DEF Sync
<1>. QED BY <1>5, <1>6, <1>7, <1>8 DEF Deliver

(* A step of one session leaves the others alone, except that the mailbox  *)
(* may get a mail of its user.                                             *)
Step(s) ==
  \/ Connect(s)
  \/ \E l \in Commands : TypeCommand(s, l)
  \/ \E l \in BodyLines : TypeBody(s, l)
  \/ TypeDot(s) \/ ClientRead(s) \/ EndOfInput(s) \/ ServerGone(s)
  \/ handle_client(s) \/ sem_wait(s) \/ Deliver(s) \/ Crash(s)

LEMMA StepApart ==
  ASSUME Full, Histories, NEW s \in Sessions, Step(s), NEW t \in Sessions, t # s
  PROVE  Apart(t) /\ FilesApart(t)
<1>. USE DEF Apart
<1>. Inv
  BY DEF Full
<1>1. ASSUME NEW k, Reads(s, k) PROVE c2s'[t] = c2s[t] /\ UNCHANGED <<client, mailbox, hist>>
  BY <1>1 DEF Reads, Inv
<1>2. ASSUME NEW l, Write(s, l)
      PROVE  c2s'[t] = c2s[t] /\ UNCHANGED <<s2c, child, mailbox>>
  BY <1>2 DEF Write, Inv
<1>3. \A r : Reply(s, r) => s2c'[t] = s2c[t]
  BY DEF Reply, Histories
<1>4. /\ \A d : Becomes(s, d) => child'[t] = child[t]
      /\ Forbid(s) => child'[t] = child[t] /\ s2c'[t] = s2c[t]
  BY <1>3 DEF Becomes, Forbid, Inv
<1>5. CASE Connect(s) \/ (\E l \in Commands : TypeCommand(s, l))
  BY <1>2, <1>5 DEF Connect, TypeCommand, conns, hist, Inv, FilesApart
<1>6. CASE (\E l \in BodyLines : TypeBody(s, l)) \/ TypeDot(s)
  BY <1>2, <1>6 DEF TypeBody, TypeDot, Inv, Histories, FilesApart
<1>7. CASE ClientRead(s) \/ EndOfInput(s) \/ ServerGone(s)
  BY <1>7 DEF ClientRead, EndOfInput, ServerGone, Leave, conns, hist, Inv, Histories, FilesApart
<1>8. CASE Helo(s) \/ MailFrom(s) \/ RcptTo(s) \/ Data(s)
  <2>1. c2s'[t] = c2s[t] /\ UNCHANGED <<client, mailbox, hist>>
    BY <1>1, <1>8 DEF Helo, MailFrom, RcptTo, Data
  <2>2. child'[t] = child[t] /\ s2c'[t] = s2c[t]
    BY <1>3, <1>4, <1>8 DEF Helo, MailFrom, RcptTo, Data
  <2>. QED BY <2>1, <2>2 DEF hist, FilesApart
<1>9. CASE Body(s) \/ EndMessage(s) \/ List(s) \/ GetMail(s) \/ Quit(s) \/ Invalid(s)
  <2>1. c2s'[t] = c2s[t] /\ UNCHANGED <<client, mailbox, hist>>
    BY <1>1, <1>9 DEF Body, EndMessage, List, GetMail, Quit, Invalid
  <2>2. child'[t] = child[t] /\ s2c'[t] = s2c[t]
    BY <1>3, <1>4, <1>9 DEF Body, EndMessage, List, GetMail, Quit, Invalid, Inv
  <2>. QED BY <2>1, <2>2 DEF hist, FilesApart
<1>10. CASE Disconnect(s) \/ Crash(s) \/ sem_wait(s) \/ sem_post(s) \/ Stored(s)
  BY <1>3, <1>10 DEF Disconnect, Crash, sem_wait, sem_post, Stored, Others, conns, hist, Inv,
                     FilesApart
<1>11. CASE Store(s)
  <2>. DEFINE m == [by |-> s, no |-> Len(sent[s]), from |-> child[s].sender,
                    to |-> child[s].recipient, body |-> child[s].body]
  <2>1. m \in Mail /\ m.by # t /\ mailbox' = Append(mailbox, m)
    BY <1>11, MailStep DEF Store
  <2>. HIDE DEF m
  <2>2. FilesApart(t)
    BY <2>1 DEF FilesApart
  <2>. QED BY <1>11, <2>2 DEF Store, Others, hist, Inv
<1>12. CASE StoreFails(s)
  BY <1>12 DEF StoreFails, conns, Inv, Histories, FilesApart
<1>. QED BY <1>5, <1>6, <1>7, <1>8, <1>9, <1>10, <1>11, <1>12 DEF Step, handle_client, Deliver

LEMMA StepSync ==
  ASSUME Full, Histories, NEW s \in Sessions, Step(s), Sync(s)
  PROVE  Sync(s)'
<1>1. CASE handle_client(s)
  BY <1>1, AnswerSync, EndingSync, BodySync, EndMessageSync DEF handle_client, Answers
<1>2. CASE EndOfInput(s) \/ ServerGone(s)
  BY <1>2, LeaveSync
<1>3. CASE Crash(s)
  BY <1>3, EndingSync
<1>4. CASE sem_wait(s) \/ Deliver(s)
  BY <1>4, DeliverSync
<1>. QED BY <1>1, <1>2, <1>3, <1>4, ConnectSync, TypeCommandSync, TypeBodySync, TypeDotSync,
            ClientReadSync DEF Step

AllSync == \A s \in Sessions : Sync(s)

LEMMA SyncInvariant == Spec => [](Full /\ Histories /\ AllSync)
<1>1. Init => AllSync
  <2>. SUFFICES ASSUME Init, NEW s \in Sessions PROVE Unconnected(s)
    BY DEF AllSync, Sync
  <2>1. Mine(s) = {} /\ sent[s] = <<>> /\ refused[s] = {} /\ Len(sent[s]) = 0 /\ 1 .. 0 = {}
    BY DEF Init, Mine
  <2>2. Filed(s, 0) /\ Complete(s, 0)
    BY <2>1 DEF Filed, Complete
  <2>3. AllFiled(s)
    BY <2>1, <2>2 DEF AllFiled
  <2>. QED BY <2>3 DEF Init, Unconnected, Fresh
<1>2. Full /\ Histories /\ AllSync /\ [Next]_vars => AllSync'
  <2>. SUFFICES ASSUME Full, Histories, AllSync, [Next]_vars, NEW t \in Sessions
                PROVE  Sync(t)'
    BY DEF AllSync
  <2>1. CASE UNCHANGED vars
    <3>1. Apart(t) /\ FilesApart(t)
      BY <2>1 DEF vars, conns, hist, Apart, FilesApart
    <3>. QED BY <3>1, SyncKept DEF AllSync, Full
  <2>2. CASE Next
    <3>1. PICK s \in Sessions : Step(s)
      BY <2>2 DEF Next, Step
    <3>2. CASE s = t
      BY <3>1, <3>2, StepSync DEF AllSync
    <3>3. CASE s # t
      BY <3>1, <3>3, StepApart, SyncKept DEF AllSync, Full
    <3>. QED BY <3>2, <3>3
  <2>. QED BY <2>1, <2>2
<1>. QED BY <1>1, <1>2, Invariant, NextInv, HistoriesKept, PTL DEF Spec

(* Every mail in a mailbox is one of its user's messages, as typed and as  *)
(* far as email_body holds it, in their order and none twice; and when the *)
(* prompt is back, only those that were answered with 500 are missing -    *)
(* however reads put lines together, for lines that are not blank and do   *)
(* not begin like a command (process_command, lines 242 to 275).           *)
THEOREM Delivered == Spec => []BodyExact
<1>1. Full /\ Histories /\ AllSync => BodyExact
  <2>. SUFFICES ASSUME Full, Histories, AllSync, NEW s \in Sessions, Clean(s)
                PROVE  /\ \A k \in Mine(s) :
                            /\ mailbox[k].no \in (DOMAIN sent[s]) \ refused[s]
                            /\ mailbox[k].body = FirstOf(BodyCap, sent[s][mailbox[k].no])
                       /\ \A j, k \in Mine(s) : j < k => mailbox[j].no < mailbox[k].no
                       /\ client[s].at = "prompt" => Accounted(s)
    BY DEF BodyExact
  <2>1. SomeFiled(s)
    BY FilesWeaken DEF AllSync, Sync, Unconnected, Resting, Asked, Told, Typing, Ended, Unseen,
                       Taken, Stuck, Over
  <2>2. client[s].at = "prompt" => AllFiled(s)
    BY DEF AllSync, Sync, Unconnected, Resting, Asked, Told, Typing, Ended, Unseen, Taken, Stuck,
           Over, Expects
  <2>3. DOMAIN sent[s] = 1 .. Len(sent[s])
    BY LenProperties DEF Histories
  <2>4. client[s].at = "prompt" => Accounted(s)
    BY <2>2, <2>3 DEF AllFiled, Complete, Accounted
  <2>. QED BY <2>1, <2>3, <2>4 DEF SomeFiled, Filed
<1>. QED BY <1>1, SyncInvariant, PTL

(* A client that shows its prompt has taken every response: none is left   *)
(* that could be taken for the answer to a later command, under the same   *)
(* condition (read_response, lines 104 to 145; process_command).           *)
THEOREM StaysInStep == Spec => []InStep
<1>1. AllSync => InStep
  BY DEF InStep, AllSync, Sync, Unconnected, Resting, Asked, Told, Typing, Ended, Unseen, Taken,
         Stuck, Over, Expects
<1>. QED BY <1>1, SyncInvariant, PTL
-----------------------------------------------------------------------------
(* Where the server reads each line before the next is typed: one line at  *)
(* most is under way, and a client that waits for what does not come has   *)
(* typed LIST or GET_MAIL.                                                 *)
OneLine(s) == ~Gone(s) => c2s[s] = <<>> \/ \E l : c2s[s] = <<l>>
NotLeft(s) ==
  Clean(s) /\ Expects(s) /\ Reading(s) /\ c2s[s] = <<>> /\ s2c[s] = <<>> => client[s].multi

LEMMA GoneStays == ASSUME Full, NEW s \in Sessions, Step(s), Gone(s) PROVE Gone(s)'
<1>. USE DEF Gone
<1>1. ~Connect(s)
  BY DEF Connect, Full, Unborn
<1>2. ASSUME NEW k PROVE ~Reads(s, k)
  BY DEF Reads
<1>3. ~handle_client(s)
  BY <1>2 DEF handle_client, Helo, MailFrom, RcptTo, Data, Body, EndMessage, List, GetMail, Quit,
              Invalid, Disconnect
<1>4. ~sem_wait(s) /\ ~Deliver(s) /\ ~Crash(s)
  BY DEF sem_wait, Deliver, Store, StoreFails, sem_post, Stored, Crash
<1>5. CASE (\E l \in Commands : TypeCommand(s, l)) \/ (\E l \in BodyLines : TypeBody(s, l))
           \/ TypeDot(s)
  BY <1>5 DEF TypeCommand, TypeBody, TypeDot, Write
<1>6. CASE ClientRead(s) \/ EndOfInput(s) \/ ServerGone(s)
  BY <1>6 DEF ClientRead, EndOfInput, ServerGone, Leave
<1>. QED BY <1>1, <1>3, <1>4, <1>5, <1>6 DEF Step

LEMMA OneLineStep ==
  ASSUME ~Coalesce, Full, NEW s \in Sessions, Step(s), OneLine(s)
  PROVE  OneLine(s)'
<1>. SUFFICES ASSUME ~Gone(s) PROVE c2s'[s] = <<>> \/ \E l : c2s'[s] = <<l>>
  BY GoneStays DEF OneLine
<1>1. c2s[s] = <<>> \/ \E l : c2s[s] = <<l>>
  BY DEF OneLine
<1>2. ASSUME NEW l, Write(s, l) PROVE c2s'[s] = <<l>>
  <2>1. c2s'[s] = Append(<<>>, l)
    BY <1>2 DEF Write, Full, Inv
  <2>. QED BY <2>1
<1>3. ASSUME NEW k, Reads(s, k) PROVE c2s'[s] = <<>>
  BY <1>3 DEF Reads, Full, Inv
<1>4. CASE (\E l \in Commands : TypeCommand(s, l)) \/ (\E l \in BodyLines : TypeBody(s, l))
           \/ TypeDot(s)
  BY <1>2, <1>4 DEF TypeCommand, TypeBody, TypeDot
<1>5. CASE Connect(s) \/ ClientRead(s) \/ EndOfInput(s) \/ ServerGone(s)
  BY <1>1, <1>5 DEF Connect, conns, ClientRead, EndOfInput, ServerGone, Leave
<1>6. CASE handle_client(s) /\ ~Disconnect(s)
  BY <1>3, <1>6 DEF handle_client, Helo, MailFrom, RcptTo, Data, Body, EndMessage, List, GetMail,
                    Quit, Invalid
<1>7. CASE Disconnect(s) \/ sem_wait(s) \/ Deliver(s) \/ Crash(s)
  BY <1>1, <1>7 DEF Disconnect, sem_wait, Deliver, Store, StoreFails, sem_post, Stored, Crash,
                    conns, Others
<1>. QED BY <1>4, <1>5, <1>6, <1>7 DEF Step

(* A child at work finds no answer left in the stream before its own.      *)
LEMMA ReplyComes ==
  ASSUME Histories, NEW s \in Sessions, Sync(s), Clean(s), NEW r, Reply(s, r),
         (child[s].at = "read" /\ c2s[s] # <<>>) \/ child[s].at \in {"250", "500"}
  PROVE  s2c'[s] # <<>>
<1>1. s2c[s] = <<>>
  BY DEF Sync, Unconnected, Resting, Asked, Told, Typing, Ended, Unseen, Taken, Stuck, Over, Gone,
         Reading
<1>2. s2c'[s] = <<r>> /\ <<r>> # <<>>
  BY <1>1 DEF Reply, Histories
<1>. QED BY <1>2

LEMMA NotLeftStep ==
  ASSUME ~Coalesce, Full, Histories, NEW s \in Sessions, Step(s), Sync(s), OneLine(s), NotLeft(s)
  PROVE  NotLeft(s)'
<1>. USE DEF Full, Inv
<1>. SUFFICES ASSUME Clean(s)', Expects(s)', Reading(s)', c2s'[s] = <<>>, s2c'[s] = <<>>
              PROVE  client'[s].multi
  BY DEF NotLeft
<1>1. ~Connect(s)
  BY DEF Connect, Expects, ClientType
<1>2. ASSUME NEW l PROVE ~Write(s, l)
  <2>. SUFFICES ASSUME Write(s, l) PROVE FALSE
    OBVIOUS
  <2>1. c2s'[s] = Append(c2s[s], l)
    BY DEF Write
  <2>. QED BY <2>1
<1>3. CASE (\E l \in Commands : TypeCommand(s, l)) \/ (\E l \in BodyLines : TypeBody(s, l))
           \/ TypeDot(s)
  BY <1>2, <1>3 DEF TypeCommand, TypeBody, TypeDot
<1>4. CASE ClientRead(s)
  <2>. PICK at, multi : at = client[s].at /\ multi = client[s].multi
    OBVIOUS
  <2>. PICK dashes, bye, enter : /\ dashes = Has(s2c[s], Dashes)
                                 /\ bye = (Head(s2c[s]).code = "Goodbye")
                                 /\ enter = (at = "data" /\ Has(s2c[s], {"Enter"}))
    OBVIOUS
  <2>. DEFINE to == CASE multi /\ ~dashes -> at
                      [] bye              -> "closed"
                      [] enter            -> "body"
                      [] OTHER            -> "prompt"
  <2>1. client'[s].at = to /\ client'[s].multi = multi
    BY <1>4 DEF ClientRead, ClientType
  <2>2. to \in {"await", "data"}
    BY <2>1 DEF Expects
  <2>3. multi
    BY <2>2
  <2>. QED BY <2>1, <2>3
<1>5. CASE EndOfInput(s) \/ ServerGone(s)
  BY <1>5 DEF EndOfInput, ServerGone, Leave, Expects, ClientType
<1>6. CASE Answers(s)
  <2>1. \E r : Reply(s, r)
    BY <1>6 DEF Answers, Helo, MailFrom, RcptTo, Data, List, GetMail, Invalid, Forbid
  <2>2. /\ child[s].at = "read" /\ c2s[s] # <<>>
        /\ UNCHANGED <<typed, sent>>
    BY <1>6 DEF Answers, Helo, MailFrom, RcptTo, Data, List, GetMail, Invalid, Reads, hist
  <2>. QED BY <2>1, <2>2, ReplyComes DEF Clean
<1>7. CASE Quit(s) \/ Disconnect(s) \/ Crash(s)
  BY ZenonT(40), <1>7 DEF Quit, Disconnect, Crash, Reading, Sound, ChildType
<1>8. CASE EndMessage(s)
  BY <1>8 DEF EndMessage, Becomes, Reading, Sound, ChildType
<1>9. CASE Body(s)
  <2>1. /\ child[s].at = "read" /\ c2s[s] # <<>> /\ Command(child[s], c2s[s]) = "body"
        /\ UNCHANGED <<client, typed, sent>>
    BY <1>9 DEF Body, Reads, hist
  <2>2. Clean(s) /\ Expects(s)
    BY <2>1 DEF Clean, Expects
  <2>3. Asked(s) \/ Ended(s) \/ Unseen(s)
    BY <2>1, <2>2 DEF Sync, Unconnected, Resting, Told, Typing, Taken, Stuck, Over, Expects, Gone
  <2>4. ~Asked(s)
    <3>. SUFFICES ASSUME Asked(s) PROVE FALSE
      OBVIOUS
    <3>1. PICK l \in Line : c2s[s] = <<l>>
      BY DEF Asked
    <3>. QED BY <2>1, <3>1, Commands1 DEF Asked
  <2>5. ~Ended(s)
    BY <2>1, Commands3 DEF Ended, Sound, ChildType
  <2>6. ~Unseen(s)
    <3>1. c2s[s] = <<>> \/ \E l : c2s[s] = <<l>>
      BY <2>1 DEF OneLine, Gone
    <3>2. PICK l : c2s[s] = <<l>>
      BY <2>1, <3>1
    <3>3. Len(<<l>>) = 1 /\ ~(1 > 1)
      OBVIOUS
    <3>. QED BY <3>2, <3>3 DEF Unseen
  <2>. QED BY <2>3, <2>4, <2>5, <2>6
<1>10. CASE sem_wait(s) \/ Store(s) \/ StoreFails(s) \/ sem_post(s)
  BY ZenonT(40), <1>10 DEF sem_wait, Store, StoreFails, sem_post, Reading, Sound, ChildType
<1>11. CASE Stored(s)
  <2>1. /\ child[s].at \in {"250", "500"} /\ UNCHANGED <<typed, sent>>
        /\ Reply(s, Code(child[s].at))
    BY <1>11 DEF Stored, Others, hist
  <2>. QED BY <2>1, ReplyComes DEF Clean
<1>. QED BY <1>1, <1>3, <1>4, <1>5, <1>6, <1>7, <1>8, <1>9, <1>10, <1>11
     DEF Step, handle_client, Answers, Deliver

(* The answer is in the client's stream, or on its way to be made.         *)
AnswerUnderWay ==
  \A s \in Sessions : Clean(s) /\ client[s].at \in {"await", "data"} /\ ~Gone(s) =>
    \/ s2c[s] # <<>>
    \/ child[s].at = "read" /\ c2s[s] # <<>>
    \/ Storing(s) \/ child[s].at \in {"250", "500"}
    \/ client[s].multi

(* A client that waits for an answer has one to read, or its child has the *)
(* line to read that is answered or is at work on the message: where each  *)
(* line is read before the next is typed, the two never wait for each      *)
(* other, LIST and GET_MAIL aside, for any number of sessions that share   *)
(* mailboxes and lines that are not blank and do not begin like a command  *)
(* (read_response, process_command).  Answered rests on this.              *)
THEOREM AnswerComes == ASSUME ~Coalesce PROVE Spec => []AnswerUnderWay
<1>. DEFINE Held == \A s \in Sessions : OneLine(s) /\ NotLeft(s)
<1>1. Init => Held
  BY DEF Init, OneLine, NotLeft, Expects
<1>2. Full /\ Histories /\ AllSync /\ Held /\ [Next]_vars => Held'
  <2>. SUFFICES ASSUME Full, Histories, AllSync, Held, [Next]_vars, NEW t \in Sessions
                PROVE  OneLine(t)' /\ NotLeft(t)'
    OBVIOUS
  <2>1. ASSUME Apart(t) PROVE OneLine(t)' /\ NotLeft(t)'
    <3>1. OneLine(t) /\ NotLeft(t)
      OBVIOUS
    <3>2. OneLine(t)'
      BY <2>1, <3>1 DEF Apart, OneLine, Gone
    <3>3. NotLeft(t)'
      BY <2>1, <3>1 DEF Apart, NotLeft, Clean, Expects, Reading
    <3>. QED BY <3>2, <3>3
  <2>2. CASE UNCHANGED vars
    <3>1. Apart(t)
      BY <2>2 DEF vars, conns, hist, Apart
    <3>. QED BY <2>1, <3>1
  <2>3. CASE Next
    <3>1. PICK s \in Sessions : Step(s)
      BY <2>3 DEF Next, Step
    <3>2. CASE s = t
      BY <3>1, <3>2, OneLineStep, NotLeftStep DEF AllSync
    <3>3. CASE s # t
      BY <2>1, <3>1, <3>3, StepApart
    <3>. QED BY <3>2, <3>3
  <2>. QED BY <2>2, <2>3
<1>3. AllSync /\ Full /\ Held => AnswerUnderWay
  <2>. SUFFICES ASSUME AllSync, Full, Held, NEW s \in Sessions, Clean(s), Expects(s), ~Gone(s)
                PROVE  \/ s2c[s] # <<>>
                       \/ child[s].at = "read" /\ c2s[s] # <<>>
                       \/ Storing(s) \/ child[s].at \in {"250", "500"}
                       \/ client[s].multi
    BY DEF AnswerUnderWay, Expects
  <2>1. Asked(s) \/ Told(s) \/ Ended(s) \/ Unseen(s) \/ Taken(s) \/ Stuck(s)
    BY DEF AllSync, Sync, Unconnected, Resting, Typing, Over, Expects
  <2>2. NotLeft(s)
    OBVIOUS
  <2>3. CASE Asked(s) \/ Ended(s) \/ Unseen(s) \/ Stuck(s)
    BY <2>2, <2>3 DEF Asked, Ended, Unseen, Stuck, Reading, NotLeft
  <2>4. CASE Told(s) \/ Taken(s)
    BY <2>4 DEF Told, Taken, Storing, InSection
  <2>. QED BY <2>1, <2>3, <2>4
<1>. QED BY <1>1, <1>2, <1>3, SyncInvariant, PTL DEF Spec
=============================================================================
