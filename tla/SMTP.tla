-------------------------------- MODULE SMTP --------------------------------
(***************************************************************************)
(* The mail service of Assignment_6: mysmtp_server.c forks a child for     *)
(* each connection, and the children append to the mailbox files under a   *)
(* named semaphore for each recipient; mysmtp_client.c sends the lines a   *)
(* user types and waits for one response to each command.                  *)
(*                                                                         *)
(* A line is its command and argument (for GET_MAIL: the address, when an  *)
(* ID follows).  Lines are short: no read splits one, but a read returns   *)
(* all the lines that have come.                                           *)
(***************************************************************************)
EXTENDS Integers, Sequences, FiniteSets, SequencesExt

CONSTANTS
  Sessions,    \* connections, each with a user, a client and a child
  Addresses,   \* arguments with an @
  Commands,    \* lines the users type at the prompt
  BodyLines,   \* lines they type in a message, before the dot
  MaxLines,    \* bound: lines typed in a session, dots not counted
  BodyCap,     \* how many lines fit into email_body
  Coalesce,    \* FALSE: the server reads each line before the next is typed
  MaxCrashes   \* bound: children that are killed

Word    == "word"       \* an argument without @
Nothing == "nothing"    \* no argument; memory that was cleared
Names   == Addresses \cup {Word}
Line    == [k : {"HELO", "MAIL FROM:", "RCPT TO:", "DATA", "LIST", "GET_MAIL",
                 "QUIT", ".", "text", "Date:", "ID:", ""},
            a : Names \cup {Nothing}]
Dot     == [k |-> ".", a |-> Nothing]

ASSUME SMTPAssumption ==
  /\ Word \notin Addresses /\ Nothing \notin Addresses
  /\ Commands \cup BodyLines \subseteq Line
  /\ Dot \notin BodyLines
  /\ MaxLines \in Nat /\ BodyCap \in Nat /\ MaxCrashes \in Nat
  /\ Coalesce \in BOOLEAN

INIT  == 0     \* the states of a session
HELO  == 1
FROM  == 2
RCPT  == 3
DATA  == 4

VARIABLES
  client,      \* [at, multi]: the client program
  c2s, s2c,    \* lines and responses under way
  child,       \* [at, state, in_data, sender, recipient, body]
  mailbox,     \* all mails in the order of their appending: [by, from, to, body],
               \* and no: which of its user's messages it is (history)
  sem,         \* the value of each recipient's semaphore
  typed, sent, \* history: the message being typed, the messages ended by a dot,
  refused,     \* and the numbers of those that could not be stored
  lines, crashes

conns == <<c2s, s2c>>
hist  == <<typed, sent, refused, lines>>
vars  == <<client, conns, child, mailbox, sem, hist, crashes>>

Fresh == [at |-> "none", state |-> INIT, in_data |-> FALSE,
          sender |-> Nothing, recipient |-> Nothing, body |-> <<>>]

Init ==
  /\ client  = [s \in Sessions |-> [at |-> "start", multi |-> FALSE]]
  /\ c2s     = [s \in Sessions |-> <<>>]
  /\ s2c     = [s \in Sessions |-> <<>>]
  /\ child   = [s \in Sessions |-> Fresh]
  /\ mailbox = <<>>
  /\ sem     = [r \in Names |-> 1]
  /\ typed   = [s \in Sessions |-> <<>>]
  /\ sent    = [s \in Sessions |-> <<>>]
  /\ refused = [s \in Sessions |-> {}]
  /\ lines   = [s \in Sessions |-> 0]
  /\ crashes = 0

Gone(s) == child[s].at \in {"gone", "killed"}
-----------------------------------------------------------------------------
(* The client: one response is awaited after each command, none after the  *)
(* lines of a message; LIST and GET_MAIL wait for a line of dashes.        *)
Connect(s) ==
  /\ client[s].at = "start"
  /\ client' = [client EXCEPT ![s].at = "prompt"]
  /\ child' = [child EXCEPT ![s].at = "read"]
  /\ UNCHANGED <<conns, mailbox, sem, hist, crashes>>

Write(s, l) ==
  /\ Coalesce \/ c2s[s] = <<>> \/ Gone(s)
  /\ c2s' = [c2s EXCEPT ![s] = Append(@, l)]
  /\ UNCHANGED <<s2c, child, mailbox, sem, crashes>>

TypeCommand(s, l) ==
  /\ client[s].at = "prompt"
  /\ lines[s] < MaxLines
  /\ l.k # ""
  /\ Write(s, l)
  /\ client' = [client EXCEPT ![s] =
       [at |-> IF l.k = "DATA" THEN "data" ELSE "await",
        multi |-> l.k \in {"LIST", "GET_MAIL"}]]
  /\ lines' = [lines EXCEPT ![s] = @ + 1]
  /\ UNCHANGED <<typed, sent, refused>>

TypeBody(s, l) ==
  /\ client[s].at = "body"
  /\ lines[s] < MaxLines
  /\ Write(s, l)
  /\ typed' = [typed EXCEPT ![s] = Append(@, l)]
  /\ lines' = [lines EXCEPT ![s] = @ + 1]
  /\ UNCHANGED <<client, sent, refused>>

TypeDot(s) ==
  /\ client[s].at = "body"
  /\ Write(s, Dot)
  /\ client' = [client EXCEPT ![s].at = "await"]
  /\ sent' = [sent EXCEPT ![s] = Append(@, typed[s])]
  /\ typed' = [typed EXCEPT ![s] = <<>>]
  /\ UNCHANGED <<refused, lines>>

(* read_response.                                                          *)
MailOnly == {"mail"}                       \* mutant
Dashes   == {"list", "mail"}               \* responses that end with dashes
Has(rs, codes) == \E k \in DOMAIN rs : rs[k].code \in codes

ClientRead(s) ==
  LET got == s2c[s] IN
  /\ client[s].at \in {"await", "data"}
  /\ got # <<>>
  /\ s2c' = [s2c EXCEPT ![s] = <<>>]
  /\ client' = [client EXCEPT ![s].at =
       CASE client[s].multi /\ ~Has(got, Dashes)          -> @
         [] Head(got).code = "Goodbye"                    -> "closed"
         [] client[s].at = "data" /\ Has(got, {"Enter"})  -> "body"
         [] OTHER                                         -> "prompt"]
  /\ UNCHANGED <<c2s, child, mailbox, sem, hist, crashes>>

Leave(s) ==
  /\ client' = [client EXCEPT ![s].at = "closed"]
  /\ UNCHANGED <<conns, child, mailbox, sem, hist, crashes>>

EndOfInput(s) == client[s].at = "prompt" /\ Leave(s)

(* read returns 0; a write to the closed connection raises SIGPIPE.        *)
ServerGone(s) ==
  /\ \/ client[s].at \in {"await", "data"} /\ Gone(s) /\ s2c[s] = <<>>
     \/ client[s].at = "body" /\ Gone(s)
  /\ Leave(s)
-----------------------------------------------------------------------------
(* process_command works on what one read returned.  The order of its      *)
(* tests: prefixes first, DATA even inside a message, then the message.    *)
EndsAnywhere(chunk) == Last(chunk) = Dot                          \* mutant
EndsMessage(chunk)  == chunk = <<Dot>>

Envelope == {"HELO", "MAIL FROM:", "RCPT TO:"}
Message(chunk) == IF EndsMessage(chunk) THEN "." ELSE "body"
Query(chunk) ==
  LET k == Head(chunk).k
  IN  IF k \in {"LIST", "GET_MAIL"} \/ (k = "QUIT" /\ Len(chunk) = 1) THEN k ELSE "unknown"
QueryFirst(c, chunk) ==                                           \* mutant
  IF c.in_data /\ Query(chunk) = "unknown" THEN Message(chunk) ELSE Query(chunk)
MessageFirst(c, chunk) ==
  IF c.in_data THEN Message(chunk) ELSE Query(chunk)

Command(c, chunk) ==
  LET k == Head(chunk).k
      alone == Len(chunk) = 1
  IN  IF k = "" /\ alone THEN "empty"
      ELSE IF k \in Envelope \/ (k = "DATA" /\ alone) THEN k
      ELSE MessageFirst(c, chunk)

Code(code)     == [code |-> code, n |-> 0]
Reply(s, r)    == s2c' = [s2c EXCEPT ![s] = Append(@, r)]
Becomes(s, c)  == child' = [child EXCEPT ![s] = c]

(* The child reads a chunk that is command k.  sscanf skips the end of the *)
(* line in search of an argument and takes the next line's first word.     *)
Reads(s, k) ==
  /\ child[s].at = "read"
  /\ c2s[s] # <<>>
  /\ Command(child[s], c2s[s]) = k
  /\ c2s' = [c2s EXCEPT ![s] = <<>>]
  /\ UNCHANGED <<client, mailbox, sem, hist, crashes>>
arg(s) ==
  IF Head(c2s[s]).a = Nothing /\ \E l \in Range(Tail(c2s[s])) : l.k # "" THEN Word
  ELSE Head(c2s[s]).a

ForbidKeepsData(s) ==                                             \* mutant
  /\ Reply(s, Code("403"))
  /\ Becomes(s, [Fresh EXCEPT !.at = "read", !.in_data = child[s].in_data])
Forbid(s) ==
  /\ Reply(s, Code("403"))
  /\ Becomes(s, [Fresh EXCEPT !.at = "read"])

Helo(s) ==
  /\ Reads(s, "HELO")
  /\ \/ /\ arg(s) = Nothing
        /\ Reply(s, Code("400"))
        /\ UNCHANGED child
     \/ /\ arg(s) # Nothing
        /\ Reply(s, Code("200"))
        /\ Becomes(s, [child[s] EXCEPT !.state = HELO])

(* sscanf stores a word before the search for an @.                        *)
Scanned(old, a) == IF a = Nothing THEN old ELSE a

MailFrom(s) ==
  /\ Reads(s, "MAIL FROM:")
  /\ \/ /\ child[s].state < HELO
        /\ Forbid(s)
     \/ /\ child[s].state >= HELO
        /\ arg(s) \notin Addresses
        /\ Reply(s, Code("400"))
        /\ Becomes(s, [child[s] EXCEPT !.sender = Scanned(@, arg(s))])
     \/ /\ child[s].state >= HELO
        /\ arg(s) \in Addresses
        /\ Reply(s, Code("200"))
        /\ Becomes(s, [child[s] EXCEPT !.state = FROM, !.sender = arg(s)])

RcptTo(s) ==
  /\ Reads(s, "RCPT TO:")
  /\ \/ /\ child[s].state < FROM
        /\ Forbid(s)
     \/ /\ child[s].state >= FROM
        /\ arg(s) \notin Addresses
        /\ Reply(s, Code("400"))
        /\ Becomes(s, [child[s] EXCEPT !.recipient = Scanned(@, arg(s))])
     \/ /\ child[s].state >= FROM
        /\ arg(s) \in Addresses
        /\ Reply(s, Code("200"))
        /\ Becomes(s, [child[s] EXCEPT !.state = RCPT, !.recipient = arg(s)])

MayStart(c) == c.state >= RCPT

Data(s) ==
  /\ Reads(s, "DATA")
  /\ \/ /\ ~MayStart(child[s])
        /\ Forbid(s)
     \/ /\ MayStart(child[s])
        /\ Reply(s, Code("Enter"))
        /\ Becomes(s, [child[s] EXCEPT !.in_data = TRUE, !.state = DATA, !.body = <<>>])

FirstOf(n, b) == SubSeq(b, 1, IF Len(b) < n THEN Len(b) ELSE n)
CutLate(b) == FirstOf(BodyCap + 1, b)                             \* mutant
Cut(b)     == FirstOf(BodyCap, b)

(* Lines of the message; what does not fit any more is cut off.            *)
Body(s) ==
  /\ Reads(s, "body")
  /\ Becomes(s, [child[s] EXCEPT !.body = Cut(@ \o c2s[s])])
  /\ UNCHANGED s2c

(* The end of the message: sem_wait, append, sem_post, response.           *)
EndMessage(s) ==
  /\ Reads(s, ".")
  /\ Becomes(s, [child[s] EXCEPT !.in_data = FALSE, !.at = "sem_wait"])
  /\ UNCHANGED s2c

Others == <<client, c2s, hist, crashes>>

InSection(s) == child[s].at \in {"append", "post 250", "post 500"}

sem_wait(s) ==
  LET r == child[s].recipient IN
  /\ child[s].at = "sem_wait"
  /\ sem[r] > 0
  /\ sem' = [sem EXCEPT ![r] = @ - 1]
  /\ child' = [child EXCEPT ![s].at = "append"]
  /\ UNCHANGED <<s2c, mailbox, Others>>

Store(s) ==
  /\ child[s].at = "append"
  /\ mailbox' = Append(mailbox, [by |-> s, no |-> Len(sent[s]), from |-> child[s].sender,
                                 to |-> child[s].recipient, body |-> child[s].body])
  /\ child' = [child EXCEPT ![s].at = "post 250"]
  /\ UNCHANGED <<s2c, sem, Others>>

StoreFails(s) ==                           \* fopen returns NULL
  /\ child[s].at = "append"
  /\ child' = [child EXCEPT ![s].at = "post 500"]
  /\ refused' = [refused EXCEPT ![s] = @ \cup {Len(sent[s])}]
  /\ UNCHANGED <<client, conns, sem, mailbox, typed, sent, lines, crashes>>

PostOnlyStored(s) == child[s].at = "post 250"                     \* mutant
Posts(s) == child[s].at \in {"post 250", "post 500"}
sem_post(s) ==
  LET r == child[s].recipient IN
  /\ child[s].at \in {"post 250", "post 500"}
  /\ sem' = IF Posts(s) THEN [sem EXCEPT ![r] = @ + 1] ELSE sem
  /\ child' = [child EXCEPT ![s].at = IF @ = "post 250" THEN "250" ELSE "500"]
  /\ UNCHANGED <<s2c, mailbox, Others>>

Stored(s) ==
  /\ child[s].at \in {"250", "500"}
  /\ Reply(s, Code(child[s].at))
  /\ child' = [child EXCEPT ![s].at = "read", ![s].state = HELO]
  /\ UNCHANGED <<sem, mailbox, Others>>

(* LIST counts the lines "Date:" of the file, GET_MAIL looks for the lines *)
(* "ID:" (the first one here), the mails' own lines or not.                *)
MailsTo(r) == SelectSeq(mailbox, LAMBDA m : m.to = r)
InBodies(r, k) ==
  {p \in (DOMAIN MailsTo(r)) \X (1 .. BodyCap) :
     LET body == MailsTo(r)[p[1]].body
     IN  p[2] \in DOMAIN body /\ body[p[2]].k = k}

List(s) ==
  /\ Reads(s, "LIST")
  /\ Reply(s, IF arg(s) = Nothing THEN Code("400")
              ELSE [code |-> "list",
                    n |-> Len(MailsTo(arg(s))) + Cardinality(InBodies(arg(s), "Date:"))])
  /\ UNCHANGED child

GetMail(s) ==
  /\ Reads(s, "GET_MAIL")
  /\ Reply(s, Code(CASE arg(s) = Nothing             -> "400"
                     [] InBodies(arg(s), "ID:") # {} -> "mail"
                     [] OTHER                        -> "401"))
  /\ UNCHANGED child

Quit(s) ==
  /\ Reads(s, "QUIT")
  /\ Reply(s, Code("Goodbye"))
  /\ child' = [child EXCEPT ![s].at = "gone"]

Invalid(s) ==
  /\ Reads(s, "empty") \/ Reads(s, "unknown")
  /\ Reply(s, Code("400"))
  /\ UNCHANGED child

(* The end of the stream; a write to a closed connection kills the child.  *)
Disconnect(s) ==
  /\ client[s].at = "closed"
  /\ child[s].at \in {"read", "250", "500"}
  /\ child' = [child EXCEPT ![s].at = "gone"]
  /\ UNCHANGED <<client, conns, mailbox, sem, hist, crashes>>

(* A named semaphore stays as a child that is killed leaves it.            *)
Crash(s) ==
  /\ child[s].at # "none" /\ ~Gone(s)
  /\ crashes < MaxCrashes
  /\ crashes' = crashes + 1
  /\ child' = [child EXCEPT ![s].at = IF InSection(s) THEN "killed" ELSE "gone"]
  /\ UNCHANGED <<client, conns, mailbox, sem, hist>>
-----------------------------------------------------------------------------
handle_client(s) ==
  \/ Helo(s) \/ MailFrom(s) \/ RcptTo(s) \/ Data(s) \/ Body(s) \/ EndMessage(s)
  \/ List(s) \/ GetMail(s) \/ Quit(s) \/ Invalid(s) \/ Disconnect(s)
Deliver(s) == Store(s) \/ StoreFails(s) \/ sem_post(s) \/ Stored(s)

Next ==
  \E s \in Sessions :
    \/ Connect(s)
    \/ \E l \in Commands : TypeCommand(s, l)
    \/ \E l \in BodyLines : TypeBody(s, l)
    \/ TypeDot(s) \/ ClientRead(s) \/ EndOfInput(s) \/ ServerGone(s)
    \/ handle_client(s) \/ sem_wait(s) \/ Deliver(s) \/ Crash(s)

Spec == Init /\ [][Next]_vars

(* Programs go on; a semaphore that is posted again and again is got in    *)
(* the end; a user who has begun a message ends it with a dot.             *)
FairSpec ==
  /\ Spec
  /\ \A s \in Sessions :
       /\ WF_vars(handle_client(s)) /\ WF_vars(Deliver(s)) /\ SF_vars(sem_wait(s))
       /\ WF_vars(ClientRead(s)) /\ WF_vars(ServerGone(s)) /\ WF_vars(TypeDot(s))
-----------------------------------------------------------------------------
(* Type invariant: the children's fields, the streams and the files; a body *)
(* fits into email_body however many lines are appended to it.             *)
ChildType ==
  [at : {"none", "read", "sem_wait", "append", "post 250", "post 500", "250", "500",
         "gone", "killed"},
   state : INIT .. DATA, in_data : BOOLEAN,
   sender : Names \cup {Nothing}, recipient : Names \cup {Nothing},
   body : Seq(Line)]

TypeOK ==
  /\ client  \in [Sessions -> [at : {"start", "prompt", "await", "data", "body", "closed"},
                               multi : BOOLEAN]]
  /\ c2s     \in [Sessions -> Seq(Line)]
  /\ child   \in [Sessions -> ChildType]
  /\ \A s \in Sessions : Len(child[s].body) <= BodyCap
  /\ sem     \in [Names -> {0, 1}]
  /\ mailbox \in Seq([by : Sessions, no : Nat, from : Names, to : Names, body : Seq(Line)])

(* A message is only ever taken with a sender and a recipient, although    *)
(* HELO inside a message takes the state back behind both, refusals clear  *)
(* them and a bad address overwrites them: what guards them is in_data.    *)
Storing(s) == child[s].at = "sem_wait" \/ InSection(s)
EnvelopeComplete ==
  \A s \in Sessions :
    child[s].in_data \/ Storing(s) => child[s].sender # Nothing /\ child[s].recipient # Nothing

(* Between sem_wait and sem_post a child has the mailbox of its recipient  *)
(* to itself, and the semaphore is back at 1 when nobody is in between and *)
(* nobody was killed there.                                                *)
Killed(s, r) == child[s].at = "killed" /\ child[s].recipient = r
Holders(r)   == {s \in Sessions :
                   (InSection(s) /\ child[s].recipient = r) \/ Killed(s, r)}
OneWriter == \A r \in Names : Cardinality(Holders(r)) + sem[r] = 1

(* What is stored for a session are the messages its user ended with a dot,*)
(* in their order and none twice, line by line as far as the buffer holds  *)
(* them, however reads put the lines together and whatever was refused in  *)
(* between; and when the prompt is back, none is missing but those that    *)
(* were answered with 500 - as long as no line of a message is blank or    *)
(* begins like a command.                                                  *)
Clean(s) ==
  \A m \in Range(sent[s]) \cup {typed[s]} : \A l \in Range(m) :
    l.k \notin Envelope \cup {"DATA", ""}
Mine(s) == {k \in DOMAIN mailbox : mailbox[k].by = s}
Accounted(s) ==
  \A n \in DOMAIN sent[s] : n \in refused[s] \/ \E k \in Mine(s) : mailbox[k].no = n
BodyExact ==
  \A s \in Sessions : Clean(s) =>
    /\ \A k \in Mine(s) :
         /\ mailbox[k].no \in (DOMAIN sent[s]) \ refused[s]
         /\ mailbox[k].body = FirstOf(BodyCap, sent[s][mailbox[k].no])
    /\ \A j, k \in Mine(s) : j < k => mailbox[j].no < mailbox[k].no
    /\ client[s].at = "prompt" => Accounted(s)

(* A prompt shows that nothing is left to come: every response the client  *)
(* takes belongs to its last command, under the same condition.            *)
InStep == \A s \in Sessions : Clean(s) /\ client[s].at = "prompt" => s2c[s] = <<>>

(* A user who ended a message with a dot or typed a command gets an answer *)
(* and the prompt, or loses the connection.  LIST with a mailbox is such a *)
(* command, since its answer always ends with dashes (mysmtp_client.c,     *)
(* line 90).  Only a child that is killed between sem_wait and sem_post    *)
(* keeps others waiting, those who write to the same mailbox.  It takes    *)
(* Clean sessions: a blank line in a message is answered at once, and the  *)
(* client is an answer behind from then on, at last at a DATA.             *)
Lists(s) == c2s[s] # <<>> /\ Last(c2s[s]).k = "LIST" /\ Last(c2s[s]).a # Nothing
Answered == \A s \in Sessions :
  (Clean(s) /\ client[s].at = "await" /\ (client[s].multi => Lists(s)))
    ~> \/ client[s].at # "await"
       \/ \E d \in Sessions : Killed(d, child[s].recipient)

-----------------------------------------------------------------------------
(* Claims of comments and documents that the code does not keep.  Where no *)
(* run shows it, README.md names the instance and the counterexample.      *)

(* LIST and GET_MAIL give the prompt back.                                 *)
Retrieved == \A s \in Sessions : (client[s].multi) ~> (client[s].at # "await")

(* A mail is from and to addresses that the server has accepted.           *)
WellAddressed == \A k \in DOMAIN mailbox : {mailbox[k].from, mailbox[k].to} \subseteq Addresses

(* LIST lists as many mails as there are.                                  *)
ListsAll ==
  [][\A s \in Sessions :
       List(s) /\ arg(s) # Nothing => Last(s2c'[s]).n = Len(MailsTo(arg(s)))]_vars

(* GET_MAIL retrieves a mail when there is one.                            *)
FindsMail ==
  [][\A s \in Sessions :
       GetMail(s) /\ MailsTo(arg(s)) # <<>> => Last(s2c'[s]).code = "mail"]_vars
=============================================================================
