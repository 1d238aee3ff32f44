-------------------------- MODULE TaskQueue_proofs --------------------------
(* The task queue.  When the work of one child, or of the SIGCHLD handler, *)
(* is finished before the next begins, the table implements the task board,*)
(* the file follows the table, and no task is assigned to nobody.  At the  *)
(* end what is left of this when their accesses interleave.                *)
EXTENDS TaskQueue, WellFoundedInduction, TLAPS

Results == Tasks \cup {NoTask}
Lines   == [{} -> Results] \cup [Tasks -> Results]
ChildPlaces ==
  {"none", "loop", "timeout", "claim", "own", "complete", "record", "save", "write",
   "all", "bye", "release", "free", "forget", "cleanup", "exit", "zombie", "reaped"}
Thens == {"none", "loop", "timeout", "release", "cleanup"}
ChildType ==
  [at : ChildPlaces, t : Results, val : Results, tries : Nat, then : Thens, copy : Lines]
HandlerType == [at : {"idle", "scan", "free", "forget"}, w : Workers \cup {NoPid}, t : Results]
ClientType ==
  [at : {"start", "ask", "listen", "wait", "work", "ack", "closed"}, t : Results]
MsgType ==
  [m : {"GET_TASK", "RESULT", "exit", "Task", "No tasks", "Error", "Result"}, t : Results]

Types ==
  /\ loaded     \in Lines
  /\ assigned   \in [Loaded -> 0 .. 2]
  /\ client_pid \in [Loaded -> Workers \cup {NoPid}]
  /\ result     \in [Loaded -> Results]
  /\ file       \in Lines
  /\ child      \in [Workers -> ChildType]
  /\ handler    \in HandlerType
  /\ client     \in [Workers -> ClientType]
  /\ req        \in [Workers -> Seq(MsgType)]
  /\ resp       \in [Workers -> Seq(MsgType)]
  /\ given      \in [Workers -> SUBSET Tasks]
  /\ kept       \in SUBSET Tasks

(* One child, or the handler, is at work.                                  *)
Idle(w)    == child[w].at \in Waiting
OneAtATime ==
  \A w \in Workers : ~Idle(w) => handler.at = "idle" /\ \A v \in Workers \ {w} : Idle(v)

(* The table: an open task has an owner only for the moment between the    *)
(* two writes of a release, and nobody owns two.                           *)
Forgotten(t) ==
  \/ \E w \in Workers : child[w].at = "forget" /\ child[w].t = t
  \/ handler.at = "forget" /\ handler.t = t
OpenHasNoOwner == \A t \in Loaded : assigned[t] = 0 => client_pid[t] = NoPid \/ Forgotten(t)
OneTaskEach    == \A w \in Workers : \A s, t \in Owned(w) : s = t
Handed(w) ==
  /\ given[w] \subseteq Owned(w)
  /\ child[w].at \in {"none", "zombie", "reaped"} => given[w] = {}

(* What a child knows about the task it works on.                          *)
IsOpen(t)  == t \in Loaded /\ assigned[t] = 0
Working(w) ==
  LET t  == child[w].t
      at == child[w].at
  IN  /\ at \in {"claim", "own", "record", "save", "write", "all", "timeout", "forget",
                 "bye", "cleanup", "exit"} => Owned(w) = {}
      /\ at = "claim"               => IsOpen(t) /\ client_pid[t] = NoPid
      /\ at = "own"                 => t \in Loaded /\ assigned[t] = 1 /\ client_pid[t] = NoPid
      /\ at \in {"complete", "free"} => t \in Owned(w)
      /\ at = "record"              => t \in Loaded /\ assigned[t] = 2
      /\ at \in {"complete", "record"} => child[w].val = t
      /\ at = "forget"              => IsOpen(t)
      /\ at \in {"write", "exit"}    => file = NoLines /\ child[w].copy = Snapshot
Handling ==
  /\ handler.at # "idle"   => handler.w \in Workers /\ child[handler.w].at = "reaped"
  /\ handler.at = "free"   => handler.t \in Owned(handler.w)
  /\ handler.at = "forget" => IsOpen(handler.t)

(* The refused requests in a row, and where the third one leads.           *)
Tries(w) ==
  LET c == child[w] IN
  /\ \/ c.tries < MAX_TASK_REQUESTS
     \/ c.at \in {"free", "forget"} /\ c.then = "cleanup"
     \/ c.at \in {"cleanup", "exit", "zombie", "reaped"}
  /\ c.at \in {"free", "forget"} => c.then \in {"timeout", "release", "cleanup"}
  /\ c.at = "bye" => c.then \in {"loop", "release"}

(* The dialogue with a client1: one request at a time, and a RESULT is for *)
(* the task that the child has given it.                                   *)
GET    == Word("GET_TASK")
Silence(w) == req[w] = <<>> /\ resp[w] = <<>>
Settled(w) ==                       \* after an answer to a RESULT
  \/ client[w].at = "ack" /\ req[w] = <<>> /\ resp[w] \in {<<Word("Result")>>, <<Word("Error")>>}
  \/ client[w].at = "ask" /\ Silence(w)
  \/ client[w].at = "wait" /\ req[w] = <<GET>> /\ resp[w] = <<>>
Has(w, t) ==                        \* the client has, or is about to have, task t
  \/ client[w].at = "wait" /\ req[w] = <<>> /\ resp[w] = <<Msg("Task", t)>>
  \/ client[w].at = "work" /\ client[w].t = t /\ Silence(w)
  \/ client[w].at = "ack" /\ req[w] = <<Msg("RESULT", t)>> /\ resp[w] = <<>>
Over(w) ==                          \* the client has been told that there is no task
  \/ client[w].at = "wait" /\ req[w] = <<>> /\ resp[w] = <<Word("No tasks")>>
  \/ client[w].at = "closed" /\ req[w] \in {<<>>, <<Word("exit")>>}
Dialogue(w) ==
  LET at == child[w].at IN
  /\ at = "loop" => \/ (Settled(w) \/ Over(w)) /\ Owned(w) = {}
                    \/ \E t \in Owned(w) : Has(w, t)
  /\ at = "all"  => Settled(w)
  /\ at \in {"claim", "own"} => client[w].at = "wait" /\ Silence(w)
  /\ at \in {"complete", "record", "save", "write"} => client[w].at = "ack" /\ Silence(w)
  /\ at # "timeout" /\ (at \in {"free", "forget"} => child[w].then = "release")
  /\ at = "bye" => child[w].then = "release"
  /\ child[w].tries = 0
(* The others never send a result.                                         *)
NoResult(w) == req[w] \in Seq({GET}) /\ client[w].at \notin {"work", "ack"}

PerWorker(w) ==
  /\ child[w].at = "none" => client[w].at = "start" /\ child[w].tries = 0
                             /\ Owned(w) = {} /\ Silence(w)
  /\ client[w].at = "start" => child[w].at = "none"
  /\ Handed(w) /\ Working(w) /\ Tries(w)
  /\ IF w \in Normal THEN Dialogue(w) ELSE NoResult(w)

(* The file is the table's, except while a child writes both.              *)
Writing(w) == child[w].at \in {"record", "save", "write", "exit"}
FileRight  == file = Snapshot \/ \E w \in Workers : Writing(w)

(* Who completed a task recorded its result, and what was in the file will *)
(* be in the next.                                                         *)
Recorded(t) == \E w \in Workers : child[w].at = "record" /\ child[w].t = t
DoneHasResult ==
  \A t \in Loaded : assigned[t] = 2 => result[t] = t \/ Recorded(t)
KeptRight ==
  /\ \A t \in kept \cap Loaded : assigned[t] = 2 \/ loaded[t] # NoTask
  /\ Loaded = {} => file = NoLines

Inv ==
  /\ Types /\ OneAtATime /\ OpenHasNoOwner /\ OneTaskEach /\ Handling
  /\ \A w \in Workers : PerWorker(w)
  /\ FileRight /\ ResultsRight /\ DoneHasResult /\ KeptRight /\ ResultsKept
-----------------------------------------------------------------------------
(* The first of some tasks is one of them.                                 *)
Less == {p \in Nat \X Nat : p[1] < p[2]}

LEMMA FirstIsOne ==
  ASSUME NEW S \in SUBSET Tasks, S # {}
  PROVE  First(S) \in S
<1>1. IsWellFoundedOn(Less, Nat)
  BY NatLessThanWellFounded DEF OpToRel, Less
<1>2. S \subseteq Nat
  BY TaskQueueAssumption DEF Tasks
<1>3. PICK t \in S : \A s \in S : ~(<<s, t>> \in Less)
  BY <1>1, <1>2, WFMin
<1>4. \A s \in S : t <= s
  <2>. SUFFICES ASSUME NEW s \in S PROVE t <= s
    OBVIOUS
  <2>1. <<s, t>> \in Nat \X Nat /\ ~(s < t)
    BY <1>2, <1>3 DEF Less
  <2>. QED BY <1>2, <2>1
<1>. QED BY <1>4 DEF First

LEMMA NoTaskIsNone == NoTask \notin Tasks /\ NoTask \in Results /\ Tasks \subseteq Results
BY TaskQueueAssumption DEF Tasks, Results, NoTask

LEMMA NoLinesType == NoLines \in [{} -> Results] /\ DOMAIN NoLines = {}
BY DEF NoLines

LEMMA LinesDomain ==
  ASSUME NEW f \in Lines
  PROVE  /\ DOMAIN f \in {Tasks, {}}
         /\ f \in [DOMAIN f -> Results]
         /\ DOMAIN f = {} => f = NoLines
<1>1. DOMAIN f = {} => f = NoLines
  BY NoLinesType DEF Lines
<1>. QED BY <1>1 DEF Lines

LEMMA LoadedTasks == Types => Loaded \subseteq Tasks
BY LinesDomain DEF Types, Loaded

LEMMA SnapshotType == Types => Snapshot \in Lines
<1>. SUFFICES ASSUME Types PROVE Snapshot \in Lines
  OBVIOUS
<1>1. Loaded \in {Tasks, {}} /\ loaded \in [Loaded -> Results]
  BY LinesDomain DEF Types, Loaded
<1>2. Snapshot \in [Loaded -> Results]
  BY <1>1 DEF Snapshot, Types
<1>. QED BY <1>1, <1>2 DEF Lines

LEMMA WordType ==
  ASSUME NEW m \in {"GET_TASK", "RESULT", "exit", "Task", "No tasks", "Error", "Result"}
  PROVE  Word(m) \in MsgType /\ Word(m).m = m
BY NoTaskIsNone DEF Word, Msg, MsgType

LEMMA AppendOne ==
  ASSUME NEW m, NEW s, s = <<>>
  PROVE  Append(s, m) = <<m>>
BY SMT

LEMMA HeadOne == ASSUME NEW m PROVE Head(<<m>>) = m
BY SMT

LEMMA InitInv == Init => Inv
<1>. SUFFICES ASSUME Init PROVE Inv
  OBVIOUS
<1>1. Empty \in [Tasks -> Results] /\ Loaded = Tasks /\ Empty \in Lines
  BY NoTaskIsNone DEF Init, Empty, Loaded, Lines
<1>2. \A w \in Workers : Owned(w) = {}
  BY <1>1 DEF Owned, Init
<1>3. \A w \in Workers :
        /\ child[w] \in ChildType /\ child[w].at = "none" /\ child[w].tries = 0
        /\ child[w].then = "none"
  BY <1>1, NoTaskIsNone DEF Init, ChildType, ChildPlaces, Thens
<1>4. Types
  BY <1>1, <1>3, NoTaskIsNone DEF Types, Init, HandlerType, ClientType
<1>5. OneAtATime /\ OpenHasNoOwner /\ OneTaskEach /\ Handling
  BY <1>1, <1>2, <1>3 DEF Init, OneAtATime, Idle, Waiting, OpenHasNoOwner, OneTaskEach, Handling
<1>6. ASSUME NEW w \in Workers PROVE PerWorker(w)
  <2>1. Silence(w) /\ client[w].at = "start" /\ given[w] = {} /\ req[w] = <<>>
    BY DEF Init, Silence
  <2>2. Handed(w) /\ Working(w)
    BY <1>2, <1>3, <2>1 DEF Handed, Working
  <2>3. Tries(w)
    BY <1>3, TaskQueueAssumption DEF Tries
  <2>4. Dialogue(w) /\ NoResult(w)
    BY <1>3, <2>1 DEF Dialogue, NoResult
  <2>. QED BY <1>2, <1>3, <2>1, <2>2, <2>3, <2>4 DEF PerWorker
<1>7. Snapshot = file
  BY <1>1 DEF Init, Snapshot, Empty
<1>8. FileRight /\ ResultsRight /\ DoneHasResult /\ KeptRight /\ ResultsKept
  BY <1>1, <1>7, NoLinesType, LinesDomain
  DEF Init, FileRight, ResultsRight, DoneHasResult, KeptRight, ResultsKept, Empty, Loaded
<1>. QED BY <1>4, <1>5, <1>6, <1>8 DEF Inv
-----------------------------------------------------------------------------
(* A step of worker w, its child or its client leaves the others alone.    *)
Elsewhere(w) ==
  \A v \in Workers \ {w} :
    /\ child'[v] = child[v] /\ client'[v] = client[v]
    /\ req'[v] = req[v] /\ resp'[v] = resp[v]
    /\ given'[v] = given[v] /\ Owned(v)' = Owned(v)

LEMMA SameWorker ==
  ASSUME NEW v \in Workers, PerWorker(v),
         child'[v] = child[v], client'[v] = client[v],
         req'[v] = req[v], resp'[v] = resp[v],
         given'[v] = given[v], Owned(v)' = Owned(v),
         Idle(v) \/ UNCHANGED <<table, disk>>
  PROVE  PerWorker(v)'
<1>1. Handed(v)'
  BY DEF PerWorker, Handed
<1>2. Working(v)'
  <2>1. CASE Idle(v)
    BY <2>1 DEF PerWorker, Working, Idle, Waiting
  <2>2. CASE UNCHANGED <<table, disk>>
    <3>1. Loaded' = Loaded /\ Snapshot' = Snapshot
      BY <2>2 DEF table, Loaded, Snapshot
    <3>. QED BY <2>2, <3>1 DEF PerWorker, Working, IsOpen, table, disk
  <2>. QED BY <2>1, <2>2
<1>3. Tries(v)'
  BY DEF PerWorker, Tries
<1>4. (Settled(v) <=> Settled(v)') /\ (Over(v) <=> Over(v)') /\ (Silence(v) <=> Silence(v)')
      /\ \A t : Has(v, t) <=> Has(v, t)'
  BY DEF Settled, Over, Silence, Has
<1>5. v \in Normal => Dialogue(v)'
  BY <1>4 DEF PerWorker, Dialogue
<1>6. v \notin Normal => NoResult(v)'
  BY DEF PerWorker, NoResult
<1>. QED BY <1>1, <1>2, <1>3, <1>4, <1>5, <1>6 DEF PerWorker

(* A step that only moves a child or its client: what is left to show is   *)
(* what the worker itself knows.                                           *)
LEMMA Control ==
  ASSUME Inv, NEW w \in Workers, UNCHANGED <<table, disk, handler>>,
         NEW c \in ChildType, child' = [child EXCEPT ![w] = c],
         c = child[w] \/ child[w].at \notin {"forget", "record", "save", "write", "exit", "reaped"},
         \/ c.at \in Waiting \/ ~Idle(w)
         \/ handler.at = "idle" /\ \A v \in Workers \ {w} : Idle(v),
         Elsewhere(w),
         client' \in [Workers -> ClientType],
         req' \in [Workers -> Seq(MsgType)], resp' \in [Workers -> Seq(MsgType)],
         given' \in [Workers -> SUBSET Tasks],
         PerWorker(w)'
  PROVE  Inv'
<1>1. /\ child' \in [Workers -> ChildType] /\ child'[w] = c
      /\ \A v \in Workers \ {w} : child'[v] = child[v]
  BY DEF Inv, Types
<1>2. /\ Loaded' = Loaded /\ Snapshot' = Snapshot
      /\ \A v \in Workers : Owned(v)' = Owned(v)
  BY DEF table, Loaded, Snapshot, Owned
<1>3. Types'
  BY <1>1, <1>2 DEF Inv, Types, table, disk
<1>4. OneAtATime'
  BY <1>1 DEF Inv, OneAtATime, Idle
<1>5. OpenHasNoOwner'
  <2>1. \A t \in Loaded : Forgotten(t) => Forgotten(t)'
    BY <1>1 DEF Forgotten
  <2>. QED BY <1>2, <2>1 DEF Inv, OpenHasNoOwner, table
<1>6. OneTaskEach' /\ Handling'
  BY <1>1, <1>2 DEF Inv, OneTaskEach, Handling, IsOpen, table
<1>7. \A v \in Workers : PerWorker(v)'
  BY SameWorker DEF Inv, Elsewhere
<1>8. FileRight'
  BY <1>1, <1>2 DEF Inv, FileRight, Writing, disk
<1>9. DoneHasResult'
  <2>1. \A t \in Loaded : Recorded(t) => Recorded(t)'
    BY <1>1 DEF Recorded
  <2>. QED BY <1>2, <2>1 DEF Inv, DoneHasResult, table
<1>10. ResultsRight' /\ KeptRight' /\ ResultsKept'
  BY <1>2 DEF Inv, ResultsRight, KeptRight, ResultsKept, table, disk
<1>. QED BY <1>3, <1>4, <1>5, <1>6, <1>7, <1>8, <1>9, <1>10 DEF Inv

(* What a step leaves of the dialogue, of the owned tasks and of the rest. *)
LEMMA SameTable ==
  ASSUME UNCHANGED table
  PROVE  /\ Loaded' = Loaded /\ \A v \in Workers : Owned(v)' = Owned(v)
         /\ \A t : IsOpen(t)' <=> IsOpen(t)
BY DEF table, Loaded, Owned, IsOpen

(* A step of a client: its child does not move.                            *)
LEMMA ClientOnly ==
  ASSUME Inv, NEW w \in Workers, UNCHANGED <<table, disk, handler, child, given>>,
         NEW c \in ClientType, client' = [client EXCEPT ![w] = c],
         client[w].at # "start", c.at # "start",
         req' \in [Workers -> Seq(MsgType)], resp' \in [Workers -> Seq(MsgType)],
         \A v \in Workers \ {w} : req'[v] = req[v] /\ resp'[v] = resp[v],
         IF w \in Normal THEN Dialogue(w)' ELSE NoResult(w)'
  PROVE  Inv'
<1>1. /\ client' \in [Workers -> ClientType] /\ client'[w] = c
      /\ \A v \in Workers \ {w} : client'[v] = client[v]
  BY DEF Inv, Types
<1>2. child[w] \in ChildType /\ child' = [child EXCEPT ![w] = child[w]]
      /\ given \in [Workers -> SUBSET Tasks]
  BY DEF Inv, Types
<1>3. Elsewhere(w)
  BY <1>1, SameTable DEF Elsewhere
<1>4. PerWorker(w)
  BY DEF Inv
<1>5. PerWorker(w)'
  <2>1. Handed(w)' /\ Tries(w)'
    BY <1>4, SameTable DEF PerWorker, Handed, Tries
  <2>2. Working(w)'
    <3>1. Snapshot' = Snapshot
      BY DEF Snapshot, table, Loaded
    <3>. QED BY <1>4, <3>1, SameTable DEF PerWorker, Working, IsOpen, table, disk
  <2>3. child[w].at # "none" /\ client'[w].at # "start"
    BY <1>1, <1>4 DEF PerWorker
  <2>. QED BY <2>1, <2>2, <2>3 DEF PerWorker
<1>6. child[w].at \in Waiting \/ ~Idle(w)
  BY DEF Idle
<1>. QED BY <1>1, <1>2, <1>3, <1>5, <1>6, Control

LEMMA SendTypes ==
  ASSUME Inv, NEW w \in Workers, NEW m \in MsgType, NEW at, Send(w, m, at)
  PROVE  /\ UNCHANGED <<table, disk, handler, child, given>>
         /\ client' = [client EXCEPT ![w] = [client[w] EXCEPT !.at = at]]
         /\ req' \in [Workers -> Seq(MsgType)] /\ req'[w] = Append(req[w], m)
         /\ resp' = resp /\ resp \in [Workers -> Seq(MsgType)]
         /\ \A v \in Workers \ {w} : req'[v] = req[v] /\ resp'[v] = resp[v]
         /\ client[w] \in ClientType
BY DEF Send, Inv, Types

LEMMA AskStep == ASSUME Inv, NEW w \in Workers, Ask(w) PROVE Inv'
<1>. DEFINE at == IF w \in Silent THEN "listen" ELSE "wait"
            c  == [client[w] EXCEPT !.at = at]
<1>1. GET \in MsgType
  BY WordType DEF GET
<1>2. client[w].at = "ask" /\ Send(w, GET, at)
  BY DEF Ask, GET
<1>3. /\ UNCHANGED <<table, disk, handler, child, given>>
      /\ client' = [client EXCEPT ![w] = c]
      /\ req' \in [Workers -> Seq(MsgType)] /\ req'[w] = Append(req[w], GET)
      /\ resp' = resp /\ resp' \in [Workers -> Seq(MsgType)]
      /\ \A v \in Workers \ {w} : req'[v] = req[v] /\ resp'[v] = resp[v]
      /\ client[w] \in ClientType
  BY <1>1, <1>2, SendTypes
<1>4. c \in ClientType /\ c.at = at /\ c.at \in {"listen", "wait"}
  BY <1>3 DEF ClientType
<1>5. client'[w] = c
  BY <1>3 DEF Inv, Types
<1>6. CASE w \in Normal
  <2>0. w \notin Silent
    BY <1>6, TaskQueueAssumption
  <2>1. c.at = "wait"
    BY <1>4, <2>0
  <2>2. Dialogue(w)
    BY <1>6 DEF Inv, PerWorker
  <2>3. req[w] = <<>> /\ resp[w] = <<>> => Settled(w)'
    <3>. SUFFICES ASSUME req[w] = <<>>, resp[w] = <<>> PROVE Settled(w)'
      OBVIOUS
    <3>1. Append(req[w], GET) = <<GET>>
      BY AppendOne
    <3>2. req'[w] = <<GET>> /\ resp'[w] = <<>> /\ client'[w].at = "wait"
      BY <1>3, <1>5, <2>1, <3>1
    <3>. QED BY <3>2 DEF Settled, GET
  <2>4. Dialogue(w)'
    BY <1>2, <1>3, <2>2, <2>3, SameTable DEF Dialogue, Settled, Has, Over, Silence
  <2>. QED BY <1>2, <1>3, <1>4, <1>6, <2>4, ClientOnly
<1>7. CASE w \notin Normal
  <2>1. req[w] \in Seq({GET})
    BY <1>7 DEF Inv, PerWorker, NoResult
  <2>2. Append(req[w], GET) \in Seq({GET})
    BY <2>1
  <2>3. NoResult(w)'
    BY <1>3, <1>4, <1>5, <2>2 DEF NoResult
  <2>. QED BY <1>2, <1>3, <1>4, <1>7, <2>3, ClientOnly
<1>. QED BY <1>6, <1>7

LEMMA AnswerStep == ASSUME Inv, NEW w \in Workers, Answer(w) PROVE Inv'
<1>. DEFINE t == client[w].t
            m == Msg("RESULT", t)
            c == [client[w] EXCEPT !.at = "ack"]
<1>1. client[w] \in ClientType /\ client[w].at = "work" /\ Send(w, m, "ack")
  BY DEF Answer, Inv, Types
<1>2. m \in MsgType
  BY <1>1 DEF Msg, MsgType, ClientType
<1>3. /\ UNCHANGED <<table, disk, handler, child, given>>
      /\ client' = [client EXCEPT ![w] = c]
      /\ req' \in [Workers -> Seq(MsgType)] /\ req'[w] = Append(req[w], m)
      /\ resp' = resp /\ resp' \in [Workers -> Seq(MsgType)]
      /\ \A v \in Workers \ {w} : req'[v] = req[v] /\ resp'[v] = resp[v]
  <2>. HIDE DEF m
  <2>. QED BY <1>1, <1>2, SendTypes
<1>4. c \in ClientType /\ c.at = "ack"
  BY <1>1 DEF ClientType
<1>5. client'[w] = c
  BY <1>3 DEF Inv, Types
<1>6. w \in Normal
  BY <1>1 DEF Inv, PerWorker, NoResult
<1>7. Dialogue(w)
  BY <1>6 DEF Inv, PerWorker
<1>8. Dialogue(w)'
  <2>1. \A s : Has(w, s) => Has(w, s)'
    <3>. SUFFICES ASSUME NEW s, Has(w, s) PROVE Has(w, s)'
      OBVIOUS
    <3>1. t = s /\ req[w] = <<>> /\ resp[w] = <<>>
      BY <1>1 DEF Has, Silence
    <3>2. Append(req[w], m) = <<m>>
      BY <3>1, AppendOne
    <3>. QED BY <1>3, <1>4, <1>5, <3>1, <3>2 DEF Has
  <2>2. ~Settled(w) /\ ~Over(w)
    BY <1>1 DEF Settled, Over
  <2>3. child[w].at = "loop" => \E s \in Owned(w) : Has(w, s)
    BY <1>7, <2>2 DEF Dialogue
  <2>4. child'[w].at = "loop" => \E s \in Owned(w)' : Has(w, s)'
    BY <1>3, <2>1, <2>3, SameTable
  <2>5. child[w].at \notin {"all", "claim", "own", "complete", "record", "save", "write"}
    BY <1>1, <1>7, <2>2 DEF Dialogue
  <2>. QED BY <1>3, <1>7, <2>4, <2>5 DEF Dialogue
<1>. QED BY <1>1, <1>3, <1>4, <1>6, <1>8, ClientOnly

LEMMA ClientReadStep == ASSUME Inv, NEW w \in Workers, ClientRead(w) PROVE Inv'
<1>. DEFINE m == Head(resp[w])
            c == AfterRead(w, m)
<1>1. /\ client[w] \in ClientType /\ resp[w] \in Seq(MsgType) /\ resp[w] # <<>>
      /\ client[w].at \in {"wait", "ack", "listen"}
  BY DEF ClientRead, Inv, Types
<1>2. m \in MsgType
  BY <1>1
<1>3. /\ UNCHANGED <<table, disk, handler, child, given>>
      /\ client' = [client EXCEPT ![w] = c]
      /\ resp' \in [Workers -> Seq(MsgType)] /\ resp'[w] = <<>>
      /\ \A v \in Workers \ {w} : resp'[v] = resp[v]
  BY DEF ClientRead, Inv, Types
<1>4. /\ c \in ClientType /\ c.at # "start"
      /\ w \notin Normal => c.at \notin {"work", "ack"} \/ c = client[w]
  <2>1. m.t \in Results /\ NoTask \in Results
    BY <1>2, NoTaskIsNone DEF MsgType
  <2>2. \/ c = [at |-> "closed", t |-> NoTask]
        \/ c = client[w]
        \/ c = [at |-> "ask", t |-> NoTask]
        \/ w \in Normal /\ c = [at |-> "work", t |-> m.t]
    <3>1. CASE Leaves(w, m.m)
      <4>1. c = [at |-> "closed", t |-> NoTask]
        BY <3>1 DEF AfterRead
      <4>. HIDE DEF c, m
      <4>. QED BY <4>1
    <3>2. CASE ~Leaves(w, m.m) /\ w \in Silent
      <4>1. w \notin Normal
        BY <3>2, TaskQueueAssumption
      <4>2. c = client[w]
        BY <3>2, <4>1 DEF AfterRead
      <4>. HIDE DEF c, m
      <4>. QED BY <4>2
    <3>3. CASE ~Leaves(w, m.m) /\ w \notin Silent
      <4>. DEFINE works == w \in Normal /\ client[w].at = "wait" /\ m.m = "Task"
      <4>1. CASE works
        <5>1. c = [at |-> "work", t |-> m.t]
          BY <3>3, <4>1 DEF AfterRead
        <5>. HIDE DEF c, m
        <5>. QED BY <4>1, <5>1
      <4>2. CASE ~works
        <5>1. c = [at |-> "ask", t |-> NoTask]
          BY <3>3, <4>2 DEF AfterRead
        <5>. HIDE DEF c, m
        <5>. QED BY <5>1
      <4>. QED BY <4>1, <4>2
    <3>. QED BY <3>1, <3>2, <3>3
  <2>. HIDE DEF c, m
  <2>. QED BY <1>1, <2>1, <2>2 DEF ClientType
<1>5. /\ req' \in [Workers -> Seq(MsgType)]
      /\ req'[w] = IF Leaves(w, m.m) /\ w \in Normal THEN Append(req[w], Word("exit"))
                   ELSE req[w]
      /\ \A v \in Workers \ {w} : req'[v] = req[v]
  <2>. DEFINE e == Append(req[w], Word("exit"))
              b == Leaves(w, m.m) /\ w \in Normal
  <2>1. req' = IF b THEN [req EXCEPT ![w] = e] ELSE req
    BY DEF ClientRead
  <2>2. req \in [Workers -> Seq(MsgType)] /\ Word("exit") \in MsgType
    BY WordType DEF Inv, Types
  <2>3. e \in Seq(MsgType)
    BY <2>2
  <2>. HIDE DEF b, e
  <2>4. /\ req' \in [Workers -> Seq(MsgType)]
        /\ req'[w] = IF b THEN e ELSE req[w]
        /\ \A v \in Workers \ {w} : req'[v] = req[v]
    BY <2>1, <2>2, <2>3
  <2>. QED BY <2>4 DEF b, e
<1>6. client'[w] = c
  BY <1>3 DEF Inv, Types
<1>7. CASE w \in Normal
  <2>1. Dialogue(w) /\ w \notin Silent
    BY <1>7, TaskQueueAssumption DEF Inv, PerWorker
  <2>2. ASSUME Settled(w) PROVE Settled(w)'
    <3>1. client[w].at = "ack" /\ req[w] = <<>> /\ m.m \in {"Result", "Error"}
      <4>1. /\ client[w].at = "ack" /\ req[w] = <<>>
            /\ m = Word("Result") \/ m = Word("Error")
        BY <1>1, <2>2 DEF Settled, Silence
      <4>. QED BY <4>1 DEF Word, Msg
    <3>2. ~Leaves(w, m.m) /\ c = [at |-> "ask", t |-> NoTask]
      BY <2>1, <3>1 DEF Leaves, AfterRead
    <3>. HIDE DEF c, m
    <3>. QED BY <1>3, <1>5, <1>6, <3>1, <3>2 DEF Settled, Silence
  <2>3. ASSUME Over(w) PROVE Over(w)'
    <3>1. client[w].at = "wait" /\ req[w] = <<>> /\ m.m = "No tasks"
      <4>1. client[w].at = "wait" /\ req[w] = <<>> /\ resp[w] = <<Word("No tasks")>>
        BY <1>1, <2>3 DEF Over
      <4>2. m = Word("No tasks")
        BY <4>1, HeadOne
      <4>. HIDE DEF m
      <4>. QED BY <4>1, <4>2 DEF Word, Msg
    <3>2. Leaves(w, m.m)
      BY <3>1 DEF Leaves
    <3>4. c = [at |-> "closed", t |-> NoTask]
      BY <3>2 DEF AfterRead
    <3>3. req'[w] = <<Word("exit")>>
      BY <1>5, <1>7, <3>1, <3>2, AppendOne
    <3>. HIDE DEF c, m
    <3>. QED BY <1>6, <3>3, <3>4 DEF Over
  <2>4. ASSUME NEW t \in Owned(w), Has(w, t) PROVE Has(w, t)'
    <3>1. client[w].at = "wait" /\ req[w] = <<>> /\ m = Msg("Task", t)
      BY <1>1, <2>4 DEF Has, Silence
    <3>2. m.m = "Task" /\ m.t = t
      BY <3>1 DEF Msg
    <3>3. ~Leaves(w, m.m) /\ c = [at |-> "work", t |-> t]
      BY <1>7, <2>1, <3>1, <3>2 DEF Leaves, AfterRead
    <3>. HIDE DEF c, m
    <3>. QED BY <1>3, <1>5, <1>6, <3>1, <3>3 DEF Has, Silence
  <2>5. child[w].at \notin {"claim", "own", "complete", "record", "save", "write"}
    BY <1>1, <2>1 DEF Dialogue, Silence
  <2>6. Dialogue(w)'
    <3>1. child[w].at = "loop" => \/ (Settled(w)' \/ Over(w)') /\ Owned(w)' = {}
                                  \/ \E t \in Owned(w)' : Has(w, t)'
      BY <1>3, <2>1, <2>2, <2>3, <2>4, SameTable DEF Dialogue
    <3>2. child[w].at = "all" => Settled(w)'
      BY <2>1, <2>2 DEF Dialogue
    <3>. QED BY <1>3, <2>1, <2>5, <3>1, <3>2 DEF Dialogue
  <2>. HIDE DEF c, m
  <2>. QED BY <1>1, <1>3, <1>4, <1>5, <1>7, <2>6, ClientOnly
<1>8. CASE w \notin Normal
  <2>1. NoResult(w)
    BY <1>8 DEF Inv, PerWorker
  <2>2. NoResult(w)'
    <3>. HIDE DEF c
    <3>. QED BY <1>4, <1>5, <1>6, <1>8, <2>1 DEF NoResult
  <2>. HIDE DEF c, m
  <2>. QED BY <1>1, <1>3, <1>4, <1>5, <1>8, <2>2, ClientOnly
<1>. QED BY <1>7, <1>8

LEMMA ClientEOFStep == ASSUME Inv, NEW w \in Workers, ClientEOF(w) PROVE Inv'
<1>. DEFINE c == [at |-> "closed", t |-> NoTask]
<1>1. /\ UNCHANGED <<table, disk, handler, child, given, req, resp>>
      /\ client' = [client EXCEPT ![w] = c]
      /\ client[w].at # "start" /\ child[w].at \in {"zombie", "reaped"}
  BY DEF ClientEOF, conns, Exited
<1>2. c \in ClientType /\ c.at = "closed"
  BY NoTaskIsNone DEF ClientType
<1>. HIDE DEF c
<1>3. client'[w] = c
  BY <1>1 DEF Inv, Types
<1>4. w \in Normal => Dialogue(w)'
  BY <1>1 DEF Inv, PerWorker, Dialogue
<1>5. w \notin Normal => NoResult(w)'
  BY <1>1, <1>2, <1>3 DEF Inv, PerWorker, NoResult
<1>6. req' \in [Workers -> Seq(MsgType)] /\ resp' \in [Workers -> Seq(MsgType)]
  BY <1>1 DEF Inv, Types
<1>. QED BY <1>1, <1>2, <1>4, <1>5, <1>6, ClientOnly

LEMMA ConnectStep == ASSUME Inv, NEW w \in Workers, Connect(w) PROVE Inv'
<1>1. PICK at \in {"ask"} \cup (IF w \in Silent THEN {"listen"} ELSE {}) :
        client' = [client EXCEPT ![w].at = at]
  BY DEF Connect
<1>. DEFINE c == [child[w] EXCEPT !.at = "loop"]
            d == [client[w] EXCEPT !.at = at]
<1>2. /\ UNCHANGED <<table, disk, handler, given, req, resp>>
      /\ child' = [child EXCEPT ![w] = c] /\ client[w].at = "start"
      /\ client' = [client EXCEPT ![w] = d]
  BY <1>1 DEF Connect, conns
<1>3. child[w] \in ChildType /\ client[w] \in ClientType /\ PerWorker(w)
  BY DEF Inv, Types
<1>4. child[w].at = "none" /\ child[w].tries = 0 /\ Owned(w) = {} /\ Silence(w)
  BY <1>2, <1>3 DEF PerWorker
<1>5. c \in ChildType /\ c.at = "loop" /\ c.tries = 0
  BY <1>3, <1>4 DEF ChildType, ChildPlaces
<1>6. d \in ClientType /\ d.at = at /\ at \in {"ask", "listen"}
      /\ (w \notin Silent => at = "ask")
  BY <1>1, <1>3 DEF ClientType
<1>. HIDE DEF c, d
<1>7. /\ child'[w] = c /\ client'[w] = d
      /\ client' \in [Workers -> ClientType]
      /\ req' \in [Workers -> Seq(MsgType)] /\ resp' \in [Workers -> Seq(MsgType)]
      /\ given' \in [Workers -> SUBSET Tasks]
      /\ Elsewhere(w)
  BY <1>2, <1>6, SameTable DEF Inv, Types, Elsewhere
<1>8. PerWorker(w)'
  <2>1. Handed(w)' /\ Working(w)'
    BY <1>2, <1>3, <1>4, <1>5, <1>7, SameTable DEF PerWorker, Handed, Working
  <2>2. Tries(w)'
    BY <1>5, <1>7, TaskQueueAssumption DEF Tries
  <2>3. ASSUME w \in Normal PROVE Dialogue(w)'
    <3>1. at = "ask"
      BY <1>6, <2>3, TaskQueueAssumption
    <3>2. Settled(w)'
      BY <1>2, <1>4, <1>6, <1>7, <3>1 DEF Settled, Silence
    <3>. QED BY <1>2, <1>4, <1>5, <1>7, <3>2, SameTable DEF Dialogue
  <2>4. ASSUME w \notin Normal PROVE NoResult(w)'
    BY <1>2, <1>3, <1>6, <1>7, <2>4 DEF NoResult, PerWorker
  <2>. QED BY <1>5, <1>6, <1>7, <2>1, <2>2, <2>3, <2>4 DEF PerWorker
<1>9. child[w].at \notin {"forget", "record", "save", "write", "exit", "reaped"}
      /\ c.at \in Waiting
  BY <1>4, <1>5 DEF Waiting
<1>. QED BY <1>2, <1>5, <1>7, <1>8, <1>9, Control
-----------------------------------------------------------------------------
(* A child that reads the table, or goes on to the next step.              *)
LEMMA ChildOnly ==
  ASSUME Inv, NEW w \in Workers, UNCHANGED <<table, disk, handler, client, given>>,
         NEW c \in ChildType, child' = [child EXCEPT ![w] = c],
         c.at \notin {"none", "zombie", "reaped"},
         child[w].at \notin {"none", "zombie", "reaped",
                            "forget", "record", "save", "write", "exit"},
         \/ c.at = "loop" \/ ~Idle(w)
         \/ handler.at = "idle" /\ \A v \in Workers \ {w} : Idle(v),
         req' \in [Workers -> Seq(MsgType)], resp' \in [Workers -> Seq(MsgType)],
         \A v \in Workers \ {w} : req'[v] = req[v] /\ resp'[v] = resp[v],
         Working(w)', Tries(w)', IF w \in Normal THEN Dialogue(w)' ELSE NoResult(w)'
  PROVE  Inv'
<1>1. /\ child'[w] = c /\ \A v \in Workers \ {w} : child'[v] = child[v]
      /\ client' \in [Workers -> ClientType] /\ given' \in [Workers -> SUBSET Tasks]
  BY DEF Inv, Types
<1>2. Elsewhere(w)
  BY <1>1, SameTable DEF Elsewhere
<1>3. PerWorker(w)
  BY DEF Inv
<1>4. Handed(w)' /\ client'[w].at # "start"
  BY <1>1, <1>3, SameTable DEF PerWorker, Handed
<1>5. PerWorker(w)'
  BY <1>1, <1>4 DEF PerWorker
<1>6. c.at = "loop" => c.at \in Waiting
  BY DEF Waiting
<1>. QED BY <1>1, <1>2, <1>5, <1>6, Control

LEMMA ReplyTypes ==
  ASSUME Inv, NEW w \in Workers, NEW m \in MsgType, Reply(w, m)
  PROVE  /\ resp' \in [Workers -> Seq(MsgType)] /\ resp'[w] = Append(resp[w], m)
         /\ \A v \in Workers \ {w} : resp'[v] = resp[v]
BY DEF Reply, Inv, Types

LEMMA ConnTypes ==
  Inv => req \in [Workers -> Seq(MsgType)] /\ resp \in [Workers -> Seq(MsgType)]
BY DEF Inv, Types

LEMMA OwnedTask ==
  ASSUME Inv, NEW w \in Workers, Owned(w) # {}
  PROVE  /\ First(Owned(w)) \in Owned(w) /\ First(Owned(w)) \in Tasks
         /\ \A t \in Owned(w) : t = First(Owned(w))
<1>1. Owned(w) \in SUBSET Tasks
  BY LoadedTasks DEF Inv, Owned
<1>. QED BY <1>1, FirstIsOne DEF Inv, OneTaskEach

LEMMA TurnIsOne ==
  ASSUME ~Overlap, NEW w \in Workers, Turn(w)
  PROVE  handler.at = "idle" /\ \A v \in Workers \ {w} : Idle(v)
BY DEF Turn, Idle

(* The places of a child that has nothing more to say to its client.       *)
LEMMA LeavingStep ==
  ASSUME Inv, NEW w \in Workers, UNCHANGED <<table, disk, handler, client, given>>,
         NEW c \in ChildType, child' = [child EXCEPT ![w] = c], c.at = "release",
         c.tries = child[w].tries, child[w].at \in {"loop", "bye"},
         \/ ~Idle(w)
         \/ handler.at = "idle" /\ \A v \in Workers \ {w} : Idle(v),
         req' \in [Workers -> Seq(MsgType)], resp' \in [Workers -> Seq(MsgType)],
         \A v \in Workers \ {w} : req'[v] = req[v] /\ resp'[v] = resp[v],
         w \notin Normal => req'[w] \in Seq({GET})
  PROVE  Inv'
<1>1. child'[w] = c /\ PerWorker(w)
  BY DEF Inv, Types
<1>2. Working(w)' /\ Tries(w)'
  BY <1>1 DEF Working, Tries, PerWorker
<1>3. w \in Normal => Dialogue(w)'
  BY <1>1 DEF Dialogue, PerWorker
<1>4. w \notin Normal => NoResult(w)'
  BY <1>1 DEF NoResult, PerWorker
<1>. QED BY <1>2, <1>3, <1>4, ChildOnly

LEMMA DisconnectStep ==
  ASSUME Inv, ~Overlap, NEW w \in Workers, Disconnect(w)
  PROVE  Inv'
<1>. DEFINE c == [child[w] EXCEPT !.at = "release"]
<1>1. child[w] \in ChildType /\ PerWorker(w)
  BY DEF Inv, Types
<1>2. c \in ChildType /\ c.at = "release" /\ c.tries = child[w].tries
  BY <1>1 DEF ChildType, ChildPlaces
<1>3. /\ UNCHANGED <<table, disk, handler, client, given, req, resp>>
      /\ child' = [child EXCEPT ![w] = c] /\ child[w].at = "loop" /\ Turn(w)
  BY DEF Disconnect, conns
<1>4. w \notin Normal => req[w] \in Seq({GET})
  BY <1>1 DEF PerWorker, NoResult
<1>. HIDE DEF c
<1>. QED BY <1>2, <1>3, <1>4, TurnIsOne, ConnTypes, LeavingStep

LEMMA IdleTimeoutStep ==
  ASSUME Inv, ~Overlap, NEW w \in Workers, IdleTimeout(w)
  PROVE  Inv'
<1>. DEFINE c == [child[w] EXCEPT !.at = "release"]
<1>1. child[w] \in ChildType /\ PerWorker(w)
  BY DEF Inv, Types
<1>2. c \in ChildType /\ c.at = "release" /\ c.tries = child[w].tries
  BY <1>1 DEF ChildType, ChildPlaces
<1>3. /\ UNCHANGED <<table, disk, handler, client, given, req>>
      /\ child' = [child EXCEPT ![w] = c] /\ child[w].at = "loop" /\ Turn(w)
      /\ Reply(w, Word("Error"))
  BY DEF IdleTimeout
<1>4. w \notin Normal => req[w] \in Seq({GET})
  BY <1>1 DEF PerWorker, NoResult
<1>5. Word("Error") \in MsgType
  BY WordType
<1>. HIDE DEF c
<1>. QED BY <1>2, <1>3, <1>4, <1>5, TurnIsOne, ConnTypes, ReplyTypes, LeavingStep

LEMMA TaskTimeoutStep ==
  ASSUME Inv, ~Overlap, NEW w \in Workers, TaskTimeout(w)
  PROVE  Inv'
<1>. DEFINE t == First(Owned(w))
            c == [child[w] EXCEPT !.at = "free", !.t = t, !.then = "timeout"]
<1>1. child[w] \in ChildType /\ PerWorker(w)
  BY DEF Inv, Types
<1>2. /\ UNCHANGED <<table, disk, handler, client, given, req, resp>>
      /\ child' = [child EXCEPT ![w] = c] /\ child[w].at = "loop" /\ Turn(w)
      /\ Owned(w) # {} /\ child[w].tries > 0
  BY DEF TaskTimeout, conns
<1>3. t \in Owned(w) /\ t \in Tasks
  BY <1>2, OwnedTask
<1>. HIDE DEF t
<1>4. /\ c \in ChildType /\ c.at = "free" /\ c.t = t /\ c.then = "timeout"
      /\ c.tries = child[w].tries
  BY <1>1, <1>3, NoTaskIsNone DEF ChildType, ChildPlaces, Thens
<1>. HIDE DEF c
<1>5. child'[w] = c
  BY <1>2 DEF Inv, Types
<1>6. Working(w)'
  BY <1>3, <1>4, <1>5, <1>2, SameTable DEF Working
<1>7. Tries(w)'
  BY <1>1, <1>2, <1>4, <1>5 DEF Tries, PerWorker
<1>8. w \notin Normal
  <2>1. child[w].tries # 0
    BY <1>1, <1>2 DEF ChildType
  <2>. QED BY <1>1, <2>1 DEF PerWorker, Dialogue
<1>9. NoResult(w)'
  BY <1>1, <1>2, <1>8 DEF PerWorker, NoResult
<1>. QED BY <1>2, <1>4, <1>6, <1>7, <1>8, <1>9, TurnIsOne, ConnTypes, ChildOnly

LEMMA TimedOutStep == ASSUME Inv, NEW w \in Workers, TimedOut(w) PROVE Inv'
<1>. DEFINE c == [child[w] EXCEPT !.at = "bye", !.then = "loop"]
<1>1. child[w] \in ChildType /\ PerWorker(w)
  BY DEF Inv, Types
<1>2. /\ UNCHANGED <<table, disk, handler, client, given, req>>
      /\ child' = [child EXCEPT ![w] = c] /\ child[w].at = "timeout"
      /\ Reply(w, Word("Error"))
  BY DEF TimedOut
<1>3. c \in ChildType /\ c.at = "bye" /\ c.then = "loop" /\ c.tries = child[w].tries
  BY <1>1 DEF ChildType, ChildPlaces, Thens
<1>. HIDE DEF c
<1>4. child'[w] = c
  BY <1>2 DEF Inv, Types
<1>5. Working(w)' /\ Tries(w)'
  BY <1>1, <1>2, <1>3, <1>4, SameTable DEF Working, Tries, PerWorker
<1>6. w \notin Normal
  BY <1>1, <1>2 DEF PerWorker, Dialogue
<1>7. NoResult(w)'
  BY <1>1, <1>2, <1>6 DEF PerWorker, NoResult
<1>8. Word("Error") \in MsgType /\ ~Idle(w)
  BY <1>2, WordType DEF Idle, Waiting
<1>. QED BY <1>2, <1>3, <1>5, <1>6, <1>7, <1>8, ConnTypes, ReplyTypes, ChildOnly

LEMMA CheckAllStep == ASSUME Inv, NEW w \in Workers, CheckAll(w) PROVE Inv'
<1>1. child[w] \in ChildType /\ PerWorker(w)
  BY DEF Inv, Types
<1>2. /\ UNCHANGED <<table, disk, handler, client, given, req>>
      /\ child[w].at = "all" /\ ~Idle(w)
  BY DEF CheckAll, Idle, Waiting
<1>3. Owned(w) = {} /\ (w \in Normal => Settled(w))
  BY <1>1, <1>2 DEF PerWorker, Working, Dialogue
<1>4. CASE AllDone
  <2>. DEFINE c == [child[w] EXCEPT !.at = "bye", !.then = "release"]
  <2>1. child' = [child EXCEPT ![w] = c] /\ Reply(w, Word("No tasks"))
    BY <1>4 DEF CheckAll
  <2>2. c \in ChildType /\ c.at = "bye" /\ c.then = "release" /\ c.tries = child[w].tries
    BY <1>1 DEF ChildType, ChildPlaces, Thens
  <2>. HIDE DEF c
  <2>3. child'[w] = c
    BY <2>1 DEF Inv, Types
  <2>4. Working(w)' /\ Tries(w)'
    BY <1>1, <1>2, <1>3, <2>2, <2>3, SameTable DEF Working, Tries, PerWorker
  <2>5. IF w \in Normal THEN Dialogue(w)' ELSE NoResult(w)'
    BY <1>1, <1>2, <2>2, <2>3 DEF PerWorker, NoResult, Dialogue
  <2>6. Word("No tasks") \in MsgType
    BY WordType
  <2>. QED BY <1>2, <2>1, <2>2, <2>4, <2>5, <2>6, ConnTypes, ReplyTypes, ChildOnly
<1>5. CASE ~AllDone
  <2>. DEFINE c == [child[w] EXCEPT !.at = "loop"]
  <2>1. child' = [child EXCEPT ![w] = c] /\ UNCHANGED resp
    BY <1>5 DEF CheckAll
  <2>2. c \in ChildType /\ c.at = "loop" /\ c.tries = child[w].tries
    BY <1>1 DEF ChildType, ChildPlaces
  <2>. HIDE DEF c
  <2>3. child'[w] = c
    BY <2>1 DEF Inv, Types
  <2>4. Working(w)' /\ Tries(w)'
    BY <1>1, <1>2, <1>3, <2>2, <2>3, SameTable DEF Working, Tries, PerWorker
  <2>5. w \in Normal => Dialogue(w)'
    <3>1. w \in Normal => Settled(w)'
      BY <1>2, <1>3, <2>1 DEF Settled, Silence
    <3>. QED BY <1>1, <1>2, <1>3, <2>2, <2>3, <3>1, SameTable DEF PerWorker, Dialogue
  <2>6. w \notin Normal => NoResult(w)'
    BY <1>1, <1>2 DEF PerWorker, NoResult
  <2>. QED BY <1>2, <2>1, <2>2, <2>4, <2>5, <2>6, ConnTypes, ChildOnly
<1>. QED BY <1>4, <1>5

LEMMA SayExitStep == ASSUME Inv, NEW w \in Workers, SayExit(w) PROVE Inv'
<1>. DEFINE c == [child[w] EXCEPT !.at = child[w].then]
<1>1. child[w] \in ChildType /\ PerWorker(w)
  BY DEF Inv, Types
<1>2. /\ UNCHANGED <<table, disk, handler, client, given, req>>
      /\ child' = [child EXCEPT ![w] = c] /\ child[w].at = "bye"
      /\ Reply(w, Word("exit")) /\ ~Idle(w)
  BY DEF SayExit, At, Idle, Waiting
<1>3. child[w].then \in {"loop", "release"}
  BY <1>1, <1>2 DEF PerWorker, Tries
<1>4. c \in ChildType /\ c.at = child[w].then /\ c.tries = child[w].tries
  BY <1>1, <1>3 DEF ChildType, ChildPlaces
<1>. HIDE DEF c
<1>5. child'[w] = c
  BY <1>2 DEF Inv, Types
<1>6. Word("exit") \in MsgType
  BY WordType
<1>7. w \notin Normal => req[w] \in Seq({GET})
  BY <1>1 DEF PerWorker, NoResult
<1>8. CASE c.at = "release"
  BY <1>2, <1>4, <1>6, <1>7, <1>8, ConnTypes, ReplyTypes, LeavingStep
<1>9. CASE c.at = "loop"
  <2>1. Working(w)' /\ Tries(w)'
    BY <1>1, <1>2, <1>4, <1>5, <1>9 DEF Working, Tries, PerWorker
  <2>2. w \notin Normal
    BY <1>1, <1>2, <1>4, <1>9 DEF PerWorker, Dialogue
  <2>3. NoResult(w)'
    BY <1>1, <1>2, <2>2 DEF PerWorker, NoResult
  <2>. QED BY <1>2, <1>4, <1>6, <1>9, <2>1, <2>2, <2>3, ConnTypes, ReplyTypes, ChildOnly
<1>. QED BY <1>3, <1>4, <1>8, <1>9

LEMMA ReleaseStep == ASSUME Inv, NEW w \in Workers, Release(w) PROVE Inv'
<1>1. child[w] \in ChildType /\ PerWorker(w)
  BY DEF Inv, Types
<1>2. /\ UNCHANGED <<table, disk, handler, client, given, req, resp>>
      /\ child[w].at = "release" /\ ~Idle(w)
  BY DEF Release, Idle, Waiting, conns
<1>3. w \notin Normal => NoResult(w)'
  BY <1>1, <1>2 DEF PerWorker, NoResult
<1>4. CASE Owned(w) # {}
  <2>. DEFINE t == First(Owned(w))
              c == [child[w] EXCEPT !.at = "free", !.t = t, !.then = "release"]
  <2>1. child' = [child EXCEPT ![w] = c]
    BY <1>4 DEF Release
  <2>2. t \in Owned(w) /\ t \in Tasks
    BY <1>4, OwnedTask
  <2>. HIDE DEF t
  <2>3. /\ c \in ChildType /\ c.at = "free" /\ c.t = t /\ c.then = "release"
        /\ c.tries = child[w].tries
    BY <1>1, <2>2, NoTaskIsNone DEF ChildType, ChildPlaces, Thens
  <2>. HIDE DEF c
  <2>4. child'[w] = c
    BY <2>1 DEF Inv, Types
  <2>5. Working(w)' /\ Tries(w)'
    BY <1>1, <1>2, <2>2, <2>3, <2>4, SameTable DEF Working, Tries, PerWorker
  <2>6. w \in Normal => Dialogue(w)'
    BY <1>1, <2>3, <2>4 DEF PerWorker, Dialogue
  <2>. QED BY <1>2, <1>3, <2>1, <2>3, <2>5, <2>6, ConnTypes, ChildOnly
<1>5. CASE Owned(w) = {}
  <2>. DEFINE c == [child[w] EXCEPT !.at = "cleanup"]
  <2>1. child' = [child EXCEPT ![w] = c]
    BY <1>5 DEF Release
  <2>2. c \in ChildType /\ c.at = "cleanup" /\ c.tries = child[w].tries
    BY <1>1 DEF ChildType, ChildPlaces
  <2>. HIDE DEF c
  <2>3. child'[w] = c
    BY <2>1 DEF Inv, Types
  <2>4. Working(w)' /\ Tries(w)'
    BY <1>2, <1>5, <2>2, <2>3, SameTable DEF Working, Tries
  <2>5. w \in Normal => Dialogue(w)'
    BY <1>1, <2>2, <2>3 DEF PerWorker, Dialogue
  <2>. QED BY <1>2, <1>3, <2>1, <2>2, <2>4, <2>5, ConnTypes, ChildOnly
<1>. QED BY <1>4, <1>5
-----------------------------------------------------------------------------
(* A request: the three answers to GET_TASK, a RESULT, and exit.           *)
LEMMA HandleFacts ==
  ASSUME Inv, ~Overlap, NEW w \in Workers, Handle(w)
  PROVE  /\ UNCHANGED <<table, disk, handler, client, given>>
         /\ child[w].at = "loop" /\ child[w] \in ChildType /\ PerWorker(w)
         /\ handler.at = "idle" /\ \A v \in Workers \ {w} : Idle(v)
         /\ Head(req[w]) \in MsgType
         /\ req' \in [Workers -> Seq(MsgType)] /\ req'[w] = <<>>
         /\ \A v \in Workers \ {w} : req'[v] = req[v]
         /\ w \notin Normal => Head(req[w]) = GET /\ NoResult(w)'
<1>1. /\ UNCHANGED <<table, disk, handler, client, given>>
      /\ child[w].at = "loop" /\ Turn(w) /\ req[w] # <<>>
      /\ req' = [req EXCEPT ![w] = <<>>]
  BY DEF Handle
<1>2. child[w] \in ChildType /\ PerWorker(w) /\ req \in [Workers -> Seq(MsgType)]
  BY DEF Inv, Types
<1>3. req[w] \in Seq(MsgType)
  BY <1>2
<1>4. Head(req[w]) \in MsgType
  BY <1>1, <1>3
<1>5. /\ req' \in [Workers -> Seq(MsgType)] /\ req'[w] = <<>>
      /\ \A v \in Workers \ {w} : req'[v] = req[v]
  BY <1>1, <1>2
<1>6. ASSUME w \notin Normal PROVE Head(req[w]) = GET /\ NoResult(w)'
  <2>1. NoResult(w)
    BY <1>2, <1>6 DEF PerWorker
  <2>2. req[w] \in Seq({GET})
    BY <2>1 DEF NoResult
  <2>3. Head(req[w]) \in {GET}
    BY <1>1, <2>2
  <2>4. <<>> \in Seq({GET})
    OBVIOUS
  <2>. QED BY <1>1, <1>5, <2>1, <2>3, <2>4 DEF NoResult
<1>. QED BY <1>1, <1>2, <1>4, <1>5, <1>6, TurnIsOne

(* A client1 that asks has no task, and nothing else is under way.         *)
LEMMA AskerHasNone ==
  ASSUME Inv, NEW w \in Normal, w \in Workers, child[w].at = "loop",
         req[w] # <<>>, Head(req[w]).m = "GET_TASK"
  PROVE  Owned(w) = {} /\ client[w].at = "wait" /\ resp[w] = <<>> /\ child[w].tries = 0
<1>1. Dialogue(w)
  BY DEF Inv, PerWorker
<1>2. ASSUME NEW t, Has(w, t) PROVE FALSE
  <2>1. req[w] = <<Msg("RESULT", t)>>
    BY <1>2 DEF Has, Silence
  <2>2. Head(req[w]) = Msg("RESULT", t)
    BY <2>1, HeadOne
  <2>. QED BY <2>2 DEF Msg
<1>3. ~Over(w)
  <2>. SUFFICES ASSUME Over(w) PROVE FALSE
    OBVIOUS
  <2>1. req[w] = <<Word("exit")>>
    BY DEF Over
  <2>2. Head(req[w]) = Word("exit")
    BY <2>1, HeadOne
  <2>. QED BY <2>2 DEF Word, Msg
<1>4. Settled(w) /\ Owned(w) = {}
  BY <1>1, <1>2, <1>3 DEF Dialogue
<1>. QED BY <1>1, <1>4 DEF Settled, Silence, Dialogue

(* A client1 that answers has the task that it answers for.                *)
LEMMA AnswererHasIt ==
  ASSUME Inv, NEW w \in Normal, w \in Workers, child[w].at = "loop",
         req[w] # <<>>, Head(req[w]).m = "RESULT"
  PROVE  /\ Head(req[w]).t \in Owned(w)
         /\ client[w].at = "ack" /\ resp[w] = <<>>
<1>1. Dialogue(w)
  BY DEF Inv, PerWorker
<1>2. ~Settled(w)
  <2>. SUFFICES ASSUME Settled(w) PROVE FALSE
    OBVIOUS
  <2>1. req[w] = <<GET>>
    BY DEF Settled, Silence
  <2>2. Head(req[w]) = GET
    BY <2>1, HeadOne
  <2>. QED BY <2>2 DEF GET, Word, Msg
<1>3. ~Over(w)
  <2>. SUFFICES ASSUME Over(w) PROVE FALSE
    OBVIOUS
  <2>1. req[w] = <<Word("exit")>>
    BY DEF Over
  <2>2. Head(req[w]) = Word("exit")
    BY <2>1, HeadOne
  <2>. QED BY <2>2 DEF Word, Msg
<1>4. PICK t \in Owned(w) : Has(w, t)
  BY <1>1, <1>2, <1>3 DEF Dialogue
<1>5. req[w] = <<Msg("RESULT", t)>> /\ client[w].at = "ack" /\ resp[w] = <<>>
  BY <1>4 DEF Has, Silence
<1>6. Head(req[w]) = Msg("RESULT", t)
  BY <1>5, HeadOne
<1>. QED BY <1>5, <1>6 DEF Msg

LEMMA GetTaskStep ==
  ASSUME Inv, ~Overlap, NEW w \in Workers, Handle(w),
         Head(req[w]).m = "GET_TASK", GetTask(w)
  PROVE  Inv'
<1>. DEFINE n == child[w].tries + 1
<1>1. /\ UNCHANGED <<table, disk, handler, client, given>>
      /\ child[w].at = "loop" /\ child[w] \in ChildType /\ PerWorker(w)
      /\ handler.at = "idle" /\ \A v \in Workers \ {w} : Idle(v)
      /\ req' \in [Workers -> Seq(MsgType)] /\ req'[w] = <<>>
      /\ \A v \in Workers \ {w} : req'[v] = req[v]
      /\ w \notin Normal => NoResult(w)'
  BY HandleFacts
<1>2. n \in Nat
  BY <1>1 DEF ChildType
<1>3. w \in Normal => /\ Owned(w) = {} /\ client[w].at = "wait" /\ resp[w] = <<>>
                      /\ Dialogue(w) /\ child[w].tries = 0
  BY <1>1, AskerHasNone DEF Handle, PerWorker
<1>4. /\ Word("exit") \in MsgType /\ Word("Error") \in MsgType /\ Word("No tasks") \in MsgType
  BY WordType
<1>5. CASE Owned(w) # {} /\ TooMany(n)
  <2>. DEFINE t == First(Owned(w))
              c == [child[w] EXCEPT !.at = "free", !.t = t, !.then = "cleanup", !.tries = n]
  <2>1. child' = [child EXCEPT ![w] = c] /\ Reply(w, Word("exit"))
    BY <1>5 DEF GetTask
  <2>2. t \in Owned(w) /\ t \in Tasks
    BY <1>5, OwnedTask
  <2>. HIDE DEF t, n
  <2>3. /\ c \in ChildType /\ c.at = "free" /\ c.t = t /\ c.then = "cleanup"
    BY <1>1, <1>2, <2>2, NoTaskIsNone DEF ChildType, ChildPlaces, Thens
  <2>. HIDE DEF c
  <2>4. child'[w] = c
    BY <2>1 DEF Inv, Types
  <2>5. Working(w)' /\ Tries(w)'
    BY <1>1, <2>2, <2>3, <2>4, SameTable DEF Working, Tries
  <2>. QED BY <1>1, <1>3, <1>4, <1>5, <2>1, <2>3, <2>5, ReplyTypes, ChildOnly
<1>6. CASE Owned(w) # {} /\ ~TooMany(n)
  <2>. DEFINE c == [child[w] EXCEPT !.tries = n]
  <2>1. child' = [child EXCEPT ![w] = c] /\ Reply(w, Word("Error"))
    BY <1>6 DEF GetTask
  <2>2. n < MAX_TASK_REQUESTS
    BY <1>2, <1>6, TaskQueueAssumption DEF TooMany
  <2>. HIDE DEF n
  <2>3. c \in ChildType /\ c.at = "loop" /\ c.tries = n
    BY <1>1, <1>2 DEF ChildType
  <2>. HIDE DEF c
  <2>4. child'[w] = c
    BY <2>1 DEF Inv, Types
  <2>5. Working(w)' /\ Tries(w)'
    BY <1>1, <2>2, <2>3, <2>4 DEF Working, Tries
  <2>. QED BY <1>1, <1>3, <1>4, <1>6, <2>1, <2>3, <2>5, ReplyTypes, ChildOnly
<1>7. CASE Owned(w) = {} /\ Open # {}
  <2>. DEFINE t == First(Open)
              c == [child[w] EXCEPT !.at = "claim", !.t = t, !.tries = 0]
  <2>1. child' = [child EXCEPT ![w] = c] /\ UNCHANGED resp
    BY <1>7 DEF GetTask
  <2>2. t \in Open /\ t \in Tasks
    <3>1. Open \in SUBSET Tasks
      BY LoadedTasks DEF Inv, Open
    <3>. QED BY <1>7, <3>1, FirstIsOne
  <2>3. IsOpen(t) /\ client_pid[t] = NoPid
    <3>1. ~Forgotten(t)
      BY <1>1 DEF Forgotten, Idle, Waiting
    <3>. QED BY <2>2, <3>1 DEF Open, IsOpen, Inv, OpenHasNoOwner
  <2>. HIDE DEF t
  <2>4. c \in ChildType /\ c.at = "claim" /\ c.t = t /\ c.tries = 0
    BY <1>1, <2>2, NoTaskIsNone DEF ChildType, ChildPlaces
  <2>. HIDE DEF c
  <2>5. child'[w] = c
    BY <2>1 DEF Inv, Types
  <2>6. Working(w)'
    BY <1>1, <1>7, <2>3, <2>4, <2>5, SameTable DEF Working, table
  <2>7. Tries(w)'
    BY <2>4, <2>5, TaskQueueAssumption DEF Tries
  <2>8. w \in Normal => Dialogue(w)'
    BY <1>1, <1>3, <2>1, <2>4, <2>5 DEF Dialogue, Silence
  <2>. QED BY <1>1, <2>1, <2>4, <2>6, <2>7, <2>8, ConnTypes, ChildOnly
<1>8. CASE Owned(w) = {} /\ Open = {}
  <2>. DEFINE c == [child[w] EXCEPT !.tries = 0]
  <2>1. child' = [child EXCEPT ![w] = c] /\ Reply(w, Word("No tasks"))
    BY <1>8 DEF GetTask
  <2>2. c \in ChildType /\ c.at = "loop" /\ c.tries = 0
    BY <1>1 DEF ChildType
  <2>. HIDE DEF c
  <2>3. child'[w] = c
    BY <2>1 DEF Inv, Types
  <2>4. Working(w)' /\ Tries(w)'
    BY <2>2, <2>3, TaskQueueAssumption DEF Working, Tries
  <2>5. ASSUME w \in Normal PROVE Dialogue(w)'
    <3>1. resp'[w] = <<Word("No tasks")>>
      BY <1>3, <1>4, <2>1, <2>5, ReplyTypes, AppendOne
    <3>2. Over(w)'
      BY <1>1, <1>3, <2>5, <3>1 DEF Over
    <3>. QED BY <1>8, <1>1, <2>2, <2>3, <3>2, SameTable DEF Dialogue
  <2>. QED BY <1>1, <1>4, <2>1, <2>2, <2>4, <2>5, ReplyTypes, ChildOnly
<1>. QED BY <1>5, <1>6, <1>7, <1>8 DEF GetTask

LEMMA ResultStep ==
  ASSUME Inv, ~Overlap, NEW w \in Workers, Handle(w),
         Head(req[w]).m = "RESULT", Result(w, Head(req[w]).t)
  PROVE  Inv'
<1>. DEFINE val == Head(req[w]).t
            t   == First(Owned(w))
            c   == [child[w] EXCEPT !.at = "complete", !.t = t, !.val = val, !.tries = 0]
<1>1. /\ UNCHANGED <<table, disk, handler, client, given>>
      /\ child[w].at = "loop" /\ child[w] \in ChildType
      /\ handler.at = "idle" /\ \A v \in Workers \ {w} : Idle(v)
      /\ Head(req[w]) \in MsgType
      /\ req' \in [Workers -> Seq(MsgType)] /\ req'[w] = <<>>
      /\ \A v \in Workers \ {w} : req'[v] = req[v]
  BY HandleFacts
<1>2. w \in Normal
  BY HandleFacts DEF GET, Word, Msg
<1>3. val \in Owned(w) /\ client[w].at = "ack" /\ resp[w] = <<>>
  BY <1>1, <1>2, AnswererHasIt DEF Handle
<1>4. t \in Owned(w) /\ t \in Tasks /\ val = t
  BY <1>3, OwnedTask
<1>5. child' = [child EXCEPT ![w] = c] /\ UNCHANGED resp
  BY <1>3 DEF Result
<1>. HIDE DEF t, val
<1>6. c \in ChildType /\ c.at = "complete" /\ c.t = t /\ c.val = t /\ c.tries = 0
  BY <1>1, <1>4, NoTaskIsNone DEF ChildType, ChildPlaces
<1>. HIDE DEF c
<1>7. child'[w] = c
  BY <1>5 DEF Inv, Types
<1>8. Working(w)'
  BY <1>1, <1>4, <1>6, <1>7, SameTable DEF Working
<1>9. Tries(w)'
  BY <1>6, <1>7, TaskQueueAssumption DEF Tries
<1>10. Dialogue(w)'
  BY <1>1, <1>3, <1>5, <1>6, <1>7 DEF Dialogue, Silence
<1>. QED BY <1>1, <1>2, <1>5, <1>6, <1>8, <1>9, <1>10, ConnTypes, ChildOnly

LEMMA HandleStep ==
  ASSUME Inv, ~Overlap, NEW w \in Workers, Handle(w)
  PROVE  Inv'
<1>1. CASE Head(req[w]).m = "GET_TASK" /\ GetTask(w)
  BY <1>1, GetTaskStep
<1>2. CASE Head(req[w]).m = "RESULT" /\ Result(w, Head(req[w]).t)
  BY <1>2, ResultStep
<1>3. CASE Head(req[w]).m = "exit" /\ child' = [child EXCEPT ![w].at = "release"] /\ UNCHANGED resp
  <2>. DEFINE c == [child[w] EXCEPT !.at = "release"]
  <2>1. child[w] \in ChildType /\ child[w].at = "loop"
    BY HandleFacts
  <2>2. c \in ChildType /\ c.at = "release" /\ c.tries = child[w].tries
    BY <2>1 DEF ChildType, ChildPlaces
  <2>3. child' = [child EXCEPT ![w] = c]
    BY <1>3
  <2>. HIDE DEF c
  <2>4. w \in Normal
    BY <1>3, HandleFacts DEF GET, Word, Msg
  <2>5. /\ UNCHANGED <<table, disk, handler, client, given>>
        /\ handler.at = "idle" /\ \A v \in Workers \ {w} : Idle(v)
        /\ req' \in [Workers -> Seq(MsgType)]
        /\ \A v \in Workers \ {w} : req'[v] = req[v]
    BY HandleFacts
  <2>6. resp' = resp /\ resp \in [Workers -> Seq(MsgType)]
    BY <1>3, ConnTypes
  <2>. QED BY <2>1, <2>2, <2>3, <2>4, <2>5, <2>6, LeavingStep
<1>. QED BY <1>1, <1>2, <1>3 DEF Handle
-----------------------------------------------------------------------------
(* The writes.  What a child that is at work may rely on: nobody else is   *)
(* between two writes, so the table and the file are as they should be.    *)
LEMMA Alone ==
  ASSUME Inv, NEW w \in Workers, ~Idle(w)
  PROVE  /\ handler.at = "idle" /\ \A v \in Workers \ {w} : Idle(v)
         /\ child[w].at # "forget" =>
              \A t \in Loaded : assigned[t] = 0 => client_pid[t] = NoPid
         /\ child[w].at # "record" => \A t \in Loaded : assigned[t] = 2 => result[t] = t
         /\ child[w].at \notin {"record", "save", "write", "exit"} => file = Snapshot
         /\ PerWorker(w) /\ child[w] \in ChildType
         /\ Loaded \in {Tasks, {}}
<1>1. handler.at = "idle" /\ \A v \in Workers \ {w} : Idle(v)
  BY DEF Inv, OneAtATime
<1>2. child[w].at # "forget" => \A t : ~Forgotten(t)
  BY <1>1 DEF Forgotten, Idle, Waiting
<1>3. child[w].at # "record" => \A t : ~Recorded(t)
  BY <1>1 DEF Recorded, Idle, Waiting
<1>4. child[w].at \notin {"record", "save", "write", "exit"} => \A v \in Workers : ~Writing(v)
  BY <1>1 DEF Writing, Idle, Waiting
<1>5. Loaded \in {Tasks, {}}
  BY LinesDomain DEF Inv, Types, Loaded
<1>. QED BY <1>1, <1>2, <1>3, <1>4, <1>5
         DEF Inv, Types, OpenHasNoOwner, DoneHasResult, FileRight

TableTypes ==
  /\ assigned   \in [Loaded -> 0 .. 2]
  /\ client_pid \in [Loaded -> Workers \cup {NoPid}]
  /\ result     \in [Loaded -> Results]

LEMMA Writes ==
  ASSUME Inv, NEW w \in Workers, ~Idle(w), UNCHANGED <<handler, client, req, loaded>>,
         NEW c \in ChildType, child' = [child EXCEPT ![w] = c], c.at # "none",
         \A v \in Workers \ {w} : Owned(v)' = Owned(v) /\ resp'[v] = resp[v],
         resp' \in [Workers -> Seq(MsgType)],
         NEW g \in SUBSET Tasks, given' = [given EXCEPT ![w] = g],
         TableTypes', file' \in Lines, kept' \in SUBSET Tasks,
         Handed(w)', Working(w)', Tries(w)', w \in Normal => Dialogue(w)',
         OpenHasNoOwner', \A s, t \in Owned(w)' : s = t,
         FileRight', ResultsRight', DoneHasResult', KeptRight', ResultsKept'
  PROVE  Inv'
<1>1. /\ child' \in [Workers -> ChildType] /\ child'[w] = c
      /\ \A v \in Workers \ {w} : child'[v] = child[v]
      /\ given' \in [Workers -> SUBSET Tasks]
      /\ \A v \in Workers \ {w} : given'[v] = given[v]
  BY DEF Inv, Types
<1>2. handler.at = "idle" /\ (\A v \in Workers \ {w} : Idle(v)) /\ PerWorker(w)
  BY Alone
<1>3. Types'
  BY <1>1 DEF Inv, Types, TableTypes, Loaded
<1>4. OneAtATime' /\ Handling'
  BY <1>1, <1>2 DEF OneAtATime, Idle, Handling
<1>5. OneTaskEach'
  BY <1>2 DEF Inv, OneTaskEach
<1>6. ASSUME NEW v \in Workers \ {w} PROVE PerWorker(v)'
  <2>1. PerWorker(v)
    BY DEF Inv
  <2>. QED BY <1>1, <1>2, <2>1, SameWorker
<1>7. PerWorker(w)'
  <2>1. client'[w].at # "start"
    BY <1>2 DEF PerWorker, Idle, Waiting
  <2>2. w \notin Normal => NoResult(w)'
    BY <1>2 DEF PerWorker, NoResult
  <2>. QED BY <1>1, <2>1, <2>2 DEF PerWorker
<1>. QED BY <1>3, <1>4, <1>5, <1>6, <1>7 DEF Inv

(* A child that goes on, and the rest of what it is.                       *)
LEMMA Goes ==
  ASSUME Inv, NEW w \in Workers, NEW here, NEW next \in ChildPlaces, At(w, here, next)
  PROVE  /\ child[w].at = here
         /\ \E c \in ChildType :
              /\ child' = [child EXCEPT ![w] = c] /\ child'[w] = c
              /\ c.at = next /\ c.t = child[w].t /\ c.val = child[w].val
              /\ c.then = child[w].then /\ c.tries = child[w].tries /\ c.copy = child[w].copy
<1>. DEFINE c == [child[w] EXCEPT !.at = next]
<1>1. child[w] \in ChildType /\ child[w].at = here /\ child' = [child EXCEPT ![w] = c]
  BY DEF At, Inv, Types
<1>2. /\ c \in ChildType /\ c.at = next /\ c.t = child[w].t /\ c.val = child[w].val
      /\ c.then = child[w].then /\ c.tries = child[w].tries /\ c.copy = child[w].copy
  BY <1>1 DEF ChildType
<1>. HIDE DEF c
<1>3. child'[w] = c
  BY <1>1 DEF Inv, Types
<1>. QED BY <1>1, <1>2, <1>3

LEMMA ClaimAssignStep == ASSUME Inv, NEW w \in Workers, ClaimAssign(w) PROVE Inv'
<1>. DEFINE t == child[w].t
<1>1. /\ child[w].at = "claim" /\ assigned' = [assigned EXCEPT ![t] = 1]
      /\ UNCHANGED <<client_pid, result, loaded, restarts, disk, handler, client, conns, given>>
  BY DEF ClaimAssign, At
<1>2. ~Idle(w)
  BY <1>1 DEF Idle, Waiting
<1>3. PICK c \in ChildType :
        /\ child' = [child EXCEPT ![w] = c] /\ child'[w] = c /\ c.at = "own" /\ c.t = t
        /\ c.then = child[w].then /\ c.tries = child[w].tries
  BY Goes DEF ClaimAssign, ChildPlaces
<1>4. /\ PerWorker(w) /\ t \in Loaded /\ assigned[t] = 0 /\ client_pid[t] = NoPid
      /\ Owned(w) = {}
  BY <1>1, <1>2, Alone DEF PerWorker, Working, IsOpen
<1>5. /\ Loaded' = Loaded /\ TableTypes' /\ assigned'[t] = 1
      /\ \A s \in Loaded \ {t} : assigned'[s] = assigned[s]
  BY <1>1, <1>4 DEF Inv, Types, TableTypes, Loaded
<1>6. \A v \in Workers : Owned(v)' = Owned(v)
  BY <1>1, <1>4, <1>5, TaskQueueAssumption DEF Owned
<1>7. Snapshot' = Snapshot
  BY <1>1, <1>4, <1>5 DEF Snapshot
<1>8. /\ Handed(w)' /\ Working(w)' /\ Tries(w)' /\ (w \in Normal => Dialogue(w)')
  BY <1>1, <1>3, <1>4, <1>5, <1>6
  DEF PerWorker, Handed, Working, Tries, Dialogue, conns, Silence
<1>9. OpenHasNoOwner' /\ \A s, r \in Owned(w)' : s = r
  BY <1>1, <1>2, <1>4, <1>5, <1>6, Alone DEF OpenHasNoOwner
<1>10. FileRight' /\ ResultsRight' /\ DoneHasResult' /\ KeptRight' /\ ResultsKept'
  BY <1>1, <1>2, <1>4, <1>5, <1>7, Alone
  DEF FileRight, ResultsRight, DoneHasResult, KeptRight, ResultsKept, Inv, disk
<1>11. /\ given' = [given EXCEPT ![w] = given[w]] /\ given[w] \in SUBSET Tasks
       /\ resp' \in [Workers -> Seq(MsgType)] /\ file' \in Lines /\ kept' \in SUBSET Tasks
       /\ resp' = resp /\ req' = req
  BY <1>1 DEF Inv, Types, disk, conns
<1>. QED BY <1>1, <1>2, <1>3, <1>5, <1>6, <1>8, <1>9, <1>10, <1>11, Writes

LEMMA ClaimOwnStep == ASSUME Inv, NEW w \in Workers, ClaimOwn(w) PROVE Inv'
<1>0. PICK t : t = child[w].t
  OBVIOUS
<1>. DEFINE m == Msg("Task", t)
<1>1. /\ child[w].at = "own" /\ client_pid' = [client_pid EXCEPT ![t] = w]
      /\ given' = [given EXCEPT ![w] = given[w] \cup {t}] /\ Reply(w, m)
      /\ UNCHANGED <<assigned, result, loaded, restarts, disk, handler, client, req>>
  BY <1>0 DEF ClaimOwn, At
<1>2. ~Idle(w)
  BY <1>0, <1>1 DEF Idle, Waiting
<1>3. PICK c \in ChildType :
        /\ child' = [child EXCEPT ![w] = c] /\ child'[w] = c /\ c.at = "loop" /\ c.t = t
        /\ c.then = child[w].then /\ c.tries = child[w].tries
  BY <1>0, Goes DEF ClaimOwn, ChildPlaces
<1>4. /\ PerWorker(w) /\ t \in Loaded /\ assigned[t] = 1 /\ client_pid[t] = NoPid
      /\ Owned(w) = {} /\ given[w] = {}
  BY <1>0, <1>1, <1>2, Alone DEF PerWorker, Working, Handed
<1>5. t \in Tasks /\ given[w] \cup {t} \in SUBSET Tasks /\ m \in MsgType
  BY <1>4, LoadedTasks, NoTaskIsNone DEF Inv, Msg, MsgType
<1>6. /\ Loaded' = Loaded /\ TableTypes' /\ client_pid'[t] = w
      /\ \A s \in Loaded \ {t} : client_pid'[s] = client_pid[s]
  BY <1>0, <1>1, <1>4 DEF Inv, Types, TableTypes, Loaded
<1>7. Owned(w)' = {t} /\ \A v \in Workers \ {w} : Owned(v)' = Owned(v)
  BY <1>0, <1>1, <1>4, <1>6, TaskQueueAssumption DEF Owned
<1>8. /\ resp' \in [Workers -> Seq(MsgType)] /\ resp'[w] = Append(resp[w], m)
      /\ \A v \in Workers \ {w} : resp'[v] = resp[v]
  BY <1>0, <1>1, <1>5, ReplyTypes
<1>9. given'[w] = {t}
  BY <1>0, <1>1, <1>4 DEF Inv, Types
<1>10. Snapshot' = Snapshot
  BY <1>0, <1>1, <1>6 DEF Snapshot
<1>11. Handed(w)' /\ Working(w)' /\ Tries(w)'
  BY <1>0, <1>1, <1>3, <1>4, <1>7, <1>9 DEF PerWorker, Handed, Working, Tries
<1>12. ASSUME w \in Normal PROVE Dialogue(w)'
  <2>1. Dialogue(w)
    BY <1>4, <1>12 DEF PerWorker
  <2>2. client[w].at = "wait" /\ req[w] = <<>> /\ resp[w] = <<>>
    BY <1>0, <1>1, <2>1 DEF Dialogue, Silence
  <2>3. resp'[w] = <<m>>
    BY <1>8, <2>2, AppendOne
  <2>4. Has(w, t)'
    BY <1>0, <1>1, <1>3, <2>2, <2>3 DEF Has
  <2>. QED BY <1>3, <1>7, <2>1, <2>4 DEF Dialogue
<1>13. OpenHasNoOwner' /\ \A s, r \in Owned(w)' : s = r
  BY <1>0, <1>1, <1>2, <1>4, <1>6, <1>7, Alone DEF OpenHasNoOwner
<1>14. FileRight' /\ ResultsRight' /\ DoneHasResult' /\ KeptRight' /\ ResultsKept'
  BY <1>0, <1>1, <1>2, <1>6, <1>10, Alone
  DEF FileRight, ResultsRight, DoneHasResult, KeptRight, ResultsKept, Inv, disk
<1>15. file' \in Lines /\ kept' \in SUBSET Tasks
  BY <1>0, <1>1 DEF Inv, Types, disk
<1>. QED BY <1>0, <1>1, <1>2, <1>3, <1>5, <1>6, <1>7, <1>8, <1>11, <1>12, <1>13, <1>14, <1>15, Writes

LEMMA CompleteStep == ASSUME Inv, NEW w \in Workers, Complete(w) PROVE Inv'
<1>0. PICK t : t = child[w].t
  OBVIOUS
<1>1. /\ child[w].at = "complete" /\ assigned' = [assigned EXCEPT ![t] = 2]
      /\ given' = [given EXCEPT ![w] = given[w] \ {t}]
      /\ UNCHANGED <<client_pid, result, loaded, restarts, disk, handler, client, req, resp>>
  BY <1>0 DEF Complete, At, conns
<1>2. ~Idle(w)
  BY <1>0, <1>1 DEF Idle, Waiting
<1>3. PICK c \in ChildType :
        /\ child' = [child EXCEPT ![w] = c] /\ child'[w] = c /\ c.at = "record" /\ c.t = t
        /\ c.val = child[w].val /\ c.then = child[w].then /\ c.tries = child[w].tries
  BY <1>0, Goes DEF Complete, ChildPlaces
<1>4. PerWorker(w) /\ t \in Owned(w) /\ child[w].val = t /\ \A s \in Owned(w) : s = t
  BY <1>0, <1>1, <1>2, Alone DEF PerWorker, Working, Inv, OneTaskEach
<1>5. t \in Loaded /\ assigned[t] = 1 /\ client_pid[t] = w
  BY <1>4 DEF Owned
<1>6. /\ Loaded' = Loaded /\ TableTypes' /\ assigned'[t] = 2
      /\ \A s \in Loaded \ {t} : assigned'[s] = assigned[s]
  BY <1>0, <1>1, <1>5 DEF Inv, Types, TableTypes, Loaded
<1>7. Owned(w)' = {} /\ \A v \in Workers \ {w} : Owned(v)' = Owned(v)
  BY <1>0, <1>1, <1>4, <1>5, <1>6 DEF Owned
<1>8. given[w] \subseteq {t} /\ given'[w] = {} /\ given[w] \ {t} \in SUBSET Tasks
  BY <1>0, <1>1, <1>4 DEF PerWorker, Handed, Inv, Types
<1>9. Handed(w)' /\ Working(w)' /\ Tries(w)' /\ (w \in Normal => Dialogue(w)')
  BY <1>0, <1>1, <1>3, <1>4, <1>5, <1>6, <1>7, <1>8
  DEF PerWorker, Handed, Working, Tries, Dialogue, Silence
<1>10. OpenHasNoOwner' /\ \A s, r \in Owned(w)' : s = r
  BY <1>0, <1>1, <1>2, <1>6, <1>7, Alone DEF OpenHasNoOwner
<1>11. FileRight' /\ ResultsRight' /\ ResultsKept'
  BY <1>0, <1>1, <1>3, <1>6 DEF FileRight, Writing, ResultsRight, ResultsKept, Inv, disk
<1>12. DoneHasResult'
  <2>1. Recorded(t)'
    BY <1>3 DEF Recorded
  <2>. QED BY <1>0, <1>1, <1>2, <1>6, <2>1, Alone DEF DoneHasResult
<1>13. KeptRight'
  BY <1>0, <1>1, <1>6 DEF KeptRight, Inv, disk
<1>14. /\ resp' \in [Workers -> Seq(MsgType)] /\ file' \in Lines /\ kept' \in SUBSET Tasks
  BY <1>0, <1>1 DEF Inv, Types, disk
<1>. QED BY <1>0, <1>1, <1>2, <1>3, <1>6, <1>7, <1>8, <1>9, <1>10, <1>11, <1>12, <1>13, <1>14, Writes

LEMMA RecordStep == ASSUME Inv, NEW w \in Workers, Record(w) PROVE Inv'
<1>0. PICK t : t = child[w].t
  OBVIOUS
<1>1. /\ child[w].at = "record" /\ result' = [result EXCEPT ![t] = child[w].val]
      /\ UNCHANGED <<assigned, client_pid, loaded, restarts, disk, handler, client, req, resp, given>>
  BY <1>0 DEF Record, At, conns
<1>2. ~Idle(w)
  BY <1>0, <1>1 DEF Idle, Waiting
<1>3. PICK c \in ChildType :
        /\ child' = [child EXCEPT ![w] = c] /\ child'[w] = c /\ c.at = "save" /\ c.t = t
        /\ c.then = child[w].then /\ c.tries = child[w].tries
  BY <1>0, Goes DEF Record, ChildPlaces
<1>4. /\ PerWorker(w) /\ t \in Loaded /\ assigned[t] = 2 /\ child[w].val = t /\ Owned(w) = {}
  BY <1>0, <1>1, <1>2, Alone DEF PerWorker, Working
<1>5. t \in Results
  BY <1>0, <1>2, Alone DEF ChildType
<1>6. /\ Loaded' = Loaded /\ TableTypes' /\ result'[t] = t
      /\ \A s \in Loaded \ {t} : result'[s] = result[s]
  BY <1>0, <1>1, <1>4, <1>5 DEF Inv, Types, TableTypes, Loaded
<1>7. \A v \in Workers : Owned(v)' = Owned(v)
  BY <1>0, <1>1, <1>6 DEF Owned
<1>8. Handed(w)' /\ Working(w)' /\ Tries(w)' /\ (w \in Normal => Dialogue(w)')
  BY <1>0, <1>1, <1>3, <1>4, <1>7 DEF PerWorker, Handed, Working, Tries, Dialogue, Silence
<1>9. OpenHasNoOwner' /\ \A s, r \in Owned(w)' : s = r
  BY <1>0, <1>1, <1>2, <1>4, <1>6, <1>7, Alone DEF OpenHasNoOwner
<1>10. FileRight' /\ ResultsRight' /\ KeptRight' /\ ResultsKept'
  BY <1>0, <1>1, <1>3, <1>6 DEF FileRight, Writing, ResultsRight, KeptRight, ResultsKept, Inv, disk
<1>11. DoneHasResult'
  <2>. SUFFICES ASSUME NEW s \in Loaded, assigned[s] = 2 PROVE result'[s] = s
    BY <1>0, <1>1, <1>6 DEF DoneHasResult
  <2>1. CASE s = t
    BY <1>6, <2>1
  <2>2. CASE s # t
    <3>1. ~Recorded(s)
      BY <1>0, <1>1, <1>2, <2>2, Alone DEF Recorded, Idle, Waiting
    <3>. QED BY <1>6, <2>2, <3>1 DEF Inv, DoneHasResult
  <2>. QED BY <2>1, <2>2
<1>12. /\ given' = [given EXCEPT ![w] = given[w]] /\ given[w] \in SUBSET Tasks
       /\ resp' \in [Workers -> Seq(MsgType)] /\ file' \in Lines /\ kept' \in SUBSET Tasks
  BY <1>0, <1>1 DEF Inv, Types, disk
<1>. QED BY <1>0, <1>1, <1>2, <1>3, <1>6, <1>7, <1>8, <1>9, <1>10, <1>11, <1>12, Writes

(* A child on its way through the file: the table stays as it is.          *)
LEMMA TableStays ==
  ASSUME Inv, NEW w \in Workers, ~Idle(w), child[w].at # "forget", UNCHANGED table
  PROVE  /\ TableTypes' /\ Snapshot' = Snapshot /\ Loaded' = Loaded
         /\ OpenHasNoOwner' /\ \A s, t \in Owned(w)' : s = t
         /\ ResultsRight'
         /\ child[w].at # "record" => DoneHasResult'
<1>1. Loaded' = Loaded /\ \A v \in Workers : Owned(v)' = Owned(v)
  BY SameTable
<1>2. TableTypes' /\ Snapshot' = Snapshot
  BY <1>1 DEF Inv, Types, TableTypes, table, Snapshot
<1>3. OpenHasNoOwner' /\ (child[w].at # "record" => DoneHasResult')
  BY <1>1, Alone DEF table, OpenHasNoOwner, DoneHasResult
<1>. QED BY <1>1, <1>2, <1>3 DEF Inv, OneTaskEach, ResultsRight, table

LEMMA SaveStep == ASSUME Inv, NEW w \in Workers, Save(w) PROVE Inv'
<1>. DEFINE next == IF child[w].at = "save" THEN "write" ELSE "exit"
            c    == [child[w] EXCEPT !.copy = Snapshot, !.at = next]
<1>1. /\ child[w].at \in {"save", "cleanup"} /\ file' = NoLines
      /\ child' = [child EXCEPT ![w] = c]
      /\ UNCHANGED <<table, kept, handler, client, req, resp, given>>
  BY DEF Save, conns
<1>2. ~Idle(w)
  BY <1>1 DEF Idle, Waiting
<1>3. PerWorker(w) /\ child[w] \in ChildType
  BY <1>2, Alone
<1>4. /\ c \in ChildType /\ c.at = next /\ c.t = child[w].t /\ c.copy = Snapshot
      /\ c.then = child[w].then /\ c.tries = child[w].tries
      /\ c.at \in {"write", "exit"}
      /\ child[w].at = "save" => c.at = "write"
      /\ child[w].at = "cleanup" => c.at = "exit"
  BY <1>1, <1>3, SnapshotType DEF Inv, ChildType, ChildPlaces
<1>. HIDE DEF c
<1>5. child'[w] = c
  BY <1>1 DEF Inv, Types
<1>6. /\ TableTypes' /\ Snapshot' = Snapshot /\ Loaded' = Loaded
      /\ OpenHasNoOwner' /\ (\A s, t \in Owned(w)' : s = t)
      /\ ResultsRight' /\ DoneHasResult'
  BY <1>1, <1>2, TableStays
<1>7. \A v \in Workers : Owned(v)' = Owned(v)
  BY <1>1, SameTable
<1>8. Handed(w)' /\ Tries(w)' /\ (w \in Normal => Dialogue(w)')
  BY <1>1, <1>3, <1>4, <1>5, <1>7 DEF PerWorker, Handed, Tries, Dialogue, Silence
<1>9. Working(w)'
  BY <1>1, <1>3, <1>4, <1>5, <1>6, <1>7 DEF PerWorker, Working
<1>10. FileRight' /\ KeptRight' /\ ResultsKept'
  BY <1>1, <1>4, <1>5, <1>6 DEF FileRight, Writing, KeptRight, ResultsKept, Inv, table
<1>11. /\ given' = [given EXCEPT ![w] = given[w]] /\ given[w] \in SUBSET Tasks
       /\ resp' \in [Workers -> Seq(MsgType)] /\ file' \in Lines /\ kept' \in SUBSET Tasks
       /\ loaded' = loaded /\ c.at # "none"
  BY <1>1, <1>4, NoLinesType DEF Inv, Types, Lines, table
<1>. QED BY <1>1, <1>2, <1>4, <1>6, <1>7, <1>8, <1>9, <1>10, <1>11, Writes

(* The file that a child closes is the table's, and every result that was  *)
(* in the file is in it.                                                   *)
LEMMA CloseFacts ==
  ASSUME Inv, NEW w \in Workers, child[w].at \in {"write", "exit"},
         CloseFile(child[w].copy), UNCHANGED table
  PROVE  /\ file' = Snapshot /\ file' \in Lines /\ kept' \in SUBSET Tasks
         /\ FileRight' /\ KeptRight' /\ ResultsKept'
<1>1. ~Idle(w)
  BY DEF Idle, Waiting
<1>2. child[w].copy = Snapshot
  BY <1>1, Alone DEF PerWorker, Working
<1>3. /\ file' = Snapshot
      /\ kept' = kept \cup {t \in DOMAIN Snapshot : Snapshot[t] # NoTask}
  BY <1>2 DEF CloseFile
<1>4. Loaded' = Loaded /\ Snapshot' = Snapshot
  BY <1>1, TableStays
<1>5. DOMAIN Snapshot = Loaded
  BY DEF Snapshot
<1>6. Snapshot \in Lines /\ Loaded \subseteq Tasks
  BY SnapshotType, LoadedTasks DEF Inv
<1>7. kept' \in SUBSET Tasks
  BY <1>3, <1>5, <1>6 DEF Inv, Types
<1>8. \A t \in Loaded : assigned[t] = 2 => result[t] = t
  BY <1>1, Alone
<1>9. \A t \in Loaded : Snapshot[t] # NoTask <=> assigned[t] = 2 \/ loaded[t] # NoTask
  <2>. SUFFICES ASSUME NEW t \in Loaded
                PROVE  Snapshot[t] # NoTask <=> assigned[t] = 2 \/ loaded[t] # NoTask
    OBVIOUS
  <2>1. t # NoTask
    BY <1>6, NoTaskIsNone
  <2>. QED BY <1>8, <2>1 DEF Snapshot
<1>10. KeptRight'
  <2>1. \A t \in kept' \cap Loaded : assigned[t] = 2 \/ loaded[t] # NoTask
    BY <1>3, <1>5, <1>9 DEF Inv, KeptRight
  <2>2. Loaded = {} => Snapshot = NoLines
    BY <1>5, <1>6, LinesDomain
  <2>. QED BY <1>3, <1>4, <2>1, <2>2 DEF KeptRight, table
<1>11. ResultsKept'
  <2>. SUFFICES ASSUME Snapshot # NoLines, NEW t \in kept' PROVE Snapshot[t] # NoTask
    BY <1>3 DEF ResultsKept
  <2>1. Loaded = Tasks
    BY <1>1, <1>5, <1>6, Alone, LinesDomain
  <2>. QED BY <1>4, <1>7, <1>9, <1>10, <2>1 DEF KeptRight, table
<1>. QED BY <1>3, <1>4, <1>6, <1>7, <1>10, <1>11 DEF FileRight

LEMMA WriteStep == ASSUME Inv, NEW w \in Workers, Write(w) PROVE Inv'
<1>1. /\ child[w].at = "write" /\ CloseFile(child[w].copy) /\ Reply(w, Word("Result"))
      /\ UNCHANGED <<table, handler, client, req, given>>
  BY DEF Write, At
<1>2. ~Idle(w)
  BY <1>1 DEF Idle, Waiting
<1>3. PICK c \in ChildType :
        /\ child' = [child EXCEPT ![w] = c] /\ child'[w] = c /\ c.at = "all"
        /\ c.then = child[w].then /\ c.tries = child[w].tries
  BY Goes DEF Write, ChildPlaces
<1>4. PerWorker(w) /\ Owned(w) = {}
  BY <1>1, <1>2, Alone DEF PerWorker, Working
<1>5. /\ TableTypes' /\ Loaded' = Loaded
      /\ OpenHasNoOwner' /\ (\A s, t \in Owned(w)' : s = t)
      /\ ResultsRight' /\ DoneHasResult'
  BY <1>1, <1>2, TableStays
<1>6. \A v \in Workers : Owned(v)' = Owned(v)
  BY <1>1, SameTable
<1>7. file' \in Lines /\ kept' \in SUBSET Tasks /\ FileRight' /\ KeptRight' /\ ResultsKept'
  BY <1>1, CloseFacts
<1>8. /\ resp' \in [Workers -> Seq(MsgType)] /\ resp'[w] = Append(resp[w], Word("Result"))
      /\ \A v \in Workers \ {w} : resp'[v] = resp[v]
  BY <1>1, ReplyTypes, WordType
<1>9. Handed(w)' /\ Working(w)' /\ Tries(w)'
  BY <1>1, <1>3, <1>4, <1>6 DEF PerWorker, Handed, Working, Tries
<1>10. ASSUME w \in Normal PROVE Dialogue(w)'
  <2>1. Dialogue(w) /\ client[w].at = "ack" /\ req[w] = <<>> /\ resp[w] = <<>>
    BY <1>1, <1>4, <1>10 DEF PerWorker, Dialogue, Silence
  <2>2. resp'[w] = <<Word("Result")>>
    BY <1>8, <2>1, AppendOne
  <2>3. Settled(w)'
    BY <1>1, <2>1, <2>2 DEF Settled
  <2>. QED BY <1>3, <2>1, <2>3 DEF Dialogue
<1>11. given' = [given EXCEPT ![w] = given[w]] /\ given[w] \in SUBSET Tasks /\ loaded' = loaded
  BY <1>1 DEF Inv, Types, table
<1>. QED BY <1>1, <1>2, <1>3, <1>5, <1>6, <1>7, <1>8, <1>9, <1>10, <1>11, Writes

LEMMA ExitStep == ASSUME Inv, NEW w \in Workers, Exit(w) PROVE Inv'
<1>1. /\ child[w].at = "exit" /\ CloseFile(child[w].copy)
      /\ given' = [given EXCEPT ![w] = {}]
      /\ UNCHANGED <<table, handler, client, req, resp>>
  BY DEF Exit, At, conns
<1>2. ~Idle(w)
  BY <1>1 DEF Idle, Waiting
<1>3. PICK c \in ChildType :
        /\ child' = [child EXCEPT ![w] = c] /\ child'[w] = c /\ c.at = "zombie"
        /\ c.then = child[w].then /\ c.tries = child[w].tries
  BY Goes DEF Exit, ChildPlaces
<1>4. PerWorker(w)
  BY <1>2, Alone
<1>5. /\ TableTypes' /\ Loaded' = Loaded
      /\ OpenHasNoOwner' /\ (\A s, t \in Owned(w)' : s = t)
      /\ ResultsRight' /\ DoneHasResult'
  BY <1>1, <1>2, TableStays
<1>6. \A v \in Workers : Owned(v)' = Owned(v)
  BY <1>1, SameTable
<1>7. file' \in Lines /\ kept' \in SUBSET Tasks /\ FileRight' /\ KeptRight' /\ ResultsKept'
  BY <1>1, CloseFacts
<1>8. given'[w] = {}
  BY <1>1 DEF Inv, Types
<1>9. Handed(w)' /\ Working(w)' /\ Tries(w)' /\ (w \in Normal => Dialogue(w)')
  BY <1>1, <1>3, <1>4, <1>8 DEF PerWorker, Handed, Working, Tries, Dialogue
<1>10. resp' \in [Workers -> Seq(MsgType)] /\ loaded' = loaded /\ {} \in SUBSET Tasks
  BY <1>1 DEF Inv, Types, table
<1>. QED BY <1>1, <1>2, <1>3, <1>5, <1>6, <1>7, <1>9, <1>10, Writes

LEMMA FreeStep == ASSUME Inv, NEW w \in Workers, Free(w) PROVE Inv'
<1>0. PICK t : t = child[w].t
  OBVIOUS
<1>1. /\ child[w].at = "free" /\ assigned' = [assigned EXCEPT ![t] = 0]
      /\ given' = [given EXCEPT ![w] = given[w] \ {t}]
      /\ UNCHANGED <<client_pid, result, loaded, restarts, disk, handler, client, req, resp>>
  BY <1>0 DEF Free, At, conns
<1>2. ~Idle(w)
  BY <1>1 DEF Idle, Waiting
<1>3. PICK c \in ChildType :
        /\ child' = [child EXCEPT ![w] = c] /\ child'[w] = c /\ c.at = "forget" /\ c.t = t
        /\ c.then = child[w].then /\ c.tries = child[w].tries
  BY <1>0, Goes DEF Free, ChildPlaces
<1>4. PerWorker(w) /\ t \in Owned(w) /\ \A s \in Owned(w) : s = t
  BY <1>0, <1>1, <1>2, Alone DEF PerWorker, Working, Inv, OneTaskEach
<1>5. t \in Loaded /\ assigned[t] = 1 /\ client_pid[t] = w
  BY <1>4 DEF Owned
<1>6. /\ Loaded' = Loaded /\ TableTypes' /\ assigned'[t] = 0
      /\ \A s \in Loaded \ {t} : assigned'[s] = assigned[s]
  BY <1>1, <1>5 DEF Inv, Types, TableTypes, Loaded
<1>7. Owned(w)' = {} /\ \A v \in Workers \ {w} : Owned(v)' = Owned(v)
  BY <1>1, <1>4, <1>5, <1>6 DEF Owned
<1>8. given[w] \subseteq {t} /\ given'[w] = {} /\ given[w] \ {t} \in SUBSET Tasks
  BY <1>1, <1>4 DEF PerWorker, Handed, Inv, Types
<1>9. Handed(w)' /\ Working(w)' /\ Tries(w)' /\ (w \in Normal => Dialogue(w)')
  BY <1>1, <1>3, <1>4, <1>5, <1>6, <1>7, <1>8
  DEF PerWorker, Handed, Working, Tries, Dialogue, IsOpen
<1>10. OpenHasNoOwner' /\ \A s, r \in Owned(w)' : s = r
  <2>1. Forgotten(t)'
    BY <1>3 DEF Forgotten
  <2>. QED BY <1>1, <1>2, <1>6, <1>7, <2>1, Alone DEF OpenHasNoOwner
<1>11. Snapshot' = Snapshot
  BY <1>1, <1>5, <1>6 DEF Snapshot
<1>12. FileRight' /\ ResultsRight' /\ DoneHasResult' /\ KeptRight' /\ ResultsKept'
  BY <1>1, <1>2, <1>5, <1>6, <1>11, Alone
  DEF FileRight, ResultsRight, DoneHasResult, KeptRight, ResultsKept, Inv, disk
<1>13. /\ resp' \in [Workers -> Seq(MsgType)] /\ file' \in Lines /\ kept' \in SUBSET Tasks
  BY <1>1 DEF Inv, Types, disk
<1>. QED BY <1>1, <1>2, <1>3, <1>6, <1>7, <1>8, <1>9, <1>10, <1>12, <1>13, Writes

LEMMA ForgetStep == ASSUME Inv, NEW w \in Workers, Forget(w) PROVE Inv'
<1>0. PICK t : t = child[w].t
  OBVIOUS
<1>1. /\ child[w].at = "forget" /\ client_pid' = [client_pid EXCEPT ![t] = NoPid]
      /\ UNCHANGED <<assigned, result, loaded, restarts, disk, handler, client, req, resp, given>>
  BY <1>0 DEF Forget, At, conns
<1>2. ~Idle(w)
  BY <1>1 DEF Idle, Waiting
<1>3. PerWorker(w) /\ Owned(w) = {} /\ IsOpen(t)
      /\ child[w].then \in {"timeout", "release", "cleanup"}
  BY <1>0, <1>1, <1>2, Alone DEF PerWorker, Working, Tries
<1>4. PICK c \in ChildType :
        /\ child' = [child EXCEPT ![w] = c] /\ child'[w] = c /\ c.at = child[w].then /\ c.t = t
        /\ c.then = child[w].then /\ c.tries = child[w].tries
  <2>1. child[w].then \in ChildPlaces /\ At(w, "forget", child[w].then)
    BY <1>3 DEF ChildPlaces, Forget
  <2>. QED BY <1>0, <2>1, Goes
<1>5. /\ Loaded' = Loaded /\ TableTypes' /\ client_pid'[t] = NoPid
      /\ \A s \in Loaded \ {t} : client_pid'[s] = client_pid[s]
  BY <1>1, <1>3 DEF Inv, Types, TableTypes, Loaded, IsOpen
<1>6. \A v \in Workers : Owned(v)' = Owned(v)
  BY <1>1, <1>3, <1>5, TaskQueueAssumption DEF Owned, IsOpen
<1>7. Handed(w)' /\ Working(w)' /\ Tries(w)' /\ (w \in Normal => Dialogue(w)')
  BY <1>1, <1>3, <1>4, <1>6 DEF PerWorker, Handed, Working, Tries, Dialogue
<1>8. OpenHasNoOwner'
  <2>1. \A s \in Loaded : Forgotten(s) => s = t
    BY <1>0, <1>2, Alone DEF Forgotten, Idle, Waiting
  <2>. QED BY <1>1, <1>5, <2>1 DEF Inv, OpenHasNoOwner
<1>9. Snapshot' = Snapshot
  BY <1>1, <1>5 DEF Snapshot
<1>10. FileRight' /\ ResultsRight' /\ DoneHasResult' /\ KeptRight' /\ ResultsKept'
  BY <1>1, <1>2, <1>5, <1>9, Alone
  DEF FileRight, ResultsRight, DoneHasResult, KeptRight, ResultsKept, Inv, disk
<1>11. /\ given' = [given EXCEPT ![w] = given[w]] /\ given[w] \in SUBSET Tasks
       /\ resp' \in [Workers -> Seq(MsgType)] /\ file' \in Lines /\ kept' \in SUBSET Tasks
       /\ \A s, r \in Owned(w)' : s = r
  BY <1>1, <1>3, <1>6 DEF Inv, Types, disk
<1>12. c.at # "none"
  BY <1>3, <1>4
<1>. QED BY <1>1, <1>2, <1>4, <1>5, <1>6, <1>7, <1>8, <1>10, <1>11, <1>12, Writes

LEMMA DieStep == ASSUME Inv, NEW w \in Workers, Die(w) PROVE Inv'
<1>. DEFINE c == [child[w] EXCEPT !.at = "zombie"]
<1>1. /\ \/ child[w].at = "loop"
         \/ child[w].at = "free"
      /\ child' = [child EXCEPT ![w] = c]
      /\ given' = [given EXCEPT ![w] = {}]
      /\ UNCHANGED <<table, disk, handler, client, req, resp>>
  BY DEF Die, conns
<1>2. child[w] \in ChildType /\ PerWorker(w)
  BY DEF Inv, Types
<1>3. c \in ChildType /\ c.at = "zombie"
  BY <1>2 DEF ChildType, ChildPlaces
<1>4. c.at \in Waiting /\ c.tries = child[w].tries
  BY <1>2, <1>3 DEF Waiting, ChildType
<1>. HIDE DEF c
<1>5. child'[w] = c
  BY <1>1 DEF Inv, Types
<1>6. /\ given' \in [Workers -> SUBSET Tasks] /\ given'[w] = {}
      /\ \A v \in Workers \ {w} : given'[v] = given[v]
  BY <1>1 DEF Inv, Types
<1>7. PerWorker(w)'
  <2>1. Handed(w)' /\ Working(w)' /\ Tries(w)' /\ (w \in Normal => Dialogue(w)')
    BY <1>2, <1>3, <1>4, <1>5, <1>6 DEF PerWorker, Handed, Working, Tries, Dialogue
  <2>2. w \notin Normal => NoResult(w)'
    BY <1>1, <1>2 DEF PerWorker, NoResult
  <2>3. client'[w].at # "start"
    BY <1>1, <1>2 DEF PerWorker
  <2>. QED BY <1>3, <1>5, <2>1, <2>2, <2>3 DEF PerWorker
<1>8. Elsewhere(w)
  BY <1>1, <1>5, <1>6, SameTable DEF Elsewhere, Inv, Types
<1>9. /\ req' \in [Workers -> Seq(MsgType)] /\ resp' \in [Workers -> Seq(MsgType)]
      /\ client' \in [Workers -> ClientType]
  BY <1>1 DEF Inv, Types
<1>. QED BY <1>1, <1>3, <1>4, <1>6, <1>7, <1>8, <1>9, Control
-----------------------------------------------------------------------------
(* The handler: no child is at work while it is.                           *)
LEMMA NobodyAtWork ==
  ASSUME Inv, \A v \in Workers : Idle(v)
  PROVE  /\ handler.at # "forget" => \A t \in Loaded : assigned[t] = 0 => client_pid[t] = NoPid
         /\ \A t \in Loaded : assigned[t] = 2 => result[t] = t
         /\ file = Snapshot
<1>1. \A t : ~Recorded(t)
  BY DEF Recorded, Idle, Waiting
<1>2. \A v \in Workers : ~Writing(v)
  BY DEF Writing, Idle, Waiting
<1>3. handler.at # "forget" => \A t : ~Forgotten(t)
  BY DEF Forgotten, Idle, Waiting
<1>. QED BY <1>1, <1>2, <1>3 DEF Inv, OpenHasNoOwner, DoneHasResult, FileRight

LEMMA HandlerWrites ==
  ASSUME Inv, \A v \in Workers : Idle(v),
         UNCHANGED <<disk, client, req, resp, given, loaded, result>>,
         handler' \in HandlerType, child' \in [Workers -> ChildType],
         NEW w \in Workers, child[w].at \in {"zombie", "reaped"}, child'[w].at = "reaped",
         child'[w].tries = child[w].tries,
         \A v \in Workers \ {w} : child'[v] = child[v] /\ Owned(v)' = Owned(v),
         Owned(w)' \subseteq Owned(w),
         TableTypes', OpenHasNoOwner', Handling',
         \A t \in Loaded : assigned'[t] = 2 <=> assigned[t] = 2
  PROVE  Inv'
<1>1. Loaded' = Loaded
  BY DEF Loaded
<1>2. Snapshot' = Snapshot
  BY <1>1 DEF Snapshot
<1>3. Types'
  BY <1>1 DEF Inv, Types, TableTypes, disk
<1>4. \A v \in Workers : Idle(v)'
  BY DEF Idle, Waiting
<1>5. OneAtATime'
  BY <1>4 DEF OneAtATime
<1>6. OneTaskEach'
  BY DEF Inv, OneTaskEach
<1>7. ASSUME NEW v \in Workers \ {w} PROVE PerWorker(v)'
  <2>1. PerWorker(v)
    BY DEF Inv
  <2>. QED BY <2>1, SameWorker
<1>8. PerWorker(w)'
  <2>1. PerWorker(w)
    BY DEF Inv
  <2>2. Handed(w)' /\ Working(w)' /\ Tries(w)' /\ (w \in Normal => Dialogue(w)')
    BY <2>1 DEF PerWorker, Handed, Working, Tries, Dialogue
  <2>3. w \notin Normal => NoResult(w)'
    BY <2>1 DEF PerWorker, NoResult
  <2>4. client'[w].at # "start"
    BY <2>1 DEF PerWorker
  <2>. QED BY <2>2, <2>3, <2>4 DEF PerWorker
<1>9. FileRight' /\ DoneHasResult'
  BY <1>1, <1>2, NobodyAtWork DEF FileRight, DoneHasResult, disk
<1>10. ResultsRight' /\ KeptRight' /\ ResultsKept'
  BY <1>1 DEF Inv, ResultsRight, KeptRight, ResultsKept, disk
<1>. QED BY <1>3, <1>5, <1>6, <1>7, <1>8, <1>9, <1>10 DEF Inv

LEMMA ReapStep ==
  ASSUME Inv, ~Overlap, NEW w \in Workers, Reap(w)
  PROVE  Inv'
<1>. DEFINE c == [child[w] EXCEPT !.at = "reaped"]
<1>1. /\ handler.at = "idle" /\ child[w].at = "zombie" /\ Turn(w)
      /\ child' = [child EXCEPT ![w] = c]
      /\ handler' = [at |-> "scan", w |-> w, t |-> NoTask]
      /\ UNCHANGED <<table, disk, client, req, resp, given>>
  BY DEF Reap, conns
<1>2. child[w] \in ChildType
  BY DEF Inv, Types
<1>3. c \in ChildType /\ c.at = "reaped" /\ c.tries = child[w].tries
  BY <1>2 DEF ChildType, ChildPlaces
<1>. HIDE DEF c
<1>4. /\ child'[w] = c /\ child' \in [Workers -> ChildType]
      /\ \A v \in Workers \ {w} : child'[v] = child[v]
  BY <1>1, <1>3 DEF Inv, Types
<1>5. \A v \in Workers : Idle(v)
  BY <1>1, TurnIsOne DEF Idle, Waiting
<1>6. handler' \in HandlerType /\ Handling'
  BY <1>1, <1>3, <1>4, NoTaskIsNone DEF HandlerType, Handling
<1>7. Loaded' = Loaded /\ TableTypes' /\ \A v \in Workers : Owned(v)' = Owned(v)
  BY <1>1, SameTable DEF Inv, Types, TableTypes, table
<1>8. OpenHasNoOwner'
  BY <1>1, <1>5, <1>7, NobodyAtWork DEF OpenHasNoOwner, table
<1>9. UNCHANGED <<disk, client, req, resp, given, loaded, result, assigned>>
  BY <1>1 DEF table
<1>. QED BY <1>1, <1>3, <1>4, <1>5, <1>6, <1>7, <1>8, <1>9, HandlerWrites

LEMMA HandlerFacts ==
  ASSUME Inv, handler.at # "idle"
  PROVE  /\ \A v \in Workers : Idle(v)
         /\ handler \in HandlerType /\ handler.w \in Workers
         /\ child[handler.w].at = "reaped"
         /\ child \in [Workers -> ChildType]
BY DEF Inv, Types, OneAtATime, Handling

LEMMA SigScanStep == ASSUME Inv, SigScan PROVE Inv'
<1>0. PICK w : w = handler.w
  OBVIOUS
<1>1. handler.at = "scan" /\ UNCHANGED <<table, disk, child, client, req, resp, given>>
  BY DEF SigScan, conns
<1>2. /\ \A v \in Workers : Idle(v)
      /\ handler \in HandlerType /\ w \in Workers /\ child[w].at = "reaped"
      /\ child \in [Workers -> ChildType]
  BY <1>0, <1>1, HandlerFacts
<1>3. handler' \in HandlerType /\ Handling'
  <2>1. CASE Owned(w) # {}
    <3>. DEFINE t == First(Owned(w))
    <3>1. handler' = [handler EXCEPT !.at = "free", !.t = t]
      BY <1>0, <2>1 DEF SigScan
    <3>2. t \in Owned(w) /\ t \in Tasks
      BY <1>2, <2>1, OwnedTask
    <3>. HIDE DEF t
    <3>3. handler' \in HandlerType /\ handler'.at = "free" /\ handler'.w = w /\ handler'.t = t
      BY <1>0, <1>2, <3>1, <3>2, NoTaskIsNone DEF HandlerType
    <3>4. Owned(w)' = Owned(w)
      BY <1>1, <1>2, SameTable
    <3>. QED BY <1>1, <1>2, <3>2, <3>3, <3>4 DEF Handling
  <2>2. CASE Owned(w) = {}
    BY <1>0, <2>2, NoTaskIsNone DEF SigScan, HandlerType, Handling
  <2>. QED BY <2>1, <2>2
<1>4. Loaded' = Loaded /\ TableTypes' /\ \A v \in Workers : Owned(v)' = Owned(v)
  BY <1>1, SameTable DEF Inv, Types, TableTypes, table
<1>5. OpenHasNoOwner'
  BY <1>1, <1>2, <1>4, NobodyAtWork DEF OpenHasNoOwner, table
<1>6. UNCHANGED <<disk, client, req, resp, given, loaded, result, assigned>>
  BY <1>1 DEF table
<1>. QED BY <1>1, <1>2, <1>3, <1>4, <1>5, <1>6, HandlerWrites

LEMMA SigFreeStep == ASSUME Inv, SigFree PROVE Inv'
<1>0. PICK w, t : w = handler.w /\ t = handler.t
  OBVIOUS
<1>1. /\ handler.at = "free" /\ assigned' = [assigned EXCEPT ![t] = 0]
      /\ handler' = [handler EXCEPT !.at = "forget"]
      /\ UNCHANGED <<client_pid, result, loaded, disk, child, client, req, resp, given>>
  BY <1>0 DEF SigFree, conns
<1>2. /\ \A v \in Workers : Idle(v)
      /\ handler \in HandlerType /\ w \in Workers /\ child[w].at = "reaped"
      /\ child \in [Workers -> ChildType]
  BY <1>0, <1>1, HandlerFacts
<1>3. t \in Owned(w) /\ t \in Loaded /\ assigned[t] = 1 /\ client_pid[t] = w
  BY <1>0, <1>1 DEF Inv, Handling, Owned
<1>4. /\ Loaded' = Loaded /\ TableTypes' /\ assigned'[t] = 0
      /\ \A s \in Loaded \ {t} : assigned'[s] = assigned[s]
  BY <1>1, <1>3 DEF Inv, Types, TableTypes, Loaded
<1>5. /\ \A v \in Workers \ {w} : Owned(v)' = Owned(v)
      /\ Owned(w)' \subseteq Owned(w)
  BY <1>1, <1>3, <1>4 DEF Owned
<1>6. /\ handler' \in HandlerType /\ handler'.at = "forget" /\ handler'.w = w /\ handler'.t = t
  BY <1>0, <1>1, <1>2 DEF HandlerType
<1>7. Handling' /\ Forgotten(t)'
  BY <1>1, <1>2, <1>3, <1>4, <1>6 DEF Handling, IsOpen, Forgotten
<1>8. OpenHasNoOwner'
  BY <1>1, <1>2, <1>4, <1>7, NobodyAtWork DEF OpenHasNoOwner
<1>9. \A s \in Loaded : assigned'[s] = 2 <=> assigned[s] = 2
  BY <1>3, <1>4
<1>. QED BY <1>1, <1>2, <1>4, <1>5, <1>6, <1>7, <1>8, <1>9, HandlerWrites

LEMMA SigForgetStep == ASSUME Inv, SigForget PROVE Inv'
<1>0. PICK w, t : w = handler.w /\ t = handler.t
  OBVIOUS
<1>1. /\ handler.at = "forget" /\ client_pid' = [client_pid EXCEPT ![t] = NoPid]
      /\ handler' = [handler EXCEPT !.at = "scan"]
      /\ UNCHANGED <<assigned, result, loaded, disk, child, client, req, resp, given>>
  BY <1>0 DEF SigForget, conns
<1>2. /\ \A v \in Workers : Idle(v)
      /\ handler \in HandlerType /\ w \in Workers /\ child[w].at = "reaped"
      /\ child \in [Workers -> ChildType]
  BY <1>0, <1>1, HandlerFacts
<1>3. t \in Loaded /\ assigned[t] = 0
  BY <1>0, <1>1 DEF Inv, Handling, IsOpen
<1>4. /\ Loaded' = Loaded /\ TableTypes' /\ client_pid'[t] = NoPid
      /\ \A s \in Loaded \ {t} : client_pid'[s] = client_pid[s]
  BY <1>1, <1>3 DEF Inv, Types, TableTypes, Loaded
<1>5. \A v \in Workers : Owned(v)' = Owned(v)
  BY <1>1, <1>3, <1>4 DEF Owned
<1>6. handler' \in HandlerType /\ handler'.at = "scan" /\ handler'.w = w
  BY <1>0, <1>1, <1>2 DEF HandlerType
<1>7. Handling'
  BY <1>1, <1>2, <1>6 DEF Handling
<1>8. OpenHasNoOwner'
  <2>1. \A s \in Loaded : Forgotten(s) => s = t
    BY <1>0, <1>2 DEF Forgotten, Idle, Waiting
  <2>. QED BY <1>1, <1>4, <2>1 DEF Inv, OpenHasNoOwner
<1>. QED BY <1>1, <1>2, <1>4, <1>5, <1>6, <1>7, <1>8, HandlerWrites
-----------------------------------------------------------------------------
(* A server that is started again has no children and no owners; its table *)
(* is the file's.                                                          *)
LEMMA RestartStep == ASSUME Inv, Restart PROVE Inv'
<1>. DEFINE fresh(w) == [child[w] EXCEPT !.at = "reaped", !.t = NoTask, !.val = NoTask,
                           !.tries = 0, !.then = "none", !.copy = Empty]
<1>1. /\ loaded' = file
      /\ assigned' = [t \in DOMAIN file |-> 0]
      /\ client_pid' = [t \in DOMAIN file |-> NoPid]
      /\ result' = [t \in DOMAIN file |-> NoTask]
      /\ child' = [w \in Workers |-> IF child[w].at = "none" THEN child[w] ELSE fresh(w)]
      /\ handler' = [at |-> "idle", w |-> NoPid, t |-> NoTask]
      /\ given' = [w \in Workers |-> {}]
      /\ UNCHANGED <<file, kept, client, req, resp>>
  BY DEF Restart, load_tasks, disk, conns
<1>2. /\ file \in Lines /\ child \in [Workers -> ChildType]
      /\ \A w \in Workers : PerWorker(w)
  BY DEF Inv, Types
<1>3. /\ Loaded' = DOMAIN file /\ DOMAIN file \in {Tasks, {}}
      /\ file \in [DOMAIN file -> Results] /\ (DOMAIN file = {} => file = NoLines)
  BY <1>1, <1>2, LinesDomain DEF Loaded
<1>4. \A w \in Workers : Owned(w)' = {}
  <2>1. assigned' = [t \in DOMAIN file |-> 0]
    BY <1>1
  <2>2. \A t \in Loaded' : assigned'[t] = 0
    BY <1>3, <2>1
  <2>. QED BY <2>2 DEF Owned
<1>5. ASSUME NEW w \in Workers
      PROVE  /\ fresh(w) \in ChildType /\ fresh(w).at = "reaped" /\ fresh(w).tries = 0
  <2>1. Empty \in Lines
    BY NoTaskIsNone DEF Empty, Lines
  <2>. QED BY ZenonT(40), <1>2, <2>1, NoTaskIsNone DEF ChildType, ChildPlaces, Thens
<1>. HIDE DEF fresh
<1>6. /\ child' \in [Workers -> ChildType]
      /\ \A w \in Workers : \/ child'[w] = child[w] /\ child[w].at = "none"
                            \/ child'[w].at = "reaped" /\ child'[w].tries = 0
                               /\ child[w].at # "none"
  BY <1>1, <1>2, <1>5
<1>7. Types'
  BY <1>1, <1>2, <1>3, <1>6, NoTaskIsNone DEF Inv, Types, HandlerType
<1>8. OneAtATime' /\ OpenHasNoOwner' /\ OneTaskEach' /\ Handling'
  <2>1. \A w \in Workers : Idle(w)'
    BY <1>6 DEF Idle, Waiting
  <2>2. handler'.at = "idle" /\ \A t \in Loaded' : client_pid'[t] = NoPid
    BY <1>1, <1>3
  <2>. QED BY <1>4, <2>1, <2>2 DEF OneAtATime, OpenHasNoOwner, OneTaskEach, Handling
<1>9. ASSUME NEW w \in Workers PROVE PerWorker(w)'
  <2>1. child'[w].at \in {"none", "reaped"} /\ (child'[w].at = "none" <=> child[w].at = "none")
        /\ child'[w].tries = 0
    BY <1>2, <1>6 DEF PerWorker
  <2>2. given'[w] = {}
    BY <1>1
  <2>3. Handed(w)' /\ Working(w)' /\ Dialogue(w)'
    BY <1>4, <2>1, <2>2 DEF Handed, Working, Dialogue
  <2>4. Tries(w)'
    BY <2>1, TaskQueueAssumption DEF Tries
  <2>5. w \notin Normal => NoResult(w)'
    BY <1>1, <1>2 DEF PerWorker, NoResult
  <2>. QED BY <1>1, <1>2, <1>4, <2>1, <2>3, <2>4, <2>5 DEF PerWorker, Silence
<1>10. Snapshot' = file
  BY <1>1, <1>3 DEF Snapshot
<1>11. FileRight' /\ ResultsRight' /\ DoneHasResult' /\ ResultsKept'
  BY <1>1, <1>3, <1>10 DEF FileRight, ResultsRight, DoneHasResult, ResultsKept, Inv
<1>12. KeptRight'
  <2>1. DOMAIN file # {} => file # NoLines
    BY NoLinesType
  <2>. QED BY <1>1, <1>3, <2>1 DEF Inv, ResultsKept, KeptRight
<1>. QED BY <1>7, <1>8, <1>9, <1>11, <1>12 DEF Inv
-----------------------------------------------------------------------------
LEMMA StutterInv == Inv /\ UNCHANGED vars => Inv'
<1>. SUFFICES ASSUME Inv, UNCHANGED vars PROVE Inv'
  OBVIOUS
<1>1. UNCHANGED <<table, disk, child, handler, client, req, resp, given>>
  BY DEF vars, conns
<1>2. Loaded' = Loaded /\ Snapshot' = Snapshot /\ \A w \in Workers : Owned(w)' = Owned(w)
  BY <1>1, SameTable DEF Snapshot, table
<1>3. Types'
  BY <1>1, <1>2 DEF Inv, Types, table, disk
<1>4. OneAtATime' /\ Handling' /\ OneTaskEach'
  BY <1>1, <1>2 DEF Inv, OneAtATime, Idle, Handling, OneTaskEach, IsOpen, table
<1>5. OpenHasNoOwner'
  BY <1>1, <1>2 DEF Inv, OpenHasNoOwner, Forgotten, table
<1>6. \A w \in Workers : PerWorker(w)'
  BY <1>1, <1>2, SameWorker DEF Inv
<1>7. FileRight' /\ ResultsRight' /\ DoneHasResult' /\ KeptRight' /\ ResultsKept'
  BY <1>1, <1>2
  DEF Inv, FileRight, Writing, ResultsRight, DoneHasResult, Recorded, KeptRight, ResultsKept,
      table, disk
<1>. QED BY <1>3, <1>4, <1>5, <1>6, <1>7 DEF Inv

LEMMA UpdatesStep == ASSUME Inv, NEW w \in Workers, Updates(w) PROVE Inv'
BY TimedOutStep, ClaimAssignStep, ClaimOwnStep, CompleteStep, RecordStep, SaveStep, WriteStep,
   CheckAllStep, SayExitStep, ReleaseStep, FreeStep, ForgetStep, ExitStep
DEF Updates

LEMMA NextInv == ASSUME ~Overlap, Inv, [Next]_vars PROVE Inv'
<1>1. ASSUME NEW w \in Workers, Connect(w) \/ Die(w) PROVE Inv'
  BY <1>1, ConnectStep, DieStep
<1>2. ASSUME NEW w \in Workers, Worker(w) PROVE Inv'
  BY <1>2, AskStep, AnswerStep, ClientReadStep, ClientEOFStep DEF Worker
<1>3. ASSUME NEW w \in Workers, Requests(w) \/ TaskTimeout(w) PROVE Inv'
  BY <1>3, HandleStep, DisconnectStep, IdleTimeoutStep, TaskTimeoutStep DEF Requests
<1>4. ASSUME NEW w \in Workers, Updates(w) PROVE Inv'
  BY <1>4, UpdatesStep
<1>5. CASE handle_sigchld
  BY <1>5, ReapStep, SigScanStep, SigFreeStep, SigForgetStep DEF handle_sigchld
<1>6. CASE Restart
  BY <1>6, RestartStep
<1>7. CASE UNCHANGED vars
  BY <1>7, StutterInv
<1>. QED BY <1>1, <1>2, <1>3, <1>4, <1>5, <1>6, <1>7 DEF Next

LEMMA Invariance == ASSUME ~Overlap PROVE Spec => []Inv
<1>1. Inv /\ [Next]_vars => Inv'
  BY NextInv
<1>. QED BY <1>1, InitInv, PTL DEF Spec

(* When one request is finished before the next begins, what the children  *)
(* have handed out is what the table says, and a result is recorded for    *)
(* the task it was computed for, through timeouts, dead children and       *)
(* restarts (server.c, handle_client and handle_sigchld).                  *)
THEOREM TableRight == ASSUME ~Overlap PROVE Spec => [](TypeOK /\ GivenIsOwned /\ ResultsRight)
<1>1. Inv => TypeOK
  <2>. SUFFICES ASSUME Inv PROVE TypeOK
    OBVIOUS
  <2>1. /\ Loaded \in {Tasks, {}}
        /\ file = NoLines \/ file \in [Tasks -> Tasks \cup {NoTask}]
    BY LinesDomain DEF Inv, Types, Loaded, Results, Lines
  <2>2. \A w \in Workers : child[w].tries < MAX_TASK_REQUESTS \/ child[w].at # "loop"
    BY DEF Inv, PerWorker, Tries
  <2>. QED BY <2>1, <2>2 DEF Inv, Types, TypeOK, Results
<1>2. Inv => GivenIsOwned
  BY DEF Inv, PerWorker, Handed, Owned, GivenIsOwned
<1>3. Inv => ResultsRight
  BY DEF Inv
<1>. QED BY <1>1, <1>2, <1>3, Invariance, PTL

(* So a task is with one worker at a time (server.c, get_next_task).       *)
THEOREM WithOneWorker == ASSUME ~Overlap PROVE Spec => []OneHolder
<1>1. GivenIsOwned => OneHolder
  BY DEF GivenIsOwned, OneHolder
<1>. QED BY <1>1, TableRight, PTL

(* Then, too, the file holds every completed result whenever no request is *)
(* being served, and loses none that it ever held: neither a rewrite nor a *)
(* restart drops one (server.c, save_results_to_file and load_tasks).      *)
THEOREM FileFollowsTable == ASSUME ~Overlap PROVE Spec => [](FileCurrent /\ ResultsKept)
<1>1. Inv => FileCurrent
  BY NobodyAtWork DEF FileCurrent, Idle
<1>2. Inv => ResultsKept
  BY DEF Inv
<1>. QED BY <1>1, <1>2, Invariance, PTL
-----------------------------------------------------------------------------
(* The table as a board.                                                   *)
Holder    == [t \in Tasks |-> IF t \in Loaded /\ assigned[t] = 1 THEN client_pid[t] ELSE NoPid]
Completed == {t \in Loaded : assigned[t] = 2}

LEMMA BoardInit == Init => Board!Init
<1>. SUFFICES ASSUME Init PROVE Board!Init
  OBVIOUS
<1>1. Loaded = Tasks
  BY DEF Init, Loaded, Empty
<1>. QED BY <1>1 DEF Init, Board!Init

(* A step that the board does not see.                                     *)
LEMMA Unseen ==
  ASSUME Inv, UNCHANGED <<loaded, restarts>>,
         \A t \in Loaded : /\ assigned'[t] = assigned[t] /\ client_pid'[t] = client_pid[t]
                           \/ /\ {assigned[t], assigned'[t]} \subseteq {0, 1}
                              /\ assigned[t] = 0 \/ client_pid[t] = NoPid
                              /\ assigned'[t] = 0 \/ client_pid'[t] = NoPid
  PROVE  UNCHANGED Board!vars
<1>1. Loaded' = Loaded
  BY DEF Loaded
<1>2. Completed' = Completed
  BY <1>1 DEF Completed
<1>3. Holder' = Holder
  BY <1>1 DEF Holder
<1>. QED BY <1>2, <1>3 DEF Board!vars, Holder, Completed

LEMMA SameBoard == ASSUME Inv, UNCHANGED table PROVE UNCHANGED Board!vars
BY Unseen DEF table

LEMMA BoardClaim == ASSUME Inv, NEW w \in Workers, ClaimOwn(w) PROVE Board!Next
<1>0. PICK t : t = child[w].t
  OBVIOUS
<1>1. /\ child[w].at = "own" /\ client_pid' = [client_pid EXCEPT ![t] = w]
      /\ UNCHANGED <<assigned, loaded, restarts>>
  BY <1>0 DEF ClaimOwn, At
<1>2. ~Idle(w)
  BY <1>1 DEF Idle, Waiting
<1>3. /\ t \in Loaded /\ assigned[t] = 1 /\ client_pid[t] = NoPid
      /\ Owned(w) = {} /\ t \in Tasks
  BY <1>0, <1>1, <1>2, Alone, LoadedTasks DEF PerWorker, Working, Inv
<1>4. Loaded' = Loaded /\ client_pid'[t] = w /\ \A s \in Loaded \ {t} : client_pid'[s] = client_pid[s]
  BY <1>1, <1>3 DEF Inv, Types, Loaded
<1>5. Holder[t] = NoPid /\ t \notin Completed /\ \A s \in Tasks : Holder[s] # w
  BY <1>3, TaskQueueAssumption DEF Holder, Completed, Owned
<1>6. Holder' = [Holder EXCEPT ![t] = w]
  BY <1>1, <1>3, <1>4 DEF Holder
<1>7. Completed' = Completed
  BY <1>1, <1>4 DEF Completed
<1>8. Board!Claim(w, t)
  BY <1>1, <1>5, <1>6, <1>7 DEF Board!Claim, Holder, Completed
<1>. QED BY <1>3, <1>8 DEF Board!Next

(* A task that somebody owns is open or completed again.                   *)
LEMMA BoardEnds ==
  ASSUME Inv, NEW w \in Workers, NEW t \in Owned(w), NEW n \in {0, 2},
         assigned' = [assigned EXCEPT ![t] = n], UNCHANGED <<client_pid, loaded, restarts>>
  PROVE  Board!Next
<1>1. t \in Loaded /\ assigned[t] = 1 /\ client_pid[t] = w /\ t \in Tasks
  BY LoadedTasks DEF Owned, Inv
<1>2. Loaded' = Loaded /\ assigned'[t] = n /\ \A s \in Loaded \ {t} : assigned'[s] = assigned[s]
  BY <1>1 DEF Inv, Types, Loaded
<1>3. Holder[t] # NoPid
  BY <1>1, TaskQueueAssumption DEF Holder
<1>4. Holder' = [Holder EXCEPT ![t] = NoPid]
  <2>1. \A s \in Tasks : Holder'[s] = IF s = t THEN NoPid ELSE Holder[s]
    <3>1. n # 1
      OBVIOUS
    <3>. QED BY <1>1, <1>2, <3>1 DEF Holder
  <2>2. Holder = [s \in Tasks |-> Holder[s]] /\ Holder' = [s \in Tasks |-> Holder'[s]]
    BY DEF Holder
  <2>. QED BY <2>1, <2>2
<1>5. CASE n = 0
  <2>1. Completed' = Completed
    BY <1>1, <1>2, <1>5 DEF Completed
  <2>2. Board!Release(t)
    BY <1>3, <1>4, <2>1 DEF Board!Release, Holder, Completed
  <2>. QED BY <1>1, <2>2 DEF Board!Next
<1>6. CASE n = 2
  <2>1. Completed' = Completed \cup {t}
    BY <1>1, <1>2, <1>6 DEF Completed
  <2>2. Board!Complete(t)
    BY <1>3, <1>4, <2>1 DEF Board!Complete, Holder, Completed
  <2>. QED BY <1>1, <2>2 DEF Board!Next
<1>. QED BY <1>5, <1>6

LEMMA BoardUpdates ==
  ASSUME Inv, NEW w \in Workers, Updates(w)
  PROVE  [Board!Next]_(Board!vars)
<1>0. PICK t : t = child[w].t
  OBVIOUS
<1>1. CASE ClaimAssign(w)
  <2>1. /\ child[w].at = "claim" /\ assigned' = [assigned EXCEPT ![t] = 1]
        /\ UNCHANGED <<client_pid, loaded, restarts>>
    BY <1>0, <1>1 DEF ClaimAssign, At
  <2>2. t \in Loaded /\ assigned[t] = 0 /\ client_pid[t] = NoPid
    BY <1>0, <2>1, Alone DEF PerWorker, Working, IsOpen, Idle, Waiting
  <2>3. assigned'[t] = 1 /\ \A s \in Loaded \ {t} : assigned'[s] = assigned[s]
    BY <2>1, <2>2 DEF Inv, Types
  <2>. QED BY <2>1, <2>2, <2>3, Unseen
<1>2. CASE ClaimOwn(w)
  BY <1>2, BoardClaim
<1>3. CASE Complete(w) \/ Free(w)
  <2>1. /\ child[w].at \in {"complete", "free"} /\ UNCHANGED <<client_pid, loaded, restarts>>
        /\ \E n \in {0, 2} : assigned' = [assigned EXCEPT ![t] = n]
    BY <1>0, <1>3 DEF Complete, Free, At
  <2>2. t \in Owned(w)
    BY <1>0, <2>1, Alone DEF PerWorker, Working, Idle, Waiting
  <2>. QED BY <2>1, <2>2, BoardEnds
<1>4. CASE Record(w)
  BY <1>4, Unseen DEF Record
<1>5. CASE Forget(w)
  <2>1. /\ child[w].at = "forget" /\ client_pid' = [client_pid EXCEPT ![t] = NoPid]
        /\ UNCHANGED <<assigned, loaded, restarts>>
    BY <1>0, <1>5 DEF Forget, At
  <2>2. t \in Loaded /\ assigned[t] = 0
    BY <1>0, <2>1, Alone DEF PerWorker, Working, IsOpen, Idle, Waiting
  <2>3. \A s \in Loaded \ {t} : client_pid'[s] = client_pid[s]
    BY <2>1, <2>2 DEF Inv, Types
  <2>. QED BY <2>1, <2>2, <2>3, Unseen
<1>6. CASE UNCHANGED table
  BY <1>6, SameBoard
<1>7. \/ ClaimAssign(w) \/ ClaimOwn(w) \/ Complete(w) \/ Free(w) \/ Record(w) \/ Forget(w)
      \/ UNCHANGED table
  BY DEF Updates, TimedOut, Save, Write, CheckAll, SayExit, Release, Exit
<1>. QED BY <1>1, <1>2, <1>3, <1>4, <1>5, <1>6, <1>7

LEMMA BoardHandler ==
  ASSUME Inv, handle_sigchld
  PROVE  [Board!Next]_(Board!vars)
<1>1. CASE SigFree
  BY <1>1, HandlerFacts, BoardEnds DEF SigFree, Inv, Handling
<1>2. CASE SigForget
  <2>0. PICK t : t = handler.t
    OBVIOUS
  <2>1. /\ handler.at = "forget" /\ client_pid' = [client_pid EXCEPT ![t] = NoPid]
        /\ UNCHANGED <<assigned, loaded, restarts>>
    BY <1>2, <2>0 DEF SigForget
  <2>2. t \in Loaded /\ assigned[t] = 0
    BY <2>0, <2>1 DEF Inv, Handling, IsOpen
  <2>3. \A s \in Loaded \ {t} : client_pid'[s] = client_pid[s]
    BY <2>1, <2>2 DEF Inv, Types
  <2>. QED BY <2>1, <2>2, <2>3, Unseen
<1>3. CASE UNCHANGED table
  BY <1>3, SameBoard
<1>4. SigFree \/ SigForget \/ UNCHANGED table
  BY DEF handle_sigchld, Reap, SigScan
<1>. QED BY <1>1, <1>2, <1>3, <1>4

LEMMA BoardRestart == Inv /\ Restart => Board!Next
<1>. SUFFICES ASSUME Inv, Restart PROVE Board!Next
  OBVIOUS
<1>1. assigned' = [t \in DOMAIN file |-> 0] /\ Loaded' = DOMAIN file /\ restarts' = restarts + 1
  BY DEF Restart, load_tasks, Loaded
<1>2. \A t \in Loaded' : assigned'[t] = 0
  BY <1>1
<1>3. Holder' = [t \in Tasks |-> NoPid] /\ Completed' = {}
  BY <1>2 DEF Holder, Completed
<1>4. Board!Restart
  BY <1>1, <1>3 DEF Board!Restart, Holder, Completed
<1>. QED BY <1>4 DEF Board!Next

(* When one request is finished before the next begins, the table is a task*)
(* board: a claim finds the task open and its worker without one, and a    *)
(* held task is given back or completed, for good until a restart          *)
(* (server.c, handle_client and handle_sigchld).                           *)
THEOREM TableIsBoard == ASSUME ~Overlap PROVE Spec => BoardSpec
<1>1. ASSUME Inv, [Next]_vars PROVE [Board!Next]_(Board!vars)
  <2>1. ASSUME NEW w \in Workers, Connect(w) \/ Worker(w) \/ Requests(w) \/ TaskTimeout(w) \/ Die(w)
        PROVE  UNCHANGED table
    BY <2>1 DEF Connect, Worker, Ask, Answer, Send, ClientRead, ClientEOF, Requests, Handle,
                Disconnect, IdleTimeout, TaskTimeout, Die
  <2>2. CASE handle_sigchld
    BY <1>1, <2>2, BoardHandler
  <2>3. CASE UNCHANGED vars
    BY <1>1, <2>3, SameBoard DEF vars
  <2>4. ASSUME NEW w \in Workers, Updates(w) PROVE [Board!Next]_(Board!vars)
    BY <1>1, <2>4, BoardUpdates
  <2>. QED BY <1>1, <2>1, <2>2, <2>3, <2>4, SameBoard, BoardRestart DEF Next
<1>2. Inv /\ [Next]_vars => [Board!Next]_(Board!vars)
  BY <1>1
<1>. QED BY <1>2, BoardInit, Invariance, PTL DEF Spec, BoardSpec, Board!Spec
-----------------------------------------------------------------------------
(* Who will complete an assigned task or take it back: the child that is   *)
(* about to own it, its owner's child until it is reaped, or the handler   *)
(* that has reaped it.                                                     *)
Held(t) ==
  \/ \E w \in Workers : child[w].at = "own" /\ child[w].t = t
  \/ \E w \in Workers : client_pid[t] = w /\ child[w].at # "reaped"
  \/ handler.at # "idle" /\ client_pid[t] = handler.w
NoOrphan == \A t \in Loaded : assigned[t] = 1 => Held(t)

(* A step of child w that gives nobody a task.                             *)
LEMMA HeldMove ==
  ASSUME NoOrphan, NEW w \in Workers, loaded' = loaded, client_pid' = client_pid,
         \A t \in Loaded : assigned'[t] = 1 => assigned[t] = 1,
         handler' = handler, \A v \in Workers \ {w} : child'[v] = child[v],
         child'[w] = child[w] \/ (child[w].at # "own" /\ child'[w].at # "reaped")
  PROVE  NoOrphan'
<1>1. Loaded' = Loaded
  BY DEF Loaded
<1>. SUFFICES ASSUME NEW t \in Loaded, Held(t) PROVE Held(t)'
  BY <1>1 DEF NoOrphan
<1>2. CASE \E v \in Workers : child[v].at = "own" /\ child[v].t = t
  <2>1. PICK v \in Workers : child[v].at = "own" /\ child[v].t = t
    BY <1>2
  <2>2. child'[v] = child[v]
    BY <2>1
  <2>. QED BY <2>1, <2>2 DEF Held
<1>3. CASE \E v \in Workers : client_pid[t] = v /\ child[v].at # "reaped"
  <2>1. PICK v \in Workers : client_pid[t] = v /\ child[v].at # "reaped"
    BY <1>3
  <2>2. child'[v].at # "reaped"
    BY <2>1
  <2>. QED BY <2>1, <2>2 DEF Held
<1>4. CASE handler.at # "idle" /\ client_pid[t] = handler.w
  BY <1>4 DEF Held
<1>. QED BY <1>2, <1>3, <1>4 DEF Held

LEMMA HeldRequests ==
  ASSUME Inv, NoOrphan, NEW w \in Workers,
         Connect(w) \/ Worker(w) \/ Requests(w) \/ TaskTimeout(w) \/ Die(w)
  PROVE  NoOrphan'
<1>0. child \in [Workers -> ChildType]
  BY DEF Inv, Types
<1>1. CASE Worker(w)
  <2>1. UNCHANGED <<table, child, handler>>
    BY <1>1 DEF Worker, Ask, Answer, Send, ClientRead, ClientEOF
  <2>. QED BY <2>1, HeldMove DEF table
<1>2. CASE Handle(w)
  <2>1. /\ child[w].at = "loop" /\ UNCHANGED <<table, handler>>
        /\ GetTask(w) \/ (\E val : Result(w, val)) \/ child' = [child EXCEPT ![w].at = "release"]
    BY <1>2 DEF Handle
  <2>2. ASSUME NEW c, child' = [child EXCEPT ![w] = c], c.at # "reaped" PROVE NoOrphan'
    <3>1. child'[w] = c /\ \A v \in Workers \ {w} : child'[v] = child[v]
      BY <1>0, <2>2
    <3>. QED BY <2>1, <2>2, <3>1, HeldMove DEF table
  <2>3. child[w] \in ChildType
    BY <1>0
  <2>4. CASE GetTask(w)
    <3>. DEFINE n == child[w].tries + 1
    <3>1. CASE child' = [child EXCEPT ![w].at = "free", ![w].t = First(Owned(w)),
                                     ![w].then = "cleanup", ![w].tries = n]
      <4>. DEFINE c == [child[w] EXCEPT !.at = "free", !.t = First(Owned(w)),
                                        !.then = "cleanup", !.tries = n]
      <4>1. child' = [child EXCEPT ![w] = c]
        BY <3>1
      <4>2. c.at = "free"
        BY <2>1, <2>3 DEF ChildType
      <4>. HIDE DEF c
      <4>. QED BY <2>2, <4>1, <4>2
    <3>2. CASE child' = [child EXCEPT ![w].tries = n]
      <4>. DEFINE c == [child[w] EXCEPT !.tries = n]
      <4>1. child' = [child EXCEPT ![w] = c]
        BY <3>2
      <4>2. c.at = "loop"
        BY <2>1, <2>3 DEF ChildType
      <4>. HIDE DEF c
      <4>. QED BY <2>2, <4>1, <4>2
    <3>3. CASE child' = [child EXCEPT ![w].at = "claim", ![w].t = First(Open), ![w].tries = 0]
      <4>. DEFINE c == [child[w] EXCEPT !.at = "claim", !.t = First(Open), !.tries = 0]
      <4>1. child' = [child EXCEPT ![w] = c]
        BY <3>3
      <4>2. c.at = "claim"
        BY <2>1, <2>3 DEF ChildType
      <4>. HIDE DEF c
      <4>. QED BY <2>2, <4>1, <4>2
    <3>4. CASE child' = [child EXCEPT ![w].tries = 0]
      <4>. DEFINE c == [child[w] EXCEPT !.tries = 0]
      <4>1. child' = [child EXCEPT ![w] = c]
        BY <3>4
      <4>2. c.at = "loop"
        BY <2>1, <2>3 DEF ChildType
      <4>. HIDE DEF c
      <4>. QED BY <2>2, <4>1, <4>2
    <3>. QED BY <2>4, <3>1, <3>2, <3>3, <3>4 DEF GetTask
  <2>5. CASE \E val : Result(w, val)
    <3>. PICK val : Result(w, val)
      BY <2>5
    <3>1. CASE child' = [child EXCEPT ![w].at = "complete", ![w].t = First(Owned(w)),
                                     ![w].val = val, ![w].tries = 0]
      <4>. DEFINE c == [child[w] EXCEPT !.at = "complete", !.t = First(Owned(w)),
                                        !.val = val, !.tries = 0]
      <4>1. child' = [child EXCEPT ![w] = c]
        BY <3>1
      <4>2. c.at = "complete"
        BY <2>1, <2>3 DEF ChildType
      <4>. HIDE DEF c
      <4>. QED BY <2>2, <4>1, <4>2
    <3>2. CASE child' = [child EXCEPT ![w].at = "all"]
      <4>. DEFINE c == [child[w] EXCEPT !.at = "all"]
      <4>1. child' = [child EXCEPT ![w] = c]
        BY <3>2
      <4>2. c.at = "all"
        BY <2>1, <2>3 DEF ChildType
      <4>. HIDE DEF c
      <4>. QED BY <2>2, <4>1, <4>2
    <3>. QED BY <3>1, <3>2 DEF Result
  <2>6. CASE child' = [child EXCEPT ![w].at = "release"]
    <3>. DEFINE c == [child[w] EXCEPT !.at = "release"]
    <3>1. child' = [child EXCEPT ![w] = c]
      BY <2>6
    <3>2. c.at = "release"
      BY <2>3 DEF ChildType
    <3>. HIDE DEF c
    <3>. QED BY <2>2, <3>1, <3>2
  <2>. QED BY <2>1, <2>4, <2>5, <2>6
<1>3. CASE Connect(w) \/ Disconnect(w) \/ IdleTimeout(w) \/ TaskTimeout(w) \/ Die(w)
  <2>1. /\ child[w].at # "own" /\ UNCHANGED <<table, handler>>
        /\ \A v \in Workers \ {w} : child'[v] = child[v]
        /\ child'[w].at # "reaped"
    <3>1. CASE Connect(w)
      <4>1. child[w].at = "none"
        BY <3>1 DEF Connect, Inv, PerWorker
      <4>. QED BY <1>0, <3>1, <4>1 DEF Connect, ChildType
    <3>2. CASE Disconnect(w) \/ IdleTimeout(w) \/ TaskTimeout(w) \/ Die(w)
      BY <1>0, <3>2 DEF Disconnect, IdleTimeout, TaskTimeout, Die, ChildType
    <3>. QED BY <1>3, <3>1, <3>2
  <2>. QED BY <2>1, HeldMove DEF table
<1>. QED BY <1>1, <1>2, <1>3 DEF Requests

LEMMA HeldUpdates ==
  ASSUME Inv, NoOrphan, NEW w \in Workers, Updates(w)
  PROVE  NoOrphan'
<1>0. child \in [Workers -> ChildType] /\ PerWorker(w)
  BY DEF Inv, Types
<1>. DEFINE t == child[w].t
<1>1. CASE ClaimAssign(w)
  <2>1. /\ child[w].at = "claim" /\ child' = [child EXCEPT ![w].at = "own"]
        /\ assigned' = [assigned EXCEPT ![t] = 1]
        /\ UNCHANGED <<client_pid, loaded, handler>>
    BY <1>1 DEF ClaimAssign, At
  <2>2. Loaded' = Loaded /\ assigned \in [Loaded -> 0 .. 2]
    BY <2>1 DEF Loaded, Inv, Types
  <2>. SUFFICES ASSUME NEW s \in Loaded, assigned'[s] = 1 PROVE Held(s)'
    BY <2>2 DEF NoOrphan
  <2>3. CASE s = t
    <3>1. child'[w].at = "own" /\ child'[w].t = s
      BY <1>0, <2>1, <2>3 DEF ChildType
    <3>. QED BY <3>1 DEF Held
  <2>4. CASE s # t
    <3>1. Held(s)
      BY <2>1, <2>2, <2>4 DEF NoOrphan
    <3>2. \A v \in Workers : child'[v] = child[v] \/ (v = w /\ child'[v].at = "own")
      BY <1>0, <2>1
    <3>. QED BY <2>1, <3>1, <3>2 DEF Held
  <2>. QED BY <2>3, <2>4
<1>2. CASE ClaimOwn(w)
  <2>1. /\ child[w].at = "own" /\ child' = [child EXCEPT ![w].at = "loop"]
        /\ client_pid' = [client_pid EXCEPT ![t] = w]
        /\ UNCHANGED <<assigned, loaded, handler>>
    BY <1>2 DEF ClaimOwn, At
  <2>2. Loaded' = Loaded /\ client_pid \in [Loaded -> Workers \cup {NoPid}]
    BY <2>1 DEF Loaded, Inv, Types
  <2>. SUFFICES ASSUME NEW s \in Loaded, assigned[s] = 1 PROVE Held(s)'
    BY <2>1, <2>2 DEF NoOrphan
  <2>3. child'[w].at = "loop" /\ \A v \in Workers \ {w} : child'[v] = child[v]
    BY <1>0, <2>1
  <2>4. CASE s = t
    <3>1. client_pid'[s] = w
      BY <2>1, <2>2, <2>4
    <3>. QED BY <2>3, <3>1 DEF Held
  <2>5. CASE s # t
    <3>1. Held(s) /\ client_pid'[s] = client_pid[s]
      BY <2>1, <2>2, <2>5 DEF NoOrphan
    <3>2. CASE \E v \in Workers : child[v].at = "own" /\ child[v].t = s
      <4>1. PICK v \in Workers \ {w} : child[v].at = "own" /\ child[v].t = s
        BY <2>5, <3>2
      <4>2. child'[v] = child[v]
        BY <2>3
      <4>. QED BY <4>1, <4>2 DEF Held
    <3>3. CASE \E v \in Workers : client_pid[s] = v /\ child[v].at # "reaped"
      <4>1. PICK v \in Workers : client_pid[s] = v /\ child[v].at # "reaped"
        BY <3>3
      <4>2. child'[v].at # "reaped"
        BY <2>3, <4>1
      <4>. QED BY <3>1, <4>1, <4>2 DEF Held
    <3>4. CASE handler.at # "idle" /\ client_pid[s] = handler.w
      BY <2>1, <3>1, <3>4 DEF Held
    <3>. QED BY <3>1, <3>2, <3>3, <3>4 DEF Held
  <2>. QED BY <2>4, <2>5
<1>3. CASE Forget(w)
  <2>1. /\ child[w].at = "forget" /\ child' = [child EXCEPT ![w].at = child[w].then]
        /\ client_pid' = [client_pid EXCEPT ![t] = NoPid]
        /\ UNCHANGED <<assigned, loaded, handler>>
    BY <1>3 DEF Forget, At
  <2>2. Loaded' = Loaded /\ client_pid \in [Loaded -> Workers \cup {NoPid}]
    BY <2>1 DEF Loaded, Inv, Types
  <2>3. child[w].then # "reaped" /\ assigned[t] = 0
    BY <1>0, <2>1 DEF PerWorker, Tries, Working, IsOpen
  <2>4. child'[w].at # "reaped" /\ \A v \in Workers \ {w} : child'[v] = child[v]
    BY <1>0, <2>1, <2>3
  <2>. SUFFICES ASSUME NEW s \in Loaded, assigned[s] = 1 PROVE Held(s)'
    BY <2>1, <2>2 DEF NoOrphan
  <2>5. Held(s) /\ client_pid'[s] = client_pid[s]
    BY <2>1, <2>2, <2>3 DEF NoOrphan
  <2>6. CASE \E v \in Workers : child[v].at = "own" /\ child[v].t = s
    <3>1. PICK v \in Workers \ {w} : child[v].at = "own" /\ child[v].t = s
      BY <2>1, <2>6
    <3>2. child'[v] = child[v]
      BY <2>4
    <3>. QED BY <3>1, <3>2 DEF Held
  <2>7. CASE \E v \in Workers : client_pid[s] = v /\ child[v].at # "reaped"
    <3>1. PICK v \in Workers : client_pid[s] = v /\ child[v].at # "reaped"
      BY <2>7
    <3>2. child'[v].at # "reaped"
      BY <2>4, <3>1
    <3>. QED BY <2>5, <3>1, <3>2 DEF Held
  <2>8. CASE handler.at # "idle" /\ client_pid[s] = handler.w
    BY <2>1, <2>5, <2>8 DEF Held
  <2>. QED BY <2>5, <2>6, <2>7, <2>8 DEF Held
<1>4. CASE Complete(w) \/ Free(w)
  <2>1. /\ child[w].at \in {"complete", "free"} /\ UNCHANGED <<client_pid, loaded, handler>>
        /\ child'[w].at \in {"record", "forget"}
        /\ \A v \in Workers \ {w} : child'[v] = child[v]
        /\ \E n \in {0, 2} : assigned' = [assigned EXCEPT ![t] = n]
    BY <1>0, <1>4 DEF Complete, Free, At, ChildType
  <2>2. PICK n \in {0, 2} : assigned' = [assigned EXCEPT ![t] = n]
    BY <2>1
  <2>3. assigned \in [Loaded -> 0 .. 2]
    BY DEF Inv, Types
  <2>4. \A s \in Loaded : assigned'[s] = 1 => assigned[s] = 1
    BY <2>2, <2>3
  <2>. QED BY <2>1, <2>4, HeldMove
<1>5. CASE \/ Record(w) \/ TimedOut(w) \/ Save(w) \/ Write(w) \/ CheckAll(w) \/ SayExit(w)
           \/ Release(w) \/ Exit(w)
  <2>1. UNCHANGED <<assigned, client_pid, loaded, handler>>
    BY <1>5 DEF Record, TimedOut, Save, Write, CheckAll, SayExit, Release, Exit, table
  <2>2. /\ child[w].at # "own" /\ child'[w].at # "reaped"
        /\ \A v \in Workers \ {w} : child'[v] = child[v]
    <3>1. CASE Record(w) \/ TimedOut(w) \/ Save(w) \/ Write(w) \/ CheckAll(w) \/ Exit(w)
      BY <1>0, <3>1 DEF Record, TimedOut, Save, Write, CheckAll, Exit, At, ChildType
    <3>2. CASE SayExit(w)
      <4>1. child[w].at = "bye" /\ child' = [child EXCEPT ![w].at = child[w].then]
        BY <3>2 DEF SayExit, At
      <4>2. child[w].then # "reaped"
        BY <1>0, <4>1 DEF PerWorker, Tries
      <4>. QED BY <1>0, <4>1, <4>2
    <3>3. CASE Release(w)
      BY <1>0, <3>3 DEF Release
    <3>. QED BY <1>5, <3>1, <3>2, <3>3
  <2>. QED BY <2>1, <2>2, HeldMove
<1>. QED BY <1>1, <1>2, <1>3, <1>4, <1>5 DEF Updates

LEMMA HeldHandler == ASSUME Inv, NoOrphan, handle_sigchld PROVE NoOrphan'
<1>0. /\ child \in [Workers -> ChildType] /\ handler \in HandlerType
      /\ assigned \in [Loaded -> 0 .. 2] /\ client_pid \in [Loaded -> Workers \cup {NoPid}]
  BY DEF Inv, Types
<1>1. ASSUME NEW w \in Workers, Reap(w) PROVE NoOrphan'
  <2>1. /\ handler.at = "idle" /\ child[w].at = "zombie"
        /\ handler'.at = "scan" /\ handler'.w = w
        /\ \A v \in Workers \ {w} : child'[v] = child[v]
        /\ UNCHANGED <<assigned, client_pid, loaded>> /\ Loaded' = Loaded
    BY <1>0, <1>1 DEF Reap, table, Loaded
  <2>. SUFFICES ASSUME NEW s \in Loaded, Held(s) PROVE Held(s)'
    BY <2>1 DEF NoOrphan
  <2>2. CASE \E v \in Workers : child[v].at = "own" /\ child[v].t = s
    <3>1. PICK v \in Workers : child[v].at = "own" /\ child[v].t = s
      BY <2>2
    <3>2. child'[v] = child[v]
      BY <2>1, <3>1
    <3>. QED BY <3>1, <3>2 DEF Held
  <2>3. CASE \E v \in Workers : client_pid[s] = v /\ child[v].at # "reaped"
    <3>1. PICK v \in Workers : client_pid[s] = v /\ child[v].at # "reaped"
      BY <2>3
    <3>2. CASE v = w
      BY <2>1, <3>1, <3>2 DEF Held
    <3>3. CASE v # w
      <4>1. child'[v].at # "reaped"
        BY <2>1, <3>1, <3>3
      <4>. QED BY <2>1, <3>1, <4>1 DEF Held
    <3>. QED BY <3>2, <3>3
  <2>. QED BY <2>1, <2>2, <2>3 DEF Held
<1>2. ASSUME UNCHANGED <<loaded, child>>, handler'.at # "idle", handler'.w = handler.w,
             handler.at # "idle",
             \A s \in Loaded : assigned'[s] = 1 => assigned[s] = 1 /\ client_pid'[s] = client_pid[s]
      PROVE  NoOrphan'
  <2>1. Loaded' = Loaded
    BY <1>2 DEF Loaded
  <2>. SUFFICES ASSUME NEW s \in Loaded, assigned'[s] = 1 PROVE Held(s)'
    BY <2>1 DEF NoOrphan
  <2>2. Held(s) /\ client_pid'[s] = client_pid[s]
    BY <1>2 DEF NoOrphan
  <2>. QED BY <1>2, <2>2 DEF Held
<1>3. CASE SigScan /\ Owned(handler.w) # {}
  <2>1. handler.at = "scan" /\ UNCHANGED <<assigned, client_pid, loaded, child>>
        /\ handler'.at = "free" /\ handler'.w = handler.w
    BY <1>0, <1>3 DEF SigScan, table, HandlerType
  <2>. QED BY <1>2, <2>1
<1>4. CASE SigScan /\ Owned(handler.w) = {}
  <2>1. UNCHANGED <<assigned, client_pid, loaded, child>> /\ Loaded' = Loaded
    BY <1>4 DEF SigScan, table, Loaded
  <2>. SUFFICES ASSUME NEW s \in Loaded, assigned[s] = 1 PROVE Held(s)'
    BY <2>1 DEF NoOrphan
  <2>2. Held(s) /\ client_pid[s] # handler.w
    BY <1>4 DEF NoOrphan, Owned
  <2>. QED BY <2>1, <2>2 DEF Held
<1>5. CASE SigFree
  <2>1. /\ handler.at = "free" /\ assigned' = [assigned EXCEPT ![handler.t] = 0]
        /\ UNCHANGED <<client_pid, loaded, child>>
        /\ handler' = [handler EXCEPT !.at = "forget"]
    BY <1>5 DEF SigFree
  <2>2. \A s \in Loaded : assigned'[s] = 1 => assigned[s] = 1
    BY <1>0, <2>1
  <2>3. handler'.at = "forget" /\ handler'.w = handler.w
    BY <1>0, <2>1 DEF HandlerType
  <2>. QED BY <1>2, <2>1, <2>2, <2>3
<1>6. CASE SigForget
  <2>1. /\ handler.at = "forget" /\ client_pid' = [client_pid EXCEPT ![handler.t] = NoPid]
        /\ UNCHANGED <<assigned, loaded, child>>
        /\ handler' = [handler EXCEPT !.at = "scan"]
    BY <1>6 DEF SigForget
  <2>2. assigned[handler.t] = 0
    BY <2>1 DEF Inv, Handling, IsOpen
  <2>3. \A s \in Loaded : assigned'[s] = 1 => assigned[s] = 1 /\ client_pid'[s] = client_pid[s]
    BY <1>0, <2>1, <2>2
  <2>4. handler'.at = "scan" /\ handler'.w = handler.w
    BY <1>0, <2>1 DEF HandlerType
  <2>. QED BY <1>2, <2>1, <2>3, <2>4
<1>. QED BY <1>1, <1>3, <1>4, <1>5, <1>6 DEF handle_sigchld, SigScan

(* When one request is finished before the next begins, nothing that can   *)
(* happen to a worker leaves its task assigned to nobody: as long as the   *)
(* table shows a task as assigned, there is a child that has it and is not *)
(* yet reaped, or the SIGCHLD handler is at work on it (server.c,          *)
(* handle_client and handle_sigchld).  This is what NoTaskStuck rests on.  *)
THEOREM NoTaskOrphaned == ASSUME ~Overlap PROVE Spec => []NoOrphan
<1>1. Init => NoOrphan
  BY DEF Init, NoOrphan, Loaded, Empty
<1>2. ASSUME Inv, NoOrphan, [Next]_vars PROVE NoOrphan'
  <2>1. CASE Restart
    <3>1. Loaded' = DOMAIN file /\ assigned' = [t \in DOMAIN file |-> 0]
      BY <2>1 DEF Restart, load_tasks, Loaded
    <3>. QED BY ONLY <3>1 DEF NoOrphan
  <2>2. CASE UNCHANGED vars
    <3>1. UNCHANGED <<assigned, client_pid, loaded, child, handler>>
      BY <2>2 DEF vars, table
    <3>. QED BY <1>2, <3>1 DEF NoOrphan, Held, Loaded
  <2>. QED BY <1>2, <2>1, <2>2, HeldRequests, HeldUpdates, HeldHandler DEF Next
<1>3. Inv /\ NoOrphan /\ [Next]_vars => NoOrphan'
  BY <1>2
<1>. QED BY <1>1, <1>3, Invariance, PTL DEF Spec
-----------------------------------------------------------------------------
(* With no order between the children.  A task that is named in a message  *)
(* is one of the file, the refusals are counted, and a completed task has a*)
(* result or its child is about to record one.                             *)
TaskMsg == {m \in MsgType : m.m \in {"Task", "RESULT"} => m.t \in Tasks}
Counted(c) ==
  /\ \/ c.tries < MAX_TASK_REQUESTS
     \/ c.at \in {"free", "forget"} /\ c.then = "cleanup"
     \/ c.at \in {"cleanup", "exit", "zombie", "reaped"}
  /\ c.at \in {"free", "forget"} => c.then \in {"timeout", "release", "cleanup"}
  /\ c.at = "bye" => c.then \in {"loop", "release"}
Named(c, k) ==
  /\ c.at \in {"claim", "own"} => c.t \in Tasks
  /\ c.at \in {"complete", "record"} => c.val \in Tasks
  /\ k.at = "work" => k.t \in Tasks
  /\ k.at = "start" => c.at = "none"
DoneHasSome == \A t \in Loaded : assigned[t] = 2 => result[t] # NoTask \/ Recorded(t)
Loose ==
  /\ Types /\ DoneHasSome
  /\ req \in [Workers -> Seq(TaskMsg)] /\ resp \in [Workers -> Seq(TaskMsg)]
  /\ \A w \in Workers : Counted(child[w]) /\ Named(child[w], client[w])

LEMMA TaskMsgs == ASSUME NEW s \in Seq(TaskMsg) PROVE s \in Seq(MsgType)
<1>1. TaskMsg \subseteq MsgType
  BY DEF TaskMsg
<1>. QED BY <1>1

LEMMA WordTask ==
  ASSUME NEW m \in {"GET_TASK", "exit", "No tasks", "Error", "Result"}
  PROVE  Word(m) \in TaskMsg
BY WordType DEF TaskMsg

LEMMA MsgTask ==
  ASSUME NEW m \in {"Task", "RESULT"}, NEW t \in Tasks
  PROVE  Msg(m, t) \in TaskMsg
BY NoTaskIsNone DEF TaskMsg, MsgType, Msg

LEMMA LooseInit == Init => Loose
<1>. SUFFICES ASSUME Init PROVE Loose
  OBVIOUS
<1>1. Types
  BY InitInv DEF Inv
<1>2. DoneHasSome
  BY DEF Init, DoneHasSome, Loaded, Empty
<1>3. req \in [Workers -> Seq(TaskMsg)] /\ resp \in [Workers -> Seq(TaskMsg)]
  BY DEF Init
<1>4. ASSUME NEW w \in Workers PROVE Counted(child[w]) /\ Named(child[w], client[w])
  <2>1. child[w].at = "none" /\ child[w].tries = 0 /\ client[w].at = "start"
    BY DEF Init
  <2>. QED BY <2>1, TaskQueueAssumption DEF Counted, Named
<1>. QED BY <1>1, <1>2, <1>3, <1>4 DEF Loose

(* A step of child w, to the record c, of its client, to k, or of both.    *)
LEMMA LooseStep ==
  ASSUME Loose, NEW w \in Workers, NEW c \in ChildType, NEW k \in ClientType,
         child' = [child EXCEPT ![w] = c], client' = [client EXCEPT ![w] = k],
         loaded' = loaded, assigned' \in [Loaded -> 0 .. 2],
         client_pid' \in [Loaded -> Workers \cup {NoPid}], result' \in [Loaded -> Results],
         file' \in Lines, kept' \in SUBSET Tasks, handler' \in HandlerType,
         req' \in [Workers -> Seq(TaskMsg)], resp' \in [Workers -> Seq(TaskMsg)],
         given' \in [Workers -> SUBSET Tasks],
         Counted(c), Named(c, k), DoneHasSome'
  PROVE  Loose'
<1>1. /\ child' \in [Workers -> ChildType] /\ child'[w] = c
      /\ \A v \in Workers \ {w} : child'[v] = child[v]
  BY DEF Loose, Types
<1>2. /\ client' \in [Workers -> ClientType] /\ client'[w] = k
      /\ \A v \in Workers \ {w} : client'[v] = client[v]
  BY DEF Loose, Types
<1>3. Loaded' = Loaded
  BY DEF Loaded
<1>4. req' \in [Workers -> Seq(MsgType)] /\ resp' \in [Workers -> Seq(MsgType)]
  BY TaskMsgs
<1>5. loaded \in Lines
  BY DEF Loose, Types
<1>6. Types'
  BY <1>1, <1>2, <1>3, <1>4, <1>5 DEF Types
<1>7. ASSUME NEW v \in Workers PROVE Counted(child'[v]) /\ Named(child'[v], client'[v])
  <2>1. CASE v = w
    BY <1>1, <1>2, <2>1
  <2>2. CASE v # w
    BY <1>1, <1>2, <2>2 DEF Loose
  <2>. QED BY <2>1, <2>2
<1>. QED BY <1>6, <1>7 DEF Loose

(* One that leaves the table alone.                                        *)
LEMMA LooseMove ==
  ASSUME Loose, NEW w \in Workers, NEW c \in ChildType, NEW k \in ClientType,
         child' = [child EXCEPT ![w] = c], client' = [client EXCEPT ![w] = k],
         UNCHANGED table, c = child[w] \/ child[w].at # "record",
         file' \in Lines, kept' \in SUBSET Tasks, handler' \in HandlerType,
         req' \in [Workers -> Seq(TaskMsg)], resp' \in [Workers -> Seq(TaskMsg)],
         given' \in [Workers -> SUBSET Tasks],
         Counted(c), Named(c, k)
  PROVE  Loose'
<1>1. /\ loaded' = loaded /\ assigned' = assigned /\ client_pid' = client_pid
      /\ result' = result /\ Loaded' = Loaded
  BY DEF table, Loaded
<1>2. child'[w] = c /\ \A v \in Workers \ {w} : child'[v] = child[v]
  BY DEF Loose, Types
<1>3. ASSUME NEW t \in Loaded, Recorded(t) PROVE Recorded(t)'
  <2>1. PICK v \in Workers : child[v].at = "record" /\ child[v].t = t
    BY <1>3 DEF Recorded
  <2>2. child'[v] = child[v]
    BY <1>2, <2>1
  <2>. QED BY <2>1, <2>2 DEF Recorded
<1>4. DoneHasSome'
  BY <1>1, <1>3 DEF Loose, DoneHasSome
<1>5. /\ assigned' \in [Loaded -> 0 .. 2]
      /\ client_pid' \in [Loaded -> Workers \cup {NoPid}] /\ result' \in [Loaded -> Results]
  BY <1>1 DEF Loose, Types
<1>. QED BY <1>1, <1>4, <1>5, LooseStep

LEMMA LooseParts ==
  ASSUME Loose, NEW w \in Workers
  PROVE  /\ child[w] \in ChildType /\ client[w] \in ClientType
         /\ child = [child EXCEPT ![w] = child[w]]
         /\ client = [client EXCEPT ![w] = client[w]]
         /\ Counted(child[w]) /\ Named(child[w], client[w])
         /\ file \in Lines /\ kept \in SUBSET Tasks /\ handler \in HandlerType
         /\ req \in [Workers -> Seq(TaskMsg)] /\ resp \in [Workers -> Seq(TaskMsg)]
         /\ given \in [Workers -> SUBSET Tasks]
BY DEF Loose, Types

LEMMA LooseReply ==
  ASSUME Loose, NEW w \in Workers, NEW m \in TaskMsg, Reply(w, m)
  PROVE  resp' \in [Workers -> Seq(TaskMsg)]
BY DEF Reply, Loose

LEMMA OwnedFirst ==
  ASSUME Types, NEW w \in Workers, Owned(w) # {}
  PROVE  First(Owned(w)) \in Tasks
<1>1. Owned(w) \in SUBSET Tasks
  BY LoadedTasks DEF Owned
<1>. QED BY <1>1, FirstIsOne

(* A step of a client.                                                     *)
LEMMA LooseClient ==
  ASSUME Loose, NEW w \in Workers, NEW k \in ClientType,
         client' = [client EXCEPT ![w] = k], UNCHANGED <<table, disk, child, handler, given>>,
         req' \in [Workers -> Seq(TaskMsg)], resp' \in [Workers -> Seq(TaskMsg)],
         k.at # "start", k.at = "work" => k.t \in Tasks
  PROVE  Loose'
<1>1. Named(child[w], k)
  BY LooseParts DEF Named
<1>2. UNCHANGED <<file, kept>>
  BY DEF disk
<1>. QED BY <1>1, <1>2, LooseParts, LooseMove

(* A step of a child between the writes of the table and of the file.      *)
LEMMA LooseChild ==
  ASSUME Loose, NEW w \in Workers, NEW c \in ChildType,
         child' = [child EXCEPT ![w] = c], UNCHANGED <<table, disk, handler, client, given>>,
         child[w].at \notin {"none", "record"}, Counted(c),
         client[w].at # "start" => Named(c, client[w]),
         req' \in [Workers -> Seq(TaskMsg)], resp' \in [Workers -> Seq(TaskMsg)]
  PROVE  Loose'
<1>1. UNCHANGED <<file, kept>>
  BY DEF disk
<1>2. client[w].at # "start"
  BY LooseParts DEF Named
<1>. QED BY <1>1, <1>2, LooseParts, LooseMove

LEMMA LooseSend ==
  ASSUME Loose, NEW w \in Workers, NEW m \in TaskMsg, NEW at \in {"wait", "listen", "ack"},
         Send(w, m, at)
  PROVE  Loose'
<1>. DEFINE k == [client[w] EXCEPT !.at = at]
<1>1. k \in ClientType /\ k.at \notin {"start", "work"}
  BY LooseParts DEF ClientType
<1>2. /\ client' = [client EXCEPT ![w] = k] /\ UNCHANGED <<table, disk, child, handler, given>>
      /\ req' \in [Workers -> Seq(TaskMsg)] /\ resp' \in [Workers -> Seq(TaskMsg)]
  BY DEF Send, Loose
<1>. QED BY <1>1, <1>2, LooseClient

LEMMA LooseRead == ASSUME Loose, NEW w \in Workers, ClientRead(w) PROVE Loose'
<1>. DEFINE m == Head(resp[w])
            k == AfterRead(w, m)
<1>1. resp[w] \in Seq(TaskMsg) /\ resp[w] # <<>>
  BY DEF ClientRead, Loose
<1>2. m \in TaskMsg
  BY <1>1
<1>3. /\ client' = [client EXCEPT ![w] = k] /\ UNCHANGED <<table, disk, child, handler, given>>
      /\ resp' \in [Workers -> Seq(TaskMsg)]
  BY DEF ClientRead, Loose
<1>4. req' \in [Workers -> Seq(TaskMsg)]
  <2>1. req' = [req EXCEPT ![w] = Append(@, Word("exit"))] \/ req' = req
    BY DEF ClientRead
  <2>2. Word("exit") \in TaskMsg /\ req \in [Workers -> Seq(TaskMsg)]
    BY WordTask DEF Loose
  <2>. HIDE DEF m, k
  <2>. QED BY SMTT(30), <2>1, <2>2
<1>5. k \in ClientType /\ k.at # "start" /\ (k.at = "work" => k.t \in Tasks)
  <2>1. \/ k = [at |-> "closed", t |-> NoTask]
        \/ k = client[w] /\ client[w].at \notin {"start", "work"}
        \/ k = [at |-> "ask", t |-> NoTask]
        \/ m.m = "Task" /\ k = [at |-> "work", t |-> m.t]
    <3>1. client[w].at \notin {"start", "work"}
      BY DEF ClientRead
    <3>2. CASE Leaves(w, m.m)
      BY <3>2 DEF AfterRead
    <3>3. CASE ~Leaves(w, m.m) /\ w \in Silent
      <4>1. w \notin Normal
        BY <3>3, TaskQueueAssumption
      <4>2. k = client[w]
        BY <3>3, <4>1 DEF AfterRead
      <4>. HIDE DEF k, m
      <4>. QED BY <3>1, <4>2
    <3>4. CASE ~Leaves(w, m.m) /\ w \notin Silent
      <4>. DEFINE works == w \in Normal /\ client[w].at = "wait" /\ m.m = "Task"
      <4>1. CASE works
        BY <3>4, <4>1 DEF AfterRead
      <4>2. CASE ~works
        BY <3>4, <4>2 DEF AfterRead
      <4>. QED BY <4>1, <4>2
    <3>. QED BY <3>2, <3>3, <3>4
  <2>2. m.m = "Task" => m.t \in Tasks
    BY <1>2 DEF TaskMsg
  <2>. HIDE DEF k, m
  <2>. QED BY <2>1, <2>2, LooseParts, NoTaskIsNone DEF ClientType
<1>. HIDE DEF k, m
<1>. QED BY <1>3, <1>4, <1>5, LooseClient

LEMMA LooseWorker == ASSUME Loose, NEW w \in Workers, Worker(w) PROVE Loose'
<1>1. CASE Ask(w)
  BY <1>1, LooseSend, WordTask DEF Ask
<1>2. CASE Answer(w)
  <2>1. client[w].t \in Tasks
    BY <1>2, LooseParts DEF Answer, Named
  <2>2. Msg("RESULT", client[w].t) \in TaskMsg
    BY <2>1, MsgTask
  <2>. QED BY <1>2, <2>2, LooseSend DEF Answer
<1>3. CASE ClientRead(w)
  BY <1>3, LooseRead
<1>4. CASE ClientEOF(w)
  <2>1. [at |-> "closed", t |-> NoTask] \in ClientType
    BY NoTaskIsNone DEF ClientType
  <2>2. req' \in [Workers -> Seq(TaskMsg)] /\ resp' \in [Workers -> Seq(TaskMsg)]
    BY <1>4 DEF ClientEOF, conns, Loose
  <2>. QED BY <1>4, <2>1, <2>2, LooseClient DEF ClientEOF
<1>. QED BY <1>1, <1>2, <1>3, <1>4 DEF Worker

LEMMA LooseConnect == ASSUME Loose, NEW w \in Workers, Connect(w) PROVE Loose'
<1>1. PICK at \in {"ask"} \cup (IF w \in Silent THEN {"listen"} ELSE {}) :
        client' = [client EXCEPT ![w].at = at]
  BY DEF Connect
<1>. DEFINE c == [child[w] EXCEPT !.at = "loop"]
            k == [client[w] EXCEPT !.at = at]
<1>2. /\ UNCHANGED <<table, disk, handler, given, req, resp>>
      /\ child' = [child EXCEPT ![w] = c] /\ client' = [client EXCEPT ![w] = k]
  BY <1>1 DEF Connect, conns
<1>3. at \in {"ask", "listen"}
  BY <1>1
<1>4. k \in ClientType /\ k.at = at
  BY <1>3, LooseParts DEF ClientType
<1>5. c \in ChildType /\ c.at = "loop" /\ c.tries = child[w].tries
  BY LooseParts DEF ChildType, ChildPlaces
<1>. HIDE DEF c, k
<1>6. Counted(c) /\ Named(c, k)
  <2>1. client[w].at = "start" /\ Named(child[w], client[w]) /\ Counted(child[w])
    BY LooseParts DEF Connect
  <2>2. child[w].at = "none" /\ c.tries < MAX_TASK_REQUESTS
    BY <1>5, <2>1 DEF Named, Counted
  <2>. QED BY <2>2,  <1>3, <1>4, <1>5, LooseParts DEF Counted, Named
<1>7. UNCHANGED <<file, kept>> /\ child[w].at # "record"
  <2>1. client[w].at = "start" /\ Named(child[w], client[w])
    BY LooseParts DEF Connect
  <2>. QED BY <1>2, <2>1 DEF disk, Named
<1>. QED BY <1>2, <1>4, <1>5, <1>6, <1>7, LooseParts, LooseMove

(* The record of a child that goes to another place, and to another task.  *)
Leaving == {"cleanup", "exit", "zombie", "reaped"}
LEMMA GoesTo ==
  ASSUME Loose, NEW w \in Workers, child[w].at # "none",
         NEW at \in {"loop", "timeout", "save", "write", "all", "release",
                     "cleanup", "exit", "zombie", "reaped"},
         child[w].tries < MAX_TASK_REQUESTS \/ at \in Leaving
  PROVE  LET c == [child[w] EXCEPT !.at = at]
         IN  c \in ChildType /\ c.at = at /\ Counted(c) /\ Named(c, client[w])
<1>. DEFINE c == [child[w] EXCEPT !.at = at]
<1>1. c \in ChildType /\ c.at = at /\ c.tries = child[w].tries
  BY LooseParts DEF ChildType, ChildPlaces
<1>2. client[w].at # "start" /\ (client[w].at = "work" => client[w].t \in Tasks)
  BY LooseParts DEF Named
<1>. HIDE DEF c
<1>3. Counted(c) /\ Named(c, client[w])
  BY <1>1, <1>2 DEF Counted, Named, Leaving
<1>. QED BY <1>1, <1>3 DEF c

LEMMA FewTries ==
  ASSUME Loose, NEW w \in Workers,
         child[w].at \notin {"free", "forget", "cleanup", "exit", "zombie", "reaped"}
  PROVE  child[w].tries < MAX_TASK_REQUESTS
BY LooseParts DEF Counted

LEMMA LooseGetTask ==
  ASSUME Loose, NEW w \in Workers, child[w].at = "loop", GetTask(w),
         UNCHANGED <<table, disk, handler, client, given>>, req' \in [Workers -> Seq(TaskMsg)]
  PROVE  Loose'
<1>. DEFINE n == child[w].tries + 1
<1>1. /\ child[w] \in ChildType /\ client[w].at # "start"
      /\ client[w].at = "work" => client[w].t \in Tasks
  BY LooseParts DEF Named
<1>2. n \in Nat /\ 0 < MAX_TASK_REQUESTS /\ (~TooMany(n) => n < MAX_TASK_REQUESTS)
  BY <1>1, TaskQueueAssumption DEF ChildType, TooMany
<1>. HIDE DEF n
<1>3. CASE /\ Owned(w) # {}
           /\ Reply(w, Word("exit"))
           /\ child' = [child EXCEPT ![w].at = "free", ![w].t = First(Owned(w)),
                                     ![w].then = "cleanup", ![w].tries = n]
  <2>. DEFINE c == [child[w] EXCEPT !.at = "free", !.t = First(Owned(w)),
                                    !.then = "cleanup", !.tries = n]
  <2>1. First(Owned(w)) \in Results
    BY <1>3, OwnedFirst, NoTaskIsNone DEF Loose
  <2>2. child' = [child EXCEPT ![w] = c]
    BY <1>3
  <2>3. c \in ChildType /\ c.at = "free" /\ c.then = "cleanup"
    BY <1>1, <1>2, <2>1 DEF ChildType, ChildPlaces, Thens
  <2>. HIDE DEF c
  <2>4. Counted(c) /\ Named(c, client[w])
    BY <1>1, <2>3 DEF Counted, Named
  <2>. QED BY <1>3, <2>2, <2>3, <2>4, LooseReply, WordTask, LooseChild
<1>4. CASE /\ ~TooMany(n)
           /\ Reply(w, Word("Error"))
           /\ child' = [child EXCEPT ![w].tries = n]
  <2>. DEFINE c == [child[w] EXCEPT !.tries = n]
  <2>1. child' = [child EXCEPT ![w] = c]
    BY <1>4
  <2>2. c \in ChildType /\ c.at = "loop" /\ c.tries < MAX_TASK_REQUESTS
    BY <1>1, <1>2, <1>4 DEF ChildType
  <2>. HIDE DEF c
  <2>3. Counted(c) /\ Named(c, client[w])
    BY <1>1, <2>2 DEF Counted, Named
  <2>. QED BY <1>4, <2>1, <2>2, <2>3, LooseReply, WordTask, LooseChild
<1>5. CASE /\ Open # {}
           /\ child' = [child EXCEPT ![w].at = "claim", ![w].t = First(Open), ![w].tries = 0]
           /\ UNCHANGED resp
  <2>. DEFINE c == [child[w] EXCEPT !.at = "claim", !.t = First(Open), !.tries = 0]
  <2>1. First(Open) \in Tasks
    <3>1. Open \in SUBSET Tasks
      BY LoadedTasks DEF Loose, Open
    <3>. QED BY <1>5, <3>1, FirstIsOne
  <2>2. child' = [child EXCEPT ![w] = c]
    BY <1>5
  <2>3. c \in ChildType /\ c.at = "claim" /\ c.t \in Tasks /\ c.tries < MAX_TASK_REQUESTS
    BY <1>1, <1>2, <2>1, NoTaskIsNone DEF ChildType, ChildPlaces
  <2>. HIDE DEF c
  <2>4. Counted(c) /\ Named(c, client[w])
    BY <1>1, <2>3 DEF Counted, Named
  <2>5. resp' \in [Workers -> Seq(TaskMsg)]
    BY <1>5 DEF Loose
  <2>. QED BY <2>2, <2>3, <2>4, <2>5, LooseChild
<1>6. CASE /\ Reply(w, Word("No tasks"))
           /\ child' = [child EXCEPT ![w].tries = 0]
  <2>. DEFINE c == [child[w] EXCEPT !.tries = 0]
  <2>1. child' = [child EXCEPT ![w] = c]
    BY <1>6
  <2>2. c \in ChildType /\ c.at = "loop" /\ c.tries < MAX_TASK_REQUESTS
    BY <1>1, <1>2 DEF ChildType
  <2>. HIDE DEF c
  <2>3. Counted(c) /\ Named(c, client[w])
    BY <1>1, <2>2 DEF Counted, Named
  <2>. QED BY <1>6, <2>1, <2>2, <2>3, LooseReply, WordTask, LooseChild
<1>. QED BY <1>3, <1>4, <1>5, <1>6 DEF GetTask, n

LEMMA LooseResult ==
  ASSUME Loose, NEW w \in Workers, child[w].at = "loop", NEW val \in Tasks, Result(w, val),
         UNCHANGED <<table, disk, handler, client, given>>, req' \in [Workers -> Seq(TaskMsg)]
  PROVE  Loose'
<1>1. /\ child[w] \in ChildType /\ client[w].at # "start"
      /\ client[w].at = "work" => client[w].t \in Tasks
  BY LooseParts DEF Named
<1>2. 0 < MAX_TASK_REQUESTS
  BY TaskQueueAssumption
<1>3. CASE /\ Owned(w) # {}
           /\ child' = [child EXCEPT ![w].at = "complete", ![w].t = First(Owned(w)),
                                     ![w].val = val, ![w].tries = 0]
           /\ UNCHANGED resp
  <2>. DEFINE c == [child[w] EXCEPT !.at = "complete", !.t = First(Owned(w)),
                                    !.val = val, !.tries = 0]
  <2>1. First(Owned(w)) \in Results /\ val \in Results
    BY <1>3, OwnedFirst, NoTaskIsNone DEF Loose
  <2>2. child' = [child EXCEPT ![w] = c]
    BY <1>3
  <2>3. c \in ChildType /\ c.at = "complete" /\ c.val \in Tasks /\ c.tries < MAX_TASK_REQUESTS
    BY <1>1, <1>2, <2>1 DEF ChildType, ChildPlaces
  <2>. HIDE DEF c
  <2>4. Counted(c) /\ Named(c, client[w])
    BY <1>1, <2>3 DEF Counted, Named
  <2>5. resp' \in [Workers -> Seq(TaskMsg)]
    BY <1>3 DEF Loose
  <2>. QED BY <2>2, <2>3, <2>4, <2>5, LooseChild
<1>4. CASE /\ Reply(w, Word("Error"))
           /\ child' = [child EXCEPT ![w].at = "all"]
  <2>. DEFINE c == [child[w] EXCEPT !.at = "all"]
  <2>1. child' = [child EXCEPT ![w] = c]
    BY <1>4
  <2>2. c \in ChildType /\ Counted(c) /\ Named(c, client[w])
    BY FewTries, GoesTo
  <2>. HIDE DEF c
  <2>. QED BY <1>4, <2>1, <2>2, LooseReply, WordTask, LooseChild
<1>. QED BY <1>3, <1>4 DEF Result

(* A child that only goes to another place.                                *)
LEMMA LooseGoes ==
  ASSUME Loose, NEW w \in Workers, child[w].at \notin {"none", "record"},
         NEW at \in {"loop", "timeout", "save", "write", "all", "release",
                     "cleanup", "exit", "zombie", "reaped"},
         child[w].tries < MAX_TASK_REQUESTS \/ at \in Leaving,
         child' = [child EXCEPT ![w].at = at], UNCHANGED <<table, disk, handler, client>>,
         req' \in [Workers -> Seq(TaskMsg)], resp' \in [Workers -> Seq(TaskMsg)],
         given' \in [Workers -> SUBSET Tasks]
  PROVE  Loose'
<1>. DEFINE c == [child[w] EXCEPT !.at = at]
<1>1. c \in ChildType /\ Counted(c) /\ Named(c, client[w])
  BY GoesTo
<1>2. child' = [child EXCEPT ![w] = c] /\ UNCHANGED <<file, kept>>
  BY DEF disk
<1>. HIDE DEF c
<1>. QED BY <1>1, <1>2, LooseParts, LooseMove

LEMMA LooseRequests == ASSUME Loose, NEW w \in Workers, Requests(w) PROVE Loose'
<1>0. child[w].at = "loop" /\ child[w].tries < MAX_TASK_REQUESTS
  BY FewTries DEF Requests, Handle, Disconnect, IdleTimeout
<1>1. CASE Handle(w)
  <2>0. PICK m : m = Head(req[w])
    OBVIOUS
  <2>1. m \in TaskMsg /\ req' \in [Workers -> Seq(TaskMsg)]
    BY <1>1, <2>0 DEF Handle, Loose
  <2>2. /\ UNCHANGED <<table, disk, handler, client, given>>
        /\ \/ m.m = "GET_TASK" /\ GetTask(w)
           \/ m.m = "RESULT" /\ Result(w, m.t)
           \/ m.m = "exit" /\ child' = [child EXCEPT ![w].at = "release"] /\ UNCHANGED resp
    BY <1>1, <2>0 DEF Handle
  <2>3. CASE GetTask(w)
    BY <1>0, <2>1, <2>2, <2>3, LooseGetTask
  <2>4. CASE m.m = "RESULT" /\ Result(w, m.t)
    <3>1. m.t \in Tasks
      BY <2>1, <2>4 DEF TaskMsg
    <3>. QED BY <1>0, <2>1, <2>2, <2>4, <3>1, LooseResult
  <2>5. CASE child' = [child EXCEPT ![w].at = "release"] /\ UNCHANGED resp
    BY <1>0, <2>1, <2>2, <2>5, LooseParts, LooseGoes
  <2>. QED BY <2>2, <2>3, <2>4, <2>5
<1>2. CASE Disconnect(w)
  BY <1>0, <1>2, LooseParts, LooseGoes DEF Disconnect, conns
<1>3. CASE IdleTimeout(w)
  BY <1>0, <1>3, LooseParts, LooseGoes, LooseReply, WordTask DEF IdleTimeout
<1>. QED BY <1>1, <1>2, <1>3 DEF Requests

LEMMA LooseTimeout == ASSUME Loose, NEW w \in Workers, TaskTimeout(w) PROVE Loose'
<1>. DEFINE c == [child[w] EXCEPT !.at = "free", !.t = First(Owned(w)), !.then = "timeout"]
<1>1. First(Owned(w)) \in Results
  BY OwnedFirst, NoTaskIsNone DEF Loose, TaskTimeout
<1>2. child' = [child EXCEPT ![w] = c] /\ child[w].at = "loop"
  BY DEF TaskTimeout
<1>3. /\ c \in ChildType /\ c.at = "free" /\ c.then = "timeout"
      /\ c.tries < MAX_TASK_REQUESTS
  BY <1>1, <1>2, FewTries, LooseParts DEF ChildType, ChildPlaces, Thens
<1>. HIDE DEF c
<1>4. Counted(c) /\ Named(c, client[w])
  BY <1>2, <1>3, LooseParts DEF Counted, Named
<1>5. /\ UNCHANGED <<table, disk, handler, client, given>>
      /\ req' \in [Workers -> Seq(TaskMsg)] /\ resp' \in [Workers -> Seq(TaskMsg)]
  BY DEF TaskTimeout, conns, Loose
<1>. QED BY <1>2, <1>3, <1>4, <1>5, LooseChild

(* Where a release, or what is said before it, leads.                      *)
LEMMA GoesOn ==
  ASSUME Loose, NEW w \in Workers, child[w].at \in {"forget", "bye"}
  PROVE  /\ child[w].then \in {"loop", "timeout", "release", "cleanup"}
         /\ child[w].tries < MAX_TASK_REQUESTS \/ child[w].then \in Leaving
BY LooseParts DEF Counted, Leaving

(* The writes of the table.  A record of the child that only writes.       *)
LEMMA LooseWrites ==
  ASSUME Loose, NEW w \in Workers, NEW c \in ChildType,
         child' = [child EXCEPT ![w] = c], child[w].at # "none",
         UNCHANGED <<loaded, disk, handler, client, req>>,
         assigned' \in [Loaded -> 0 .. 2],
         client_pid' \in [Loaded -> Workers \cup {NoPid}], result' \in [Loaded -> Results],
         resp' \in [Workers -> Seq(TaskMsg)], given' \in [Workers -> SUBSET Tasks],
         Counted(c), Named(c, client[w]), DoneHasSome'
  PROVE  Loose'
<1>1. UNCHANGED <<file, kept>>
  BY DEF disk
<1>. QED BY <1>1, LooseParts, LooseStep

LEMMA OneWrite ==
  ASSUME NEW S, NEW T, NEW f \in [S -> T], NEW x, NEW y \in T
  PROVE  [f EXCEPT ![x] = y] \in [S -> T]
OBVIOUS

LEMMA WriteTypes ==
  ASSUME Loose, NEW t \in Results
  PROVE  /\ assigned \in [Loaded -> 0 .. 2] /\ result \in [Loaded -> Results]
         /\ client_pid \in [Loaded -> Workers \cup {NoPid}]
         /\ \A n \in 0 .. 2 : [assigned EXCEPT ![t] = n] \in [Loaded -> 0 .. 2]
         /\ \A p \in Workers \cup {NoPid} :
              [client_pid EXCEPT ![t] = p] \in [Loaded -> Workers \cup {NoPid}]
         /\ \A n \in Results : [result EXCEPT ![t] = n] \in [Loaded -> Results]
<1>1. /\ assigned \in [Loaded -> 0 .. 2] /\ result \in [Loaded -> Results]
      /\ client_pid \in [Loaded -> Workers \cup {NoPid}]
  BY DEF Loose, Types
<1>2. \A n \in 0 .. 2 : [assigned EXCEPT ![t] = n] \in [Loaded -> 0 .. 2]
  BY ONLY <1>1, OneWrite
<1>3. \A p \in Workers \cup {NoPid} :
        [client_pid EXCEPT ![t] = p] \in [Loaded -> Workers \cup {NoPid}]
  BY ONLY <1>1, OneWrite
<1>4. \A n \in Results : [result EXCEPT ![t] = n] \in [Loaded -> Results]
  BY ONLY <1>1, OneWrite
<1>. QED BY <1>1, <1>2, <1>3, <1>4

(* Nobody who was about to record a result has gone on without it.         *)
LEMMA StaysDone ==
  ASSUME Loose, NEW w \in Workers, NEW c, child' = [child EXCEPT ![w] = c],
         loaded' = loaded, result' = result, child[w].at # "record",
         \A t \in Loaded : assigned'[t] = 2 => assigned[t] = 2 \/ (c.at = "record" /\ c.t = t)
  PROVE  DoneHasSome'
<1>1. Loaded' = Loaded
  BY DEF Loaded
<1>2. child'[w] = c /\ \A v \in Workers \ {w} : child'[v] = child[v]
  BY DEF Loose, Types
<1>3. ASSUME NEW t \in Loaded, Recorded(t) PROVE Recorded(t)'
  <2>1. PICK v \in Workers : child[v].at = "record" /\ child[v].t = t
    BY <1>3 DEF Recorded
  <2>2. child'[v] = child[v]
    BY <1>2, <2>1
  <2>. QED BY <2>1, <2>2 DEF Recorded
<1>4. ASSUME NEW t \in Loaded, c.at = "record", c.t = t PROVE Recorded(t)'
  BY <1>2, <1>4 DEF Recorded
<1>. QED BY <1>1, <1>3, <1>4 DEF Loose, DoneHasSome

LEMMA LooseClaim ==
  ASSUME Loose, NEW w \in Workers, ClaimAssign(w) \/ ClaimOwn(w)
  PROVE  Loose'
<1>0. PICK t \in Results : t = child[w].t
  BY LooseParts DEF ChildType
<1>1. child[w].at \in {"claim", "own"} /\ t \in Tasks
  BY <1>0, LooseParts DEF ClaimAssign, ClaimOwn, At, Named
<1>2. child[w].tries < MAX_TASK_REQUESTS
  BY <1>1, FewTries
<1>3. CASE ClaimAssign(w)
  <2>. DEFINE c == [child[w] EXCEPT !.at = "own"]
  <2>1. /\ child' = [child EXCEPT ![w] = c] /\ assigned' = [assigned EXCEPT ![t] = 1]
        /\ UNCHANGED <<client_pid, result, loaded, disk, handler, client, conns, given>>
    BY <1>0, <1>3 DEF ClaimAssign, At
  <2>2. c \in ChildType /\ c.at = "own" /\ c.t = t /\ c.tries = child[w].tries
    BY <1>0, LooseParts DEF ChildType, ChildPlaces
  <2>. HIDE DEF c
  <2>3. Counted(c) /\ Named(c, client[w])
    BY <1>1, <1>2, <2>2, LooseParts DEF Counted, Named
  <2>4. \A s \in Loaded : assigned'[s] = 2 => assigned[s] = 2
    BY <2>1, WriteTypes
  <2>5. DoneHasSome'
    BY <1>1, <2>1, <2>4, StaysDone
  <2>6. req' = req /\ resp' \in [Workers -> Seq(TaskMsg)] /\ given' \in [Workers -> SUBSET Tasks]
    BY <2>1, LooseParts DEF conns
  <2>7. assigned' \in [Loaded -> 0 .. 2]
    BY <2>1, WriteTypes
  <2>. QED BY <2>7, <1>1, <2>1, <2>2, <2>3, <2>5, <2>6, WriteTypes, LooseWrites
<1>4. CASE ClaimOwn(w)
  <2>. DEFINE c == [child[w] EXCEPT !.at = "loop"]
  <2>1. /\ child' = [child EXCEPT ![w] = c] /\ client_pid' = [client_pid EXCEPT ![t] = w]
        /\ given' = [given EXCEPT ![w] = @ \cup {t}] /\ Reply(w, Msg("Task", t))
        /\ UNCHANGED <<assigned, result, loaded, disk, handler, client, req>>
    BY <1>0, <1>4 DEF ClaimOwn, At
  <2>2. c \in ChildType /\ Counted(c) /\ Named(c, client[w])
    BY <1>1, <1>2, GoesTo
  <2>. HIDE DEF c
  <2>3. DoneHasSome'
    BY <1>1, <2>1, StaysDone
  <2>4. resp' \in [Workers -> Seq(TaskMsg)]
    BY <1>1, <2>1, MsgTask, LooseReply
  <2>5. given' \in [Workers -> SUBSET Tasks]
    BY <1>1, <2>1, LooseParts
  <2>. QED BY <1>1, <2>1, <2>2, <2>3, <2>4, <2>5, WriteTypes, LooseWrites
<1>. QED BY <1>3, <1>4

LEMMA LooseComplete == ASSUME Loose, NEW w \in Workers, Complete(w) PROVE Loose'
<1>. DEFINE c == [child[w] EXCEPT !.at = "record"]
<1>0. PICK t \in Results : t = child[w].t
  BY LooseParts DEF ChildType
<1>1. /\ child' = [child EXCEPT ![w] = c] /\ assigned' = [assigned EXCEPT ![t] = 2]
      /\ child[w].at = "complete" /\ given' = [given EXCEPT ![w] = @ \ {t}]
      /\ UNCHANGED <<client_pid, result, loaded, disk, handler, client, conns>>
  BY <1>0 DEF Complete, At
<1>2. /\ c \in ChildType /\ c.at = "record" /\ c.t = t /\ c.tries = child[w].tries
      /\ c.val = child[w].val
  BY <1>0, LooseParts DEF ChildType, ChildPlaces
<1>. HIDE DEF c
<1>3. Counted(c) /\ Named(c, client[w])
  BY <1>1, <1>2, FewTries, LooseParts DEF Counted, Named
<1>4. \A s \in Loaded : assigned'[s] = 2 => assigned[s] = 2 \/ s = t
  BY <1>1, WriteTypes
<1>5. DoneHasSome'
  BY <1>1, <1>2, <1>4, StaysDone
<1>6. req' = req /\ resp' \in [Workers -> Seq(TaskMsg)] /\ given' \in [Workers -> SUBSET Tasks]
  BY <1>1, LooseParts DEF conns
<1>7. assigned' \in [Loaded -> 0 .. 2]
  BY <1>1, WriteTypes
<1>. QED BY <1>1, <1>2, <1>3, <1>5, <1>6, <1>7, WriteTypes, LooseWrites

LEMMA LooseRecord == ASSUME Loose, NEW w \in Workers, Record(w) PROVE Loose'
<1>. DEFINE c == [child[w] EXCEPT !.at = "save"]
<1>0. PICK t \in Results : t = child[w].t
  BY LooseParts DEF ChildType
<1>. DEFINE val == child[w].val
<1>1. /\ child' = [child EXCEPT ![w] = c] /\ result' = [result EXCEPT ![t] = val]
      /\ child[w].at = "record"
      /\ UNCHANGED <<assigned, client_pid, loaded, disk, handler, client, conns, given>>
  BY <1>0 DEF Record, At
<1>2. c \in ChildType /\ Counted(c) /\ Named(c, client[w])
  BY <1>1, FewTries, GoesTo
<1>3. val \in Tasks
  BY <1>0, <1>1, LooseParts DEF Named
<1>. HIDE DEF c, val
<1>4. DoneHasSome'
  <2>1. Loaded' = Loaded
    BY <1>1 DEF Loaded
  <2>. SUFFICES ASSUME NEW s \in Loaded, assigned[s] = 2 PROVE result'[s] # NoTask \/ Recorded(s)'
    BY <1>1, <2>1 DEF DoneHasSome
  <2>2. CASE s = t
    BY <1>1, <1>3, <2>2, WriteTypes, NoTaskIsNone
  <2>3. CASE s # t
    <3>1. result'[s] = result[s]
      BY <1>1, <2>3, WriteTypes
    <3>2. CASE Recorded(s)
      <4>1. PICK v \in Workers : child[v].at = "record" /\ child[v].t = s
        BY <3>2 DEF Recorded
      <4>2. child'[v] = child[v]
        BY <1>0, <1>1, <2>3, <4>1 DEF Loose, Types
      <4>. QED BY <4>1, <4>2 DEF Recorded
    <3>. QED BY <3>1, <3>2 DEF Loose, DoneHasSome
  <2>. QED BY <2>2, <2>3
<1>5. req' = req /\ resp' \in [Workers -> Seq(TaskMsg)] /\ given' \in [Workers -> SUBSET Tasks]
  BY <1>1, LooseParts DEF conns
<1>6. val \in Results
  BY <1>3, NoTaskIsNone
<1>. QED BY <1>1, <1>2, <1>4, <1>5, <1>6, WriteTypes, LooseWrites

LEMMA LooseFree == ASSUME Loose, NEW w \in Workers, Free(w) \/ Forget(w) PROVE Loose'
<1>0. PICK t \in Results : t = child[w].t
  BY LooseParts DEF ChildType
<1>1. CASE Free(w)
  <2>. DEFINE c == [child[w] EXCEPT !.at = "forget"]
  <2>1. /\ child' = [child EXCEPT ![w] = c] /\ assigned' = [assigned EXCEPT ![t] = 0]
        /\ child[w].at = "free" /\ given' = [given EXCEPT ![w] = @ \ {t}]
        /\ UNCHANGED <<client_pid, result, loaded, disk, handler, client, conns>>
    BY <1>0, <1>1 DEF Free, At
  <2>2. /\ c \in ChildType /\ c.at = "forget" /\ c.tries = child[w].tries
        /\ c.then = child[w].then
    BY LooseParts DEF ChildType, ChildPlaces
  <2>. HIDE DEF c
  <2>3. Counted(c) /\ Named(c, client[w])
    BY <2>1, <2>2, LooseParts DEF Counted, Named
  <2>4. \A s \in Loaded : assigned'[s] = 2 => assigned[s] = 2
    BY <2>1, WriteTypes
  <2>5. DoneHasSome'
    BY <2>1, <2>4, StaysDone
  <2>6. req' = req /\ resp' \in [Workers -> Seq(TaskMsg)] /\ given' \in [Workers -> SUBSET Tasks]
    BY <2>1, LooseParts DEF conns
  <2>7. assigned' \in [Loaded -> 0 .. 2]
    BY <2>1, WriteTypes
  <2>. QED BY <2>7, <2>1, <2>2, <2>3, <2>5, <2>6, WriteTypes, LooseWrites
<1>2. CASE Forget(w)
  <2>. DEFINE at == child[w].then
              c  == [child[w] EXCEPT !.at = at]
  <2>1. /\ child' = [child EXCEPT ![w] = c] /\ client_pid' = [client_pid EXCEPT ![t] = NoPid]
        /\ child[w].at = "forget"
        /\ UNCHANGED <<assigned, result, loaded, disk, handler, client, conns, given>>
    BY <1>0, <1>2 DEF Forget, At
  <2>2. c \in ChildType /\ Counted(c) /\ Named(c, client[w])
    BY ZenonT(40), <2>1, GoesOn, GoesTo
  <2>. HIDE DEF c
  <2>3. DoneHasSome'
    BY <2>1, StaysDone
  <2>4. req' = req /\ resp' \in [Workers -> Seq(TaskMsg)] /\ given' \in [Workers -> SUBSET Tasks]
    BY <2>1, LooseParts DEF conns
  <2>. QED BY <2>1, <2>2, <2>3, <2>4, WriteTypes, LooseWrites
<1>. QED BY <1>1, <1>2

LEMMA LooseSave == ASSUME Loose, NEW w \in Workers, Save(w) PROVE Loose'
<1>. DEFINE at == IF child[w].at = "save" THEN "write" ELSE "exit"
            c  == [child[w] EXCEPT !.copy = Snapshot, !.at = at]
<1>1. /\ child[w].at \in {"save", "cleanup"} /\ child' = [child EXCEPT ![w] = c]
      /\ file' = NoLines /\ UNCHANGED <<table, kept, handler, client, conns, given>>
  BY DEF Save
<1>2. Snapshot \in Lines /\ NoLines \in Lines
  BY SnapshotType, NoLinesType DEF Loose, Lines
<1>3. /\ c \in ChildType /\ c.at = at /\ c.tries = child[w].tries /\ at \in {"write", "exit"}
      /\ at = "write" => child[w].at = "save"
  BY <1>1, <1>2, LooseParts DEF ChildType, ChildPlaces
<1>. HIDE DEF c, at
<1>4. Counted(c) /\ Named(c, client[w])
  BY <1>1, <1>3, FewTries, LooseParts DEF Counted, Named
<1>5. req' \in [Workers -> Seq(TaskMsg)] /\ resp' \in [Workers -> Seq(TaskMsg)]
  BY <1>1, LooseParts DEF conns
<1>. QED BY <1>1, <1>2, <1>3, <1>4, <1>5, LooseParts, LooseMove

(* A child that closes the file.                                           *)
LEMMA LooseClose ==
  ASSUME Loose, NEW w \in Workers, NEW at \in {"all", "zombie"},
         \/ child[w].at = "write" /\ at = "all"
         \/ child[w].at = "exit" /\ at = "zombie",
         CloseFile(child[w].copy), child' = [child EXCEPT ![w].at = at],
         UNCHANGED <<table, handler, client, req>>,
         resp' \in [Workers -> Seq(TaskMsg)], given' \in [Workers -> SUBSET Tasks]
  PROVE  Loose'
<1>. DEFINE c == [child[w] EXCEPT !.at = at]
<1>1. c \in ChildType /\ Counted(c) /\ Named(c, client[w])
  BY FewTries, GoesTo DEF Leaving
<1>2. child' = [child EXCEPT ![w] = c]
  OBVIOUS
<1>. HIDE DEF c
<1>3. file' \in Lines /\ kept' \in SUBSET Tasks
  <2>0. PICK f \in Lines : f = child[w].copy
    BY LooseParts DEF ChildType
  <2>1. file' = f /\ kept' = kept \cup {t \in DOMAIN f : f[t] # NoTask}
    BY <2>0 DEF CloseFile
  <2>2. DOMAIN f \subseteq Tasks
    BY LinesDomain
  <2>. QED BY <2>1, <2>2, LooseParts
<1>. QED BY <1>1, <1>2, <1>3, LooseParts, LooseMove

LEMMA LooseRelease == ASSUME Loose, NEW w \in Workers, Release(w) PROVE Loose'
<1>1. /\ child[w].at = "release" /\ UNCHANGED <<table, disk, handler, client, given>>
      /\ child[w].tries < MAX_TASK_REQUESTS
      /\ req' \in [Workers -> Seq(TaskMsg)] /\ resp' \in [Workers -> Seq(TaskMsg)]
  BY FewTries, LooseParts DEF Release, conns
<1>2. CASE Owned(w) # {}
  <2>. DEFINE c == [child[w] EXCEPT !.at = "free", !.t = First(Owned(w)), !.then = "release"]
  <2>1. child' = [child EXCEPT ![w] = c]
    BY <1>2 DEF Release
  <2>2. First(Owned(w)) \in Results
    BY <1>2, OwnedFirst, NoTaskIsNone DEF Loose
  <2>3. /\ c \in ChildType /\ c.at = "free" /\ c.then = "release"
        /\ c.tries = child[w].tries
    BY <2>2, LooseParts DEF ChildType, ChildPlaces, Thens
  <2>. HIDE DEF c
  <2>4. Counted(c) /\ Named(c, client[w])
    BY <1>1, <2>3, LooseParts DEF Counted, Named
  <2>. QED BY <1>1, <2>1, <2>3, <2>4, LooseChild
<1>3. CASE Owned(w) = {}
  <2>1. child' = [child EXCEPT ![w].at = "cleanup"]
    BY <1>3 DEF Release
  <2>. QED BY <1>1, <2>1, LooseParts, LooseGoes
<1>. QED BY <1>2, <1>3

LEMMA LooseSays ==
  ASSUME Loose, NEW w \in Workers, TimedOut(w) \/ CheckAll(w) \/ SayExit(w)
  PROVE  Loose'
<1>0. /\ UNCHANGED <<table, disk, handler, client, req, given>>
      /\ child[w].at \in {"timeout", "all", "bye"}
      /\ child[w].tries < MAX_TASK_REQUESTS
      /\ req' \in [Workers -> Seq(TaskMsg)] /\ given' \in [Workers -> SUBSET Tasks]
  <2>1. child[w].at \in {"timeout", "all", "bye"}
    BY DEF TimedOut, CheckAll, SayExit, At
  <2>. QED BY <2>1, FewTries, LooseParts DEF TimedOut, CheckAll, SayExit, At
<1>1. ASSUME NEW then \in {"loop", "release"},
             child' = [child EXCEPT ![w].at = "bye", ![w].then = then],
             resp' \in [Workers -> Seq(TaskMsg)]
      PROVE  Loose'
  <2>. DEFINE c == [child[w] EXCEPT !.at = "bye", !.then = then]
  <2>1. child' = [child EXCEPT ![w] = c]
    BY <1>1
  <2>2. c \in ChildType /\ c.at = "bye" /\ c.then = then /\ c.tries = child[w].tries
    BY LooseParts DEF ChildType, ChildPlaces, Thens
  <2>. HIDE DEF c
  <2>3. Counted(c) /\ Named(c, client[w])
    BY <1>0, <2>2, LooseParts DEF Counted, Named
  <2>. QED BY <1>0, <1>1, <2>1, <2>2, <2>3, LooseChild
<1>2. CASE TimedOut(w)
  BY <1>1, <1>2, LooseReply, WordTask DEF TimedOut
<1>3. CASE CheckAll(w)
  <2>1. CASE /\ Reply(w, Word("No tasks"))
             /\ child' = [child EXCEPT ![w].at = "bye", ![w].then = "release"]
    BY <1>1, <2>1, LooseReply, WordTask
  <2>2. CASE child' = [child EXCEPT ![w].at = "loop"] /\ UNCHANGED resp
    BY <1>0, <2>2, LooseParts, LooseGoes
  <2>. QED BY <1>3, <2>1, <2>2 DEF CheckAll
<1>4. CASE SayExit(w)
  <2>. DEFINE at == child[w].then
  <2>1. Reply(w, Word("exit")) /\ child' = [child EXCEPT ![w].at = at] /\ child[w].at = "bye"
    BY <1>4 DEF SayExit, At
  <2>2. at \in {"loop", "timeout", "release", "cleanup"}
    BY <2>1, GoesOn
  <2>. HIDE DEF at
  <2>3. resp' \in [Workers -> Seq(TaskMsg)]
    BY <2>1, LooseReply, WordTask
  <2>. QED BY <1>0, <2>1, <2>2, <2>3, LooseGoes
<1>. QED BY <1>2, <1>3, <1>4

LEMMA LooseUpdates == ASSUME Loose, NEW w \in Workers, Updates(w) PROVE Loose'
<1>1. CASE Write(w)
  <2>1. resp' \in [Workers -> Seq(TaskMsg)]
    BY <1>1, LooseReply, WordTask DEF Write
  <2>. QED BY <1>1, <2>1, LooseParts, LooseClose DEF Write, At
<1>2. CASE Exit(w)
  <2>1. /\ child[w].at = "exit" /\ child' = [child EXCEPT ![w].at = "zombie"]
        /\ CloseFile(child[w].copy) /\ given' = [given EXCEPT ![w] = {}]
        /\ UNCHANGED <<table, handler, client, conns>>
    BY <1>2 DEF Exit, At
  <2>2. UNCHANGED req /\ resp' \in [Workers -> Seq(TaskMsg)] /\ given' \in [Workers -> SUBSET Tasks]
    BY <2>1, LooseParts DEF conns
  <2>. QED BY <2>1, <2>2, LooseClose
<1>. QED BY <1>1, <1>2, LooseSays, LooseClaim, LooseComplete, LooseRecord, LooseSave,
            LooseRelease, LooseFree DEF Updates

LEMMA LooseEnds == ASSUME Loose, NEW w \in Workers, Die(w) PROVE Loose'
<1>1. /\ child[w].at \in {"loop", "free"} /\ child' = [child EXCEPT ![w].at = "zombie"]
      /\ given' = [given EXCEPT ![w] = {}] /\ UNCHANGED <<table, disk, handler, client, conns>>
  BY DEF Die
<1>2. /\ given' \in [Workers -> SUBSET Tasks]
      /\ req' \in [Workers -> Seq(TaskMsg)] /\ resp' \in [Workers -> Seq(TaskMsg)]
  BY <1>1, LooseParts DEF conns
<1>. QED BY <1>1, <1>2, LooseGoes DEF Leaving

(* The handler of SIGCHLD.                                                 *)
LEMMA LooseHandler == ASSUME Loose, handle_sigchld PROVE Loose'
<1>1. ASSUME NEW w \in Workers, Reap(w) PROVE Loose'
  <2>. DEFINE c == [child[w] EXCEPT !.at = "reaped"]
  <2>1. /\ child[w].at = "zombie" /\ child' = [child EXCEPT ![w] = c]
        /\ handler' = [at |-> "scan", w |-> w, t |-> NoTask]
        /\ UNCHANGED <<table, disk, client, conns, given>>
    BY <1>1 DEF Reap
  <2>2. c \in ChildType /\ Counted(c) /\ Named(c, client[w])
    BY <2>1, GoesTo DEF Leaving
  <2>. HIDE DEF c
  <2>3. handler' \in HandlerType
    BY <2>1, NoTaskIsNone DEF HandlerType
  <2>. QED BY <2>1, <2>2, <2>3, LooseParts, LooseMove DEF disk, conns
<1>. DEFINE Rest == UNCHANGED <<child, client, req, resp, given, file, kept, loaded, result>>
<1>2. ASSUME Rest, handler' \in HandlerType, assigned' \in [Loaded -> 0 .. 2],
             client_pid' \in [Loaded -> Workers \cup {NoPid}],
             \A t \in Loaded : assigned'[t] = 2 => assigned[t] = 2
      PROVE  Loose'
  <2>1. Loaded' = Loaded /\ \A t : Recorded(t)' <=> Recorded(t)
    BY <1>2 DEF Loaded, Recorded
  <2>2. DoneHasSome'
    BY <1>2, <2>1 DEF Loose, DoneHasSome
  <2>3. Types'
    BY <1>2, <2>1 DEF Loose, Types
  <2>. QED BY <1>2, <2>2, <2>3 DEF Loose
<1>3. CASE SigScan
  <2>1. Rest /\ UNCHANGED <<assigned, client_pid>>
    BY <1>3 DEF SigScan, table, disk, conns
  <2>2. handler \in HandlerType
    BY DEF Loose, Types
  <2>3. handler' \in HandlerType
    <3>1. CASE Owned(handler.w) # {}
      <4>1. Owned(handler.w) \in SUBSET Tasks
        BY LoadedTasks DEF Owned, Loose
      <4>2. First(Owned(handler.w)) \in Results
        BY <3>1, <4>1, FirstIsOne, NoTaskIsNone
      <4>3. handler' = [handler EXCEPT !.at = "free", !.t = First(Owned(handler.w))]
        BY <1>3, <3>1 DEF SigScan
      <4>. QED BY <2>2, <4>2, <4>3 DEF HandlerType
    <3>2. CASE Owned(handler.w) = {}
      BY <1>3, <3>2, NoTaskIsNone DEF SigScan, HandlerType
    <3>. QED BY <3>1, <3>2
  <2>. QED BY <1>2, <2>1, <2>3 DEF Loose, Types
<1>4. CASE SigFree
  <2>1. Rest /\ UNCHANGED client_pid /\ assigned' = [assigned EXCEPT ![handler.t] = 0]
        /\ handler' = [handler EXCEPT !.at = "forget"]
    BY <1>4 DEF SigFree, disk, conns
  <2>2. handler \in HandlerType /\ client_pid \in [Loaded -> Workers \cup {NoPid}]
    BY DEF Loose, Types
  <2>3. assigned' \in [Loaded -> 0 .. 2] /\ \A t \in Loaded : assigned'[t] = 2 => assigned[t] = 2
    BY <2>1, <2>2, WriteTypes DEF HandlerType
  <2>4. handler' \in HandlerType
    BY <2>1, <2>2 DEF HandlerType
  <2>. QED BY <1>2, <2>1, <2>2, <2>3, <2>4
<1>5. CASE SigForget
  <2>1. Rest /\ UNCHANGED assigned /\ client_pid' = [client_pid EXCEPT ![handler.t] = NoPid]
        /\ handler' = [handler EXCEPT !.at = "scan"]
    BY <1>5 DEF SigForget, disk, conns
  <2>2. handler \in HandlerType
    BY DEF Loose, Types
  <2>3. client_pid' \in [Loaded -> Workers \cup {NoPid}] /\ assigned' \in [Loaded -> 0 .. 2]
    BY <2>1, <2>2, WriteTypes DEF HandlerType
  <2>4. handler' \in HandlerType
    BY <2>1, <2>2 DEF HandlerType
  <2>. QED BY <1>2, <2>1, <2>3, <2>4
<1>. QED BY <1>1, <1>3, <1>4, <1>5 DEF handle_sigchld

LEMMA LooseRestart == ASSUME Loose, Restart PROVE Loose'
<1>1. /\ loaded' = file /\ assigned' = [t \in DOMAIN file |-> 0]
      /\ client_pid' = [t \in DOMAIN file |-> NoPid] /\ result' = [t \in DOMAIN file |-> NoTask]
      /\ handler' = [at |-> "idle", w |-> NoPid, t |-> NoTask]
      /\ given' = [w \in Workers |-> {}] /\ UNCHANGED <<file, kept, client, req, resp>>
      /\ child' = [w \in Workers |-> IF child[w].at = "none" THEN child[w]
                     ELSE [child[w] EXCEPT !.at = "reaped", !.t = NoTask, !.val = NoTask,
                             !.tries = 0, !.then = "none", !.copy = Empty]]
  BY DEF Restart, load_tasks, disk, conns
<1>2. Empty \in Lines
  BY NoTaskIsNone DEF Empty, Lines
<1>3. ASSUME NEW w \in Workers
      PROVE  child'[w] \in ChildType /\ Counted(child'[w]) /\ Named(child'[w], client[w])
  <2>1. CASE child[w].at = "none"
    BY <1>1, <2>1, LooseParts
  <2>2. CASE child[w].at # "none"
    <3>. DEFINE c == [child[w] EXCEPT !.at = "reaped", !.t = NoTask, !.val = NoTask,
                        !.tries = 0, !.then = "none", !.copy = Empty]
    <3>1. child'[w] = c
      BY <1>1, <2>2
    <3>2. c \in ChildType /\ c.at = "reaped"
      BY <1>2, LooseParts, NoTaskIsNone DEF ChildType, ChildPlaces, Thens
    <3>. HIDE DEF c
    <3>3. Counted(c) /\ Named(c, client[w])
      BY <2>2, <3>2, LooseParts DEF Counted, Named
    <3>. QED BY <3>1, <3>2, <3>3
  <2>. QED BY <2>1, <2>2
<1>0. PICK L : L = DOMAIN file
  OBVIOUS
<1>4. /\ Loaded' = L /\ assigned' = [t \in L |-> 0]
      /\ client_pid' = [t \in L |-> NoPid] /\ result' = [t \in L |-> NoTask]
  BY <1>0, <1>1 DEF Loaded
<1>5. Types'
  <2>1. child' \in [Workers -> ChildType]
    BY <1>1, <1>3
  <2>2. /\ assigned' \in [Loaded' -> 0 .. 2] /\ result' \in [Loaded' -> Results]
        /\ client_pid' \in [Loaded' -> Workers \cup {NoPid}]
    BY ONLY <1>4, NoTaskIsNone
  <2>3. handler' \in HandlerType
    BY <1>1, NoTaskIsNone DEF HandlerType
  <2>. QED BY <1>1, <2>1, <2>2, <2>3 DEF Loose, Types
<1>6. DoneHasSome'
  BY ONLY <1>4 DEF DoneHasSome
<1>. QED BY <1>1, <1>3, <1>5, <1>6 DEF Loose

LEMMA LooseInvariance == Spec => []Loose
<1>1. ASSUME Loose, [Next]_vars PROVE Loose'
  <2>1. CASE UNCHANGED vars
    <3>1. UNCHANGED <<assigned, client_pid, result, loaded, file, kept, child, handler,
                      client, req, resp, given>>
      BY <2>1 DEF vars, table, disk, conns
    <3>2. Types'
      BY <1>1, <3>1 DEF Loose, Types, Loaded
    <3>3. DoneHasSome'
      BY <1>1, <3>1 DEF Loose, DoneHasSome, Recorded, Loaded
    <3>. QED BY <1>1, <3>1, <3>2, <3>3 DEF Loose
  <2>. QED BY <1>1, <2>1, LooseConnect, LooseWorker, LooseRequests, LooseTimeout, LooseUpdates,
              LooseEnds, LooseHandler, LooseRestart DEF Next
<1>2. Loose /\ [Next]_vars => Loose'
  BY <1>1
<1>. QED BY <1>2, LooseInit, PTL DEF Spec

(* However the children and the SIGCHLD handler interleave, the table      *)
(* keeps its form, and a child that reads its next request has refused     *)
(* fewer than MAX_TASK_REQUESTS (server.c, handle_client): what the races  *)
(* on the table break is who owns a task, never the count that ends a      *)
(* connection.                                                             *)
THEOREM TypeCorrect == Spec => []TypeOK
<1>1. Loose => TypeOK
  <2>. SUFFICES ASSUME Loose PROVE TypeOK
    OBVIOUS
  <2>1. /\ Loaded \in {Tasks, {}}
        /\ file = NoLines \/ file \in [Tasks -> Tasks \cup {NoTask}]
    BY LinesDomain DEF Loose, Types, Loaded, Results, Lines
  <2>2. \A w \in Workers : child[w].tries < MAX_TASK_REQUESTS \/ child[w].at # "loop"
    BY DEF Loose, Counted
  <2>. QED BY <2>1, <2>2 DEF Loose, Types, TypeOK, Results
<1>. QED BY <1>1, LooseInvariance, PTL

(* And a task that the table shows as completed has a result, or the child *)
(* that completed it is at the write of its result: no line is saved as    *)
(* completed and empty once that write is done (server.c, the RESULT       *)
(* branch of handle_client), though under the races the result may have    *)
(* been computed for another task.                                         *)
THEOREM CompletedHasResult == Spec => []DoneHasSome
<1>1. Loose => DoneHasSome
  BY DEF Loose
<1>. QED BY <1>1, LooseInvariance, PTL
=============================================================================
