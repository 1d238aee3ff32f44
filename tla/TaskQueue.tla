------------------------------ MODULE TaskQueue ------------------------------
(***************************************************************************)
(* The task queue of Assignment_5 (server.c): the parent accepts workers   *)
(* and forks one child per connection; the children share the table of     *)
(* tasks and write it by single accesses without a lock, the parent's      *)
(* SIGCHLD handler writes it too.  The worker programs are client1.c to    *)
(* client4.c.                                                              *)
(*                                                                         *)
(* A loop that only reads the table is one step, every write of it is one. *)
(* How long anything takes is left open: a timeout may come at any point   *)
(* where the code tests for it.                                            *)
(***************************************************************************)
EXTENDS Integers, Sequences, FiniteSets

CONSTANTS
  NTasks,             \* tasks in the input file
  Normal, Repeating,  \* connections of client1, of client3, and of client2
  Silent,             \* or client4, which listen after one request or none
  MAX_TASK_REQUESTS,  \* server.c:30
  Overlap,            \* FALSE: one child or handler finishes before the next
  MaxRestarts         \* bound: the server is stopped and started again

Tasks   == 1 .. NTasks
Workers == Normal \cup Repeating \cup Silent    \* pids of the children
NoPid   == 0                                              \* client_pid = -1
NoTask  == 0

ASSUME TaskQueueAssumption ==
  /\ NTasks \in Nat
  /\ MAX_TASK_REQUESTS \in Nat \ {0}
  /\ NoPid \notin Workers
  /\ Normal \cap (Repeating \cup Silent) = {}
  /\ Overlap \in BOOLEAN
  /\ MaxRestarts \in Nat

VARIABLES
  assigned, client_pid, result,  \* the shared table
  loaded,                        \* its tasks, and the result in each one's text
  file,                          \* the lines of the task file, and their results
  child,                         \* [at, t, val, tries, then, copy] of a child
  handler,                       \* handle_sigchld: [at, w, t]
  client,                        \* [at, t] of a worker program
  req, resp,                     \* the bytes under way on each connection
  given,                         \* history: tasks handed out and not returned
  kept,                          \* history: tasks whose result was in the file
  restarts

table == <<assigned, client_pid, result, loaded, restarts>>
disk  == <<file, kept>>
conns == <<req, resp>>
vars  == <<table, disk, child, handler, client, conns, given>>

Empty == [t \in Tasks |-> NoTask]
Init ==
  /\ assigned   = [t \in Tasks |-> 0]
  /\ client_pid = [t \in Tasks |-> NoPid]
  /\ result     = Empty
  /\ loaded     = Empty
  /\ file       = Empty
  /\ child      = [w \in Workers |-> [at |-> "none", t |-> NoTask, val |-> NoTask,
                                      tries |-> 0, then |-> "none", copy |-> Empty]]
  /\ handler    = [at |-> "idle", w |-> NoPid, t |-> NoTask]
  /\ client     = [w \in Workers |-> [at |-> "start", t |-> NoTask]]
  /\ req        = [w \in Workers |-> <<>>]
  /\ resp       = [w \in Workers |-> <<>>]
  /\ given      = [w \in Workers |-> {}]
  /\ kept       = {}
  /\ restarts   = 0

Msg(m, t)  == [m |-> m, t |-> t]
Word(m)    == Msg(m, NoTask)
Closed(w)  == client[w].at = "closed"
Exited(w)  == child[w].at \in {"zombie", "reaped"}
(* The child and the handler whose turn it is when nothing overlaps.       *)
Waiting    == {"none", "loop", "zombie", "reaped"}
Turn(w)    == Overlap \/ (/\ handler.at = "idle"
                          /\ \A v \in Workers \ {w} : child[v].at \in Waiting)
-----------------------------------------------------------------------------
(* The worker programs.  A read returns all bytes that have come, and the  *)
(* programs look at the beginning only.                                    *)
Send(w, m, at) ==
  /\ req' = [req EXCEPT ![w] = Append(@, m)]
  /\ client' = [client EXCEPT ![w].at = at]
  /\ UNCHANGED <<table, disk, child, handler, resp, given>>

Connect(w) ==
  /\ client[w].at = "start"
  /\ \E at \in {"ask"} \cup (IF w \in Silent THEN {"listen"} ELSE {}) :
       client' = [client EXCEPT ![w].at = at]
  /\ child' = [child EXCEPT ![w].at = "loop"]
  /\ UNCHANGED <<table, disk, handler, conns, given>>

Ask(w) ==
  /\ client[w].at = "ask"
  /\ Send(w, Word("GET_TASK"), IF w \in Silent THEN "listen" ELSE "wait")

Answer(w) ==
  /\ client[w].at = "work"
  /\ Send(w, Msg("RESULT", client[w].t), "ack")

(* What the program does after a read that begins with m.                  *)
Leaves(w, m) ==
  \/ m = "No tasks" /\ client[w].at # "ack"
  \/ m = "exit" /\ Len(resp[w]) = 1 /\ w \notin Normal
AfterRead(w, m) ==
  IF Leaves(w, m.m) THEN [at |-> "closed", t |-> NoTask]
  ELSE CASE w \in Silent -> client[w]
         [] w \in Normal /\ client[w].at = "wait" /\ m.m = "Task"
              -> [at |-> "work", t |-> m.t]
         [] OTHER -> [at |-> "ask", t |-> NoTask]

ClientRead(w) ==
  /\ client[w].at \in {"wait", "ack", "listen"}
  /\ resp[w] # <<>>
  /\ client' = [client EXCEPT ![w] = AfterRead(w, Head(resp[w]))]
  /\ resp' = [resp EXCEPT ![w] = <<>>]
  /\ req' = IF Leaves(w, Head(resp[w]).m) /\ w \in Normal
            THEN [req EXCEPT ![w] = Append(@, Word("exit"))]
            ELSE req
  /\ UNCHANGED <<table, disk, child, handler, given>>

ClientEOF(w) ==
  /\ client[w].at \notin {"start", "closed"}
  /\ Exited(w)
  /\ resp[w] = <<>>
  /\ client' = [client EXCEPT ![w] = [at |-> "closed", t |-> NoTask]]
  /\ UNCHANGED <<table, disk, child, handler, conns, given>>
-----------------------------------------------------------------------------
Loaded == DOMAIN loaded

(* handle_client.  Owned(w): the task that a scan of the table finds.      *)
OwnedOnce(w)  == {t \in Loaded : client_pid[t] = w}               \* mutant
OwnedByAny(w) == {t \in Loaded : assigned[t] = 1}                 \* mutant
Owned(w) == {t \in Loaded : assigned[t] = 1 /\ client_pid[t] = w}
First(S) == CHOOSE t \in S : \A s \in S : t <= s

Reply(w, msg) == resp' = [resp EXCEPT ![w] = Append(@, msg)]

TakesAny == Loaded                                                \* mutant
Open     == {t \in Loaded : assigned[t] = 0}

TooManyLate(n) == n > MAX_TASK_REQUESTS                          \* mutant
TooMany(n)     == n >= MAX_TASK_REQUESTS

(* GET_TASK: the request for a task by somebody who has one is refused,    *)
(* the third one in a row ends the connection.                             *)
GetTask(w) ==
  LET n == child[w].tries + 1 IN
  \/ /\ Owned(w) # {}
     /\ TooMany(n)
     /\ Reply(w, Word("exit"))
     /\ child' = [child EXCEPT ![w].at = "free", ![w].t = First(Owned(w)),
                               ![w].then = "cleanup", ![w].tries = n]
  \/ /\ Owned(w) # {}
     /\ ~TooMany(n)
     /\ Reply(w, Word("Error"))
     /\ child' = [child EXCEPT ![w].tries = n]
  \/ /\ Owned(w) = {}
     /\ Open # {}
     /\ child' = [child EXCEPT ![w].at = "claim", ![w].t = First(Open),
                               ![w].tries = 0]
     /\ UNCHANGED resp
  \/ /\ Owned(w) = {}
     /\ Open = {}
     /\ Reply(w, Word("No tasks"))
     /\ child' = [child EXCEPT ![w].tries = 0]

AllDone == \A t \in Loaded : assigned[t] = 2

(* RESULT: counts for the task that the table gives to this child.         *)
Result(w, val) ==
  \/ /\ Owned(w) # {}
     /\ child' = [child EXCEPT ![w].at = "complete", ![w].t = First(Owned(w)),
                               ![w].val = val, ![w].tries = 0]
     /\ UNCHANGED resp
  \/ /\ Owned(w) = {}
     /\ Reply(w, Word("Error"))
     /\ child' = [child EXCEPT ![w].at = "all"]

Handle(w) ==
  /\ child[w].at = "loop" /\ Turn(w)
  /\ req[w] # <<>>
  /\ req' = [req EXCEPT ![w] = <<>>]
  /\ LET m == Head(req[w]) IN
       \/ m.m = "GET_TASK" /\ GetTask(w)
       \/ m.m = "RESULT" /\ Result(w, m.t)
       \/ /\ m.m = "exit"
          /\ child' = [child EXCEPT ![w].at = "release"]
          /\ UNCHANGED resp
  /\ UNCHANGED <<table, disk, handler, client, given>>

(* The end of the stream, and the timeout, which is looked at before the   *)
(* next read.                                                              *)
Disconnect(w) ==
  /\ child[w].at = "loop" /\ Turn(w)
  /\ Closed(w) /\ req[w] = <<>>
  /\ child' = [child EXCEPT ![w].at = "release"]
  /\ UNCHANGED <<table, disk, handler, client, conns, given>>

IdleTimeout(w) ==
  /\ child[w].at = "loop" /\ Turn(w)
  /\ Reply(w, Word("Error"))
  /\ child' = [child EXCEPT ![w].at = "release"]
  /\ UNCHANGED <<table, disk, handler, client, req, given>>

(* check_task_timeout releases the task but keeps the connection.  As      *)
(* IDLE_TIMEOUT is less than TASK_TIMEOUT, only a worker that has asked    *)
(* again since it got the task still has a connection then.                *)
TaskTimeout(w) ==
  /\ child[w].at = "loop" /\ Turn(w)
  /\ Owned(w) # {}
  /\ child[w].tries > 0
  /\ child' = [child EXCEPT ![w].at = "free", ![w].t = First(Owned(w)),
                            ![w].then = "timeout"]
  /\ UNCHANGED <<table, disk, handler, client, conns, given>>

TimedOut(w) ==
  /\ child[w].at = "timeout"
  /\ Reply(w, Word("Error"))
  /\ child' = [child EXCEPT ![w].at = "bye", ![w].then = "loop"]
  /\ UNCHANGED <<table, disk, handler, client, req, given>>
-----------------------------------------------------------------------------
(* The writes of a claim, of a completion and of a release.                *)
At(w, here, next) == child[w].at = here /\ child' = [child EXCEPT ![w].at = next]

ClaimAssign(w) ==
  /\ At(w, "claim", "own")
  /\ assigned' = [assigned EXCEPT ![child[w].t] = 1]
  /\ UNCHANGED <<client_pid, result, loaded, restarts, disk, handler, client, conns, given>>

ClaimOwn(w) ==
  /\ At(w, "own", "loop")
  /\ client_pid' = [client_pid EXCEPT ![child[w].t] = w]
  /\ given' = [given EXCEPT ![w] = @ \cup {child[w].t}]
  /\ Reply(w, Msg("Task", child[w].t))
  /\ UNCHANGED <<assigned, result, loaded, restarts, disk, handler, client, req>>

Complete(w) ==
  /\ At(w, "complete", "record")
  /\ assigned' = [assigned EXCEPT ![child[w].t] = 2]
  /\ given' = [given EXCEPT ![w] = @ \ {child[w].t}]
  /\ UNCHANGED <<client_pid, result, loaded, restarts, disk, handler, client, conns>>

Record(w) ==
  /\ At(w, "record", "save")
  /\ result' = [result EXCEPT ![child[w].t] = child[w].val]
  /\ UNCHANGED <<assigned, client_pid, loaded, restarts, disk, handler, client, conns, given>>

(* save_results_to_file: fopen empties the file; the table is read into    *)
(* the stream's buffer, which is written when the file is closed.          *)
NoLines  == <<>>
Snapshot == [t \in Loaded |-> IF assigned[t] = 2 THEN result[t] ELSE loaded[t]]

SaveOnce(w) ==                                                   \* mutant
  /\ child[w].at \in {"save", "cleanup"}
  /\ child' = [child EXCEPT ![w].copy = IF child[w].at = "save" THEN Snapshot ELSE @,
                 ![w].at = IF @ = "save" THEN "write" ELSE "exit"]
  /\ file' = NoLines
  /\ UNCHANGED <<table, kept, handler, client, conns, given>>
Save(w) ==
  /\ child[w].at \in {"save", "cleanup"}
  /\ child' = [child EXCEPT ![w].copy = Snapshot,
                 ![w].at = IF @ = "save" THEN "write" ELSE "exit"]
  /\ file' = NoLines
  /\ UNCHANGED <<table, kept, handler, client, conns, given>>

CloseFile(lines) ==
  /\ file' = lines
  /\ kept' = kept \cup {t \in DOMAIN lines : lines[t] # NoTask}

Write(w) ==
  /\ CloseFile(child[w].copy)
  /\ At(w, "write", "all")
  /\ Reply(w, Word("Result"))
  /\ UNCHANGED <<table, handler, client, req, given>>

(* After every RESULT, completed or not; each write to the connection can  *)
(* be read before the next.                                                *)
CheckAll(w) ==
  /\ child[w].at = "all"
  /\ \/ /\ AllDone
        /\ Reply(w, Word("No tasks"))
        /\ child' = [child EXCEPT ![w].at = "bye", ![w].then = "release"]
     \/ /\ ~AllDone
        /\ child' = [child EXCEPT ![w].at = "loop"]
        /\ UNCHANGED resp
  /\ UNCHANGED <<table, disk, handler, client, req, given>>

SayExit(w) ==
  /\ At(w, "bye", child[w].then)
  /\ Reply(w, Word("exit"))
  /\ UNCHANGED <<table, disk, handler, client, req, given>>

(* The last loop of handle_client, and exit with the atexit function.      *)
Release(w) ==
  /\ child[w].at = "release"
  /\ child' = IF Owned(w) # {}
              THEN [child EXCEPT ![w].at = "free", ![w].t = First(Owned(w)),
                                 ![w].then = "release"]
              ELSE [child EXCEPT ![w].at = "cleanup"]
  /\ UNCHANGED <<table, disk, handler, client, conns, given>>

Free(w) ==
  /\ At(w, "free", "forget")
  /\ assigned' = [assigned EXCEPT ![child[w].t] = 0]
  /\ given' = [given EXCEPT ![w] = @ \ {child[w].t}]
  /\ UNCHANGED <<client_pid, result, loaded, restarts, disk, handler, client, conns>>

Forget(w) ==
  /\ At(w, "forget", child[w].then)
  /\ client_pid' = [client_pid EXCEPT ![child[w].t] = NoPid]
  /\ UNCHANGED <<assigned, result, loaded, restarts, disk, handler, client, conns, given>>

Exit(w) ==
  /\ At(w, "exit", "zombie")
  /\ CloseFile(child[w].copy)
  /\ given' = [given EXCEPT ![w] = {}]
  /\ UNCHANGED <<table, handler, client, conns>>

(* A child that writes to a closed connection dies of SIGPIPE: between two *)
(* requests, or while it tells its client to go.                           *)
Die(w) ==
  /\ \/ child[w].at = "loop"
     \/ child[w].at = "free" /\ child[w].then = "cleanup"
  /\ Closed(w)
  /\ child' = [child EXCEPT ![w].at = "zombie"]
  /\ given' = [given EXCEPT ![w] = {}]
  /\ UNCHANGED <<table, disk, handler, client, conns>>
-----------------------------------------------------------------------------
(* handle_sigchld in the parent.                                           *)
Reap(w) ==
  /\ handler.at = "idle" /\ child[w].at = "zombie" /\ Turn(w)
  /\ child' = [child EXCEPT ![w].at = "reaped"]
  /\ handler' = [at |-> "scan", w |-> w, t |-> NoTask]
  /\ UNCHANGED <<table, disk, client, conns, given>>

ReapsOnly ==                                                     \* mutant
  /\ handler.at = "scan"
  /\ handler' = [at |-> "idle", w |-> NoPid, t |-> NoTask]
  /\ UNCHANGED <<table, disk, child, client, conns, given>>
SigScan ==
  /\ handler.at = "scan"
  /\ handler' = IF Owned(handler.w) # {}
                THEN [handler EXCEPT !.at = "free", !.t = First(Owned(handler.w))]
                ELSE [at |-> "idle", w |-> NoPid, t |-> NoTask]
  /\ UNCHANGED <<table, disk, child, client, conns, given>>

SigFree ==
  /\ handler.at = "free"
  /\ assigned' = [assigned EXCEPT ![handler.t] = 0]
  /\ handler' = [handler EXCEPT !.at = "forget"]
  /\ UNCHANGED <<client_pid, result, loaded, restarts, disk, child, client, conns, given>>

SigForget ==
  /\ handler.at = "forget"
  /\ client_pid' = [client_pid EXCEPT ![handler.t] = NoPid]
  /\ handler' = [handler EXCEPT !.at = "scan"]
  /\ UNCHANGED <<assigned, result, loaded, restarts, disk, child, client, conns, given>>
-----------------------------------------------------------------------------
(* The server is stopped with its children and started again on its file:  *)
(* load_tasks takes each line for a task, its result too.                  *)
OnlyExpressions == [t \in DOMAIN file |-> NoTask]                 \* mutant
load_tasks      == file

Restart ==
  /\ restarts < MaxRestarts
  /\ restarts' = restarts + 1
  /\ loaded' = load_tasks
  /\ assigned' = [t \in DOMAIN file |-> 0]
  /\ client_pid' = [t \in DOMAIN file |-> NoPid]
  /\ result' = [t \in DOMAIN file |-> NoTask]
  /\ child' = [w \in Workers |-> IF child[w].at = "none" THEN child[w]
                ELSE [child[w] EXCEPT !.at = "reaped", !.t = NoTask, !.val = NoTask,
                        !.tries = 0, !.then = "none", !.copy = Empty]]
  /\ handler' = [at |-> "idle", w |-> NoPid, t |-> NoTask]
  /\ given' = [w \in Workers |-> {}]
  /\ UNCHANGED <<disk, client, conns>>
-----------------------------------------------------------------------------
Worker(w)      == Ask(w) \/ Answer(w) \/ ClientRead(w) \/ ClientEOF(w)
Requests(w)    == Handle(w) \/ Disconnect(w) \/ IdleTimeout(w)
Updates(w)     == \/ TimedOut(w) \/ ClaimAssign(w) \/ ClaimOwn(w)
                  \/ Complete(w) \/ Record(w) \/ Save(w) \/ Write(w)
                  \/ CheckAll(w) \/ SayExit(w)
                  \/ Release(w) \/ Free(w) \/ Forget(w) \/ Exit(w)
handle_sigchld == (\E w \in Workers : Reap(w)) \/ SigScan \/ SigFree \/ SigForget

Next ==
  \/ \E w \in Workers :
       Connect(w) \/ Worker(w) \/ Requests(w) \/ TaskTimeout(w) \/ Updates(w) \/ Die(w)
  \/ handle_sigchld
  \/ Restart

Spec == Init /\ [][Next]_vars

(* Every program that runs goes on running; a connection without input is  *)
(* ended after IDLE_TIMEOUT.  Nobody has to connect or to die, and a task  *)
(* need not time out.                                                      *)
FairSpec ==
  /\ Spec
  /\ WF_vars(handle_sigchld)
  /\ \A w \in Workers :
       WF_vars(Worker(w)) /\ WF_vars(Updates(w)) /\ SF_vars(Requests(w))
-----------------------------------------------------------------------------
(* Type invariant: the table, the file, and where the programs are.        *)
TypeOK ==
  /\ Loaded     \in {Tasks, {}}
  /\ assigned   \in [Loaded -> 0 .. 2]
  /\ client_pid \in [Loaded -> Workers \cup {NoPid}]
  /\ result     \in [Loaded -> Tasks \cup {NoTask}]
  /\ file = NoLines \/ file \in [Tasks -> Tasks \cup {NoTask}]
  /\ given      \in [Workers -> SUBSET Tasks]
  /\ \A w \in Workers : child[w].tries < MAX_TASK_REQUESTS \/ child[w].at # "loop"

(* The table is a task board: when requests do not overlap, a task is open,*)
(* held by one worker or completed for good, whatever disconnects, dies or *)
(* times out in between, until the server is started again.                *)
Board == INSTANCE TaskBoard WITH
           Nobody <- NoPid,
           holder <- [t \in Tasks |-> IF t \in Loaded /\ assigned[t] = 1
                                      THEN client_pid[t] ELSE NoPid],
           done   <- {t \in Loaded : assigned[t] = 2}
BoardSpec == Board!Spec

(* What the children have handed out is what the table says: the owner that*)
(* the releases and the RESULT handler look for is the worker that has it. *)
GivenIsOwned == \A w \in Workers : \A t \in given[w] : assigned[t] = 1 /\ client_pid[t] = w

(* A result is recorded for the task it was computed for.                  *)
ResultsRight == \A t \in Loaded : result[t] \in {NoTask, t}

(* Between two requests the file holds every completed result.             *)
FileCurrent ==
  (handler.at = "idle" /\ \A w \in Workers : child[w].at \in Waiting) => file = Snapshot

(* No task stays assigned for ever: its worker answers, or the server      *)
(* takes it back.                                                          *)
Assigned(t) == t \in Loaded /\ assigned[t] = 1
NoTaskStuck == \A t \in Tasks : Assigned(t) ~> ~Assigned(t)

(* A result that was in the file stays there through all that is rewritten,*)
(* also by a server that took its own line for a task (server.c, line 49), *)
(* except that a rewrite empties the file first.                           *)
ResultsKept == file # NoLines => \A t \in kept : file[t] # NoTask

-----------------------------------------------------------------------------
(* Claims of comments and documents that the code does not keep.  Where no *)
(* run shows it, README.md names the instance and the counterexample.      *)

(* A task is with one worker at a time (server.c, get_next_task and the    *)
(* claim after it).                                                        *)
OneHolder == \A w, v \in Workers : w # v => given[w] \cap given[v] = {}

(* A completed task stays completed.                                       *)
CompletedStays == [][\A t \in Loaded : assigned[t] = 2 => assigned'[t] = 2]_vars

(* A server that is started again has the tasks of the file it was given,  *)
(* and hands out those that have no result.                                *)
TasksSurvive  == Loaded = Tasks
DoneIsNotGiven == \A w \in Workers : \A t \in given[w] : loaded[t] = NoTask
=============================================================================
