-------------------------------- MODULE Words --------------------------------
(***************************************************************************)
(* The word-by-word transfer of Assignment_2: wordserver.c serves one file *)
(* to wordclient.c, one line for each datagram that asks for a word.       *)
(* Neither program sends anything twice or stops waiting.                  *)
(***************************************************************************)
EXTENDS Integers, Sequences, SequencesExt

CONSTANTS
  MaxLines,  \* bound: lines of the file
  MaxLost    \* bound: datagrams that are lost

VARIABLES
  file,      \* its lines; "none" when there is no such file
  server,    \* [at, next]: the next line that fgets returns
  reader,    \* [at, got]: got is received_file.txt
  requests,  \* datagrams to the server
  replies,   \* datagrams to the client
  lost

vars == <<file, server, reader, requests, replies, lost>>

Lines == BoundedSeq({"word", "FINISH"}, MaxLines)

Init ==
  /\ file \in Lines \cup {<<"none">>}
  /\ server = [at |-> "name", next |-> 1]
  /\ reader = [at |-> "name", got |-> <<>>]
  /\ requests = <<>> /\ replies = <<>>
  /\ lost = 0

SendName ==
  /\ reader.at = "name"
  /\ reader' = [reader EXCEPT !.at = "hello"]
  /\ requests' = Append(requests, "name")
  /\ UNCHANGED <<file, server, replies, lost>>

NoFile == file = <<"none">>

FromTheStart == 1                                                \* mutant
AfterHello   == 2

(* The first line answers the name.  Of an empty file fgets leaves the     *)
(* buffer as it is: the name goes back.                                    *)
ServeName ==
  /\ server.at = "name" /\ requests # <<>>
  /\ requests' = Tail(requests)
  /\ IF NoFile
     THEN /\ replies' = Append(replies, "NOTFOUND")
          /\ server' = [server EXCEPT !.at = "end"]
     ELSE /\ replies' = Append(replies, IF file = <<>> THEN "name" ELSE file[1])
          /\ server' = [at |-> "words", next |-> AfterHello]
  /\ UNCHANGED <<file, reader, lost>>

ReadHello ==
  /\ reader.at = "hello" /\ replies # <<>>
  /\ IF Head(replies) = "NOTFOUND"
     THEN reader' = [reader EXCEPT !.at = "end"] /\ UNCHANGED requests
     ELSE /\ reader' = [at |-> "words", got |-> <<Head(replies)>>]
          /\ requests' = Append(requests, "WORD")
  /\ replies' = Tail(replies)
  /\ UNCHANGED <<file, server, lost>>

NeverLast(word) == FALSE                                         \* mutant
IsLast(word)    == word = "FINISH"

(* The number in WORDi is not looked at; past the last line there is no    *)
(* reply.                                                                  *)
ServeWord ==
  /\ server.at = "words" /\ requests # <<>>
  /\ requests' = Tail(requests)
  /\ IF server.next <= Len(file)
     THEN LET word == file[server.next] IN
          /\ replies' = Append(replies, word)
          /\ server' = [at |-> IF IsLast(word) THEN "end" ELSE "words",
                        next |-> server.next + 1]
     ELSE UNCHANGED <<server, replies>>
  /\ UNCHANGED <<file, reader, lost>>

ReadWord ==
  /\ reader.at = "words" /\ replies # <<>>
  /\ LET word == Head(replies) IN
     /\ reader' = [at |-> IF IsLast(word) THEN "end" ELSE "words",
                   got |-> Append(reader.got, word)]
     /\ requests' = IF IsLast(word) THEN requests ELSE Append(requests, "WORD")
  /\ replies' = Tail(replies)
  /\ UNCHANGED <<file, server, lost>>

Lose ==
  /\ lost < MaxLost
  /\ lost' = lost + 1
  /\ \/ requests # <<>> /\ requests' = Tail(requests) /\ UNCHANGED replies
     \/ replies # <<>> /\ replies' = Tail(replies) /\ UNCHANGED requests
  /\ UNCHANGED <<file, server, reader>>

System == SendName \/ ServeName \/ ReadHello \/ ServeWord \/ ReadWord
Next   == System \/ Lose

Spec == Init /\ [][Next]_vars /\ WF_vars(System)
-----------------------------------------------------------------------------
(* The file that the client writes is at every moment a beginning of the   *)
(* one that the server reads, and ends with its first FINISH after the     *)
(* first line: no datagram is numbered, and it holds only because each     *)
(* program sends one and waits (an empty file counts as its name).         *)
FileInOrder ==
  LET source == IF file = <<>> THEN <<"name">> ELSE file IN
  /\ IsPrefix(reader.got, source)
  /\ reader.at = "end" /\ ~NoFile => Last(reader.got) = "FINISH"

HasFinish == \E i \in 2..Len(file) : file[i] = "FINISH"

(* Both programs end, unless a datagram is lost or the file has no FINISH  *)
(* after its first line (wordserver.c, line 74: then nothing is sent).     *)
BothEnd ==
  (NoFile \/ HasFinish) ~> (server.at = "end" /\ reader.at = "end") \/ lost > 0
=============================================================================
