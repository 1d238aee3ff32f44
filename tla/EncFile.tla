------------------------------- MODULE EncFile -------------------------------
(***************************************************************************)
(* The encrypted file transfer of Assignment_3/Submission: one client      *)
(* (retrieveencfileclient.c) and the child that doencfileserver.c forks    *)
(* for it.  The parent goes back to accept; children share nothing.        *)
(*                                                                         *)
(* TCP keeps no boundaries: what is sent apart may be read together and    *)
(* what is sent together may be read in parts.  The programs count on      *)
(* their sleeps; gap says that these work, and each send is read alone.    *)
(***************************************************************************)
EXTENDS Integers, Sequences, SequencesExt

CONSTANTS
  KeyLen,       \* bytes of a key
  ClientChunk,  \* bytes of a chunk to the server
  ServerChunk,  \* bytes of a chunk back
  MaxSize,      \* bound: bytes of a file
  MaxRounds,    \* bound: files that the user asks for
  MaxDeaths     \* bound: processes that are killed from outside

VARIABLES
  gap,
  size,    \* bytes of the file that is sent
  client,  \* [at, round, sent, reset, enc]: enc is the .enc file it writes
  child,   \* [at, key, temp, sent]: bytes of the key, the temporary file
  up,      \* bytes to the child: Key, Nul or a position in the file
  down,    \* bytes to the client: encrypted with how much of the key, and what
  deaths

vars == <<gap, size, client, child, up, down, deaths>>

Key == -1
Nul == 0

Init ==
  /\ gap \in BOOLEAN
  /\ size = 0
  /\ client = [at |-> "menu", round |-> 0, sent |-> 0, reset |-> FALSE, enc |-> <<>>]
  /\ child = [at |-> "key", key |-> 0, temp |-> <<>>, sent |-> 0]
  /\ up = <<>> /\ down = <<>>
  /\ deaths = 0

Smaller(m, n) == IF m < n THEN m ELSE n
Gone(p)       == p.at \in {"gone", "killed"}

(* The bytes that one recv of at most max bytes may return.                *)
Reads(stream, max) ==
  LET all == Smaller(Len(stream), max) IN
  {SubSeq(stream, 1, n) : n \in IF gap THEN {all} \ {0} ELSE 1..all}

(* A chunk goes after the sleep that follows the chunk before.             *)
Slept == gap /\ client.sent > 0 => up = <<>> \/ Gone(child)
-----------------------------------------------------------------------------
(* The client.  The first send to a child that is gone is lost and brings  *)
(* a reset back; a send after the reset kills the client (SIGPIPE).        *)
Send(bytes, now) ==
  IF Gone(child)
  THEN /\ \/ client' = [now EXCEPT !.reset = TRUE]
          \/ client.reset /\ client' = [client EXCEPT !.at = "killed"]
       /\ UNCHANGED up
  ELSE client' = now /\ up' = up \o bytes

Choose(n) ==
  /\ client.at = "menu" /\ client.round < MaxRounds
  /\ size' = n
  /\ Send([i \in 1..KeyLen |-> Key],
          [client EXCEPT !.at = "chunks", !.round = @ + 1, !.sent = 0])
  /\ UNCHANGED <<gap, child, down, deaths>>

SendChunk ==
  /\ client.at = "chunks" /\ client.sent < size /\ Slept
  /\ LET to == Smaller(client.sent + ClientChunk, size) IN
     Send([i \in 1..(to - client.sent) |-> client.sent + i],
          [client EXCEPT !.sent = to])
  /\ UNCHANGED <<gap, size, child, down, deaths>>

SendMarker ==
  /\ client.at = "chunks" /\ client.sent = size /\ Slept
  /\ Send(<<Nul>>, [client EXCEPT !.at = "result", !.enc = <<>>])
  /\ UNCHANGED <<gap, size, child, down, deaths>>

Receive ==
  /\ client.at = "result"
  /\ \E got \in Reads(down, Len(down)) :
       /\ client' = [client EXCEPT !.enc = @ \o got]
       /\ down' = SubSeq(down, Len(got) + 1, Len(down))
  /\ UNCHANGED <<gap, size, child, up, deaths>>

(* The end of the stream, or a reset: "File encrypted successfully!"       *)
Success ==
  /\ client.at = "result" /\ down = <<>> /\ Gone(child)
  /\ client' = [client EXCEPT !.at = "ask"]
  /\ UNCHANGED <<gap, size, child, up, down, deaths>>

(* Another file goes over the same connection.                             *)
Continue(yes) ==
  /\ client.at = "ask"
  /\ client' = [client EXCEPT !.at = IF yes THEN "menu" ELSE "gone"]
  /\ UNCHANGED <<gap, size, child, up, down, deaths>>
-----------------------------------------------------------------------------
(* The child.                                                              *)
ReadKey ==
  /\ child.at = "key"
  /\ \/ \E got \in Reads(up, KeyLen) :
          /\ child' = [child EXCEPT !.at = "file", !.key = Len(got)]
          /\ up' = SubSeq(up, Len(got) + 1, Len(up))
     \/ up = <<>> /\ Gone(client) /\ child' = [child EXCEPT !.at = "gone"] /\ UNCHANGED up
  /\ UNCHANGED <<gap, size, client, down, deaths>>

EndIfShort(got) == Len(got) < ClientChunk                        \* mutant
EndIfEmpty(got) == got = <<>>                                    \* mutant
IsMarker(got)   == got = <<Nul>>

ReadFile ==
  /\ child.at = "file"
  /\ \/ \E got \in Reads(up, Len(up)) :
          /\ child' = IF IsMarker(got) THEN [child EXCEPT !.at = "reply"]
                      ELSE [child EXCEPT !.temp = @ \o got]
          /\ up' = SubSeq(up, Len(got) + 1, Len(up))
     \/ up = <<>> /\ Gone(client) /\ child' = [child EXCEPT !.at = "reply"] /\ UNCHANGED up
  /\ UNCHANGED <<gap, size, client, down, deaths>>

encrypt_char(c, key) == <<key, c>>

(* encrypt_file, chunk by chunk; a send to a killed client ends the child. *)
Reply ==
  /\ child.at = "reply"
  /\ IF child.sent < Len(child.temp) /\ ~Gone(client)
     THEN LET to == Smaller(child.sent + ServerChunk, Len(child.temp)) IN
          /\ down' = down \o [i \in 1..(to - child.sent) |->
                                encrypt_char(child.temp[child.sent + i], child.key)]
          /\ child' = [child EXCEPT !.sent = to]
     ELSE child' = [child EXCEPT !.at = "gone"] /\ UNCHANGED down
  /\ UNCHANGED <<gap, size, client, up, deaths>>

(* A write that fails (lines 149 and 175) ends a process like a signal; a  *)
(* socket that is closed with bytes unread sends the reset at once.        *)
Die ==
  /\ deaths < MaxDeaths
  /\ deaths' = deaths + 1
  /\ \/ ~Gone(client) /\ client' = [client EXCEPT !.at = "killed"] /\ UNCHANGED child
     \/ ~Gone(child) /\ child' = [child EXCEPT !.at = "killed"]
                       /\ client' = [client EXCEPT !.reset = up # <<>>]
  /\ UNCHANGED <<gap, size, up, down>>

System == SendChunk \/ SendMarker \/ Receive \/ Success \/ ReadKey \/ ReadFile \/ Reply

Next ==
  \/ \E n \in 0..MaxSize : Choose(n)
  \/ \E yes \in BOOLEAN : Continue(yes)
  \/ System
  \/ Die

Spec == Init /\ [][Next]_vars /\ WF_vars(System)
-----------------------------------------------------------------------------
Result == [i \in 1..size |-> encrypt_char(i, KeyLen)]

(* Whatever the chunks are read like, the first .enc file is a beginning   *)
(* of the encrypted file, and the whole of it when success is announced    *)
(* and no process was killed: a marker that is not read alone makes both   *)
(* programs wait, never the file short or long.  It takes a key that comes *)
(* in one read (doencfileserver.c, lines 110 and 143).                     *)
EncryptedRight == client.round = 1 /\ child.key = KeyLen =>
  /\ IsPrefix(client.enc, Result)
  /\ client.at = "ask" /\ deaths = 0 => client.enc = Result

(* Where the sleeps work, the client comes out of each transfer: to its    *)
(* question, or killed.                                                    *)
TransferEnds == gap /\ client.at = "chunks" ~> client.at \in {"ask", "gone", "killed"}
=============================================================================
