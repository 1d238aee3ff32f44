------------------------------ MODULE Transfers ------------------------------
(***************************************************************************)
(* The small programs that stand alone, and the checksum of Assignment_7,  *)
(* one of them at a time: which one is chosen at the start, and the        *)
(* variables of the others keep still.                                     *)
(***************************************************************************)
EXTENDS Integers, Sequences

CONSTANTS KeyLen, ClientChunk, ServerChunk, MaxSize, MaxRounds, MaxDeaths,
          MaxLines, MaxLost,
          NumMessages, MaxRetransmissions, MaxSeqNum, MaxDrops,
          Peers, MaxFailures,
          Sums,
          Guests

ASSUME TransfersAssumption ==
  /\ {KeyLen, ClientChunk, ServerChunk, NumMessages, MaxRetransmissions,
      MaxSeqNum} \subseteq Nat \ {0}
  /\ {MaxSize, MaxRounds, MaxDeaths, MaxLines, MaxLost, MaxDrops,
      MaxFailures} \subseteq Nat
  /\ NumMessages <= MaxSeqNum   \* the same index for no two messages

VARIABLES
  program,
  gap, size, client, child, up, down, deaths,              \* EncFile
  file, server, reader, requests, replies, lost,           \* Words
  slow, sender, received, messages, acks, drops,           \* StopWait
  forks, peer, backlog, serving, greeted, heard,           \* TCPSample
  words, sum,                                              \* Checksum
  guest, alone, queue, stream, asked, host                 \* Chat

Enc  == INSTANCE EncFile
Word == INSTANCE Words
Stop == INSTANCE StopWait
Tcp  == INSTANCE TCPSample
Chk  == INSTANCE Checksum
Cht  == INSTANCE Chat

encVars  == <<gap, size, client, child, up, down, deaths>>
wordVars == <<file, server, reader, requests, replies, lost>>
stopVars == <<slow, sender, received, messages, acks, drops>>
tcpVars  == <<forks, peer, backlog, serving, greeted, heard>>
chkVars  == <<words, sum>>
chtVars  == <<guest, alone, queue, stream, asked, host>>
vars     == <<program, encVars, wordVars, stopVars, tcpVars, chkVars, chtVars>>

(* What only says how the chosen program runs is fixed for the others.     *)
Init ==
  /\ program \in {"encfile", "words", "stopwait", "sample", "checksum", "chat"}
  /\ Enc!Init /\ Word!Init /\ Stop!Init /\ Tcp!Init /\ Chk!Init /\ Cht!Init
  /\ program = "encfile" \/ gap
  /\ program = "words" \/ file = <<>>
  /\ program = "stopwait" \/ slow
  /\ program = "sample" \/ forks
  /\ program = "checksum" \/ words = 0

EncFile(step)  == program = "encfile" /\ step
                  /\ UNCHANGED <<program, wordVars, stopVars, tcpVars, chkVars, chtVars>>
Words(step)    == program = "words" /\ step
                  /\ UNCHANGED <<program, encVars, stopVars, tcpVars, chkVars, chtVars>>
StopWait(step) == program = "stopwait" /\ step
                  /\ UNCHANGED <<program, encVars, wordVars, tcpVars, chkVars, chtVars>>
Sample(step)   == program = "sample" /\ step
                  /\ UNCHANGED <<program, encVars, wordVars, stopVars, chkVars, chtVars>>
Checksum(step) == program = "checksum" /\ step
                  /\ UNCHANGED <<program, encVars, wordVars, stopVars, tcpVars, chtVars>>
Chat(step)     == program = "chat" /\ step
                  /\ UNCHANGED <<program, encVars, wordVars, stopVars, tcpVars, chkVars>>

Next ==
  \/ EncFile(Enc!Next)
  \/ Words(Word!Next)
  \/ StopWait(Stop!Next)
  \/ Sample(Tcp!Next)
  \/ Checksum(Chk!Loop)
  \/ Chat(Cht!Next)

(* The processes keep running; users and faults need not come.             *)
System ==
  \/ EncFile(Enc!System)
  \/ Words(Word!System)
  \/ StopWait(Stop!Next)
  \/ Sample(Tcp!System)
  \/ Checksum(Chk!Loop)
  \/ Chat(Cht!System)

FairSpec == Init /\ [][Next]_vars /\ WF_vars(System)
-----------------------------------------------------------------------------
(* The encrypted file is right (EncFile, doencfileserver.c, line 143), and *)
(* each transfer ends where the sleeps work.                               *)
EncryptedRight == Enc!EncryptedRight
TransferEnds   == Enc!TransferEnds

(* The words arrive in order, and both programs end, unless a datagram is  *)
(* lost or the file has no FINISH (Words, wordserver.c, line 74).          *)
FileInOrder == Word!FileInOrder
BothEnd     == program = "words" => Word!BothEnd

(* An ACK without a number is right for a receiver in time (StopWait,      *)
(* user1.c, line 64), and then both ends come to their end.                *)
AckedIsReceived == Stop!AckedIsReceived
BothFinish      == program = "stopwait" => Stop!BothFinish

(* Every client is served, unless one hangs (TCPSample, tcpserver.c, line  *)
(* 225), and in the lab test one that came in time (Chat, chatserver.c,    *)
(* line 67).                                                               *)
EveryoneServed == Tcp!EveryoneServed /\ Cht!FirstServed

(* Both versions of ip_checksum agree (Checksum; code/cldp_server.c, line  *)
(* 54).                                                                    *)
VersionsAgree == Chk!VersionsAgree
=============================================================================
