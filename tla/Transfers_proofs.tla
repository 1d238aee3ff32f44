-------------------------- MODULE Transfers_proofs --------------------------
(* The small programs, one choice among six: a step of Transfers is a step *)
(* of the chosen program, or leaves its variables alone.  Proved are the   *)
(* checksum; the acknowledgements of StopWait, the order of Words and the  *)
(* contents of EncFile; and for each program that somebody waits in, what  *)
(* its liveness property rests on: that what is waited for has come or is  *)
(* under way.                                                              *)
EXTENDS Transfers, SequenceTheorems, FiniteSetTheorems, TLAPS

Sum == INSTANCE Checksum_proofs

LEMMA ChecksumRuns == FairSpec => Sum!Spec
<1>1. Init => Sum!Init
  BY DEF Init, Chk!Init, Sum!Init, Chk!HeaderSums, Sum!HeaderSums
<1>2. [Next]_vars => [Sum!Loop]_(Sum!sumVars)
  BY DEF Next, vars, chkVars, EncFile, Words, StopWait, Sample, Checksum, Chat,
         Sum!sumVars, Sum!Loop, Chk!Loop, Sum!Carry, Chk!Carry, Sum!Fold, Chk!Fold,
         Sum!Low, Chk!Low, Sum!Word, Chk!Word
<1>. QED BY <1>1, <1>2, PTL DEF FairSpec, Sum!Spec

(* Whichever program runs, ip_checksum of both versions gives the same     *)
(* checksum to every header (code/cldp_server.c, line 54).                 *)
THEOREM SameChecksum == FairSpec => []VersionsAgree
<1>1. Sum!VersionsAgree => VersionsAgree
  BY DEF VersionsAgree, Sum!VersionsAgree, Chk!VersionsAgree,
         Sum!Complement, Chk!Complement, Sum!FirstVersion, Chk!FirstVersion,
         Sum!Carry, Chk!Carry, Sum!Fold, Chk!Fold, Sum!Low, Chk!Low, Sum!Word, Chk!Word
<1>. QED BY <1>1, ChecksumRuns, Sum!ChecksumsAgree, PTL

-----------------------------------------------------------------------------
(* Messages, ACKs and the sender's counters have their types.              *)
AckFields ==
  /\ sender \in [at : {"send", "select", "end"}, i : Nat, tries : Nat, acked : SUBSET Nat]
  /\ messages \in Seq(Nat)
  /\ acks \in Nat

(* Nothing is under way when the sender does not wait, and at most one     *)
(* message or its ACK when it does.                                        *)
NothingComes == messages = <<>> /\ acks = 0
Message  == messages = <<sender.i>> /\ acks = 0
AckComes == messages = <<>> /\ acks = 1 /\ Stop!Slot(sender.i) \in received
OneUnderWay ==
  ~slow => IF sender.at = "select" THEN NothingComes \/ Message \/ AckComes ELSE NothingComes

AckInv == AckFields /\ OneUnderWay /\ Stop!AckedIsReceived

LEMMA AckInit == Stop!Init => AckInv
BY DEF Stop!Init, AckInv, AckFields, OneUnderWay, NothingComes, Stop!AckedIsReceived

(* After an ACK or a last timeout the sender is with the next message, or  *)
(* at its end, and has the same messages acknowledged.                     *)
LEMMA NextMessageFields ==
  ASSUME NEW now \in [at : {"send", "select", "end"}, i : Nat, tries : Nat,
                      acked : SUBSET Nat]
  PROVE  /\ Stop!NextMessage(now) \in [at : {"send", "select", "end"}, i : Nat, tries : Nat,
                                  acked : SUBSET Nat]
         /\ Stop!NextMessage(now).at # "select"
         /\ Stop!NextMessage(now).acked = now.acked
<1>. DEFINE at == IF now.i = NumMessages THEN "end" ELSE "send"
            i  == IF now.i = NumMessages THEN now.i ELSE now.i + 1
<1>1. Stop!NextMessage(now) = [now EXCEPT !.at = at, !.i = i, !.tries = 0]
  BY DEF Stop!NextMessage
<1>2. at \in {"end", "send"} /\ i \in Nat
  <2>1. now.i \in Nat
    OBVIOUS
  <2>. QED BY <2>1
<1>3. now.acked \in SUBSET Nat
  OBVIOUS
<1>4. Stop!NextMessage(now) = [at |-> at, i |-> i, tries |-> 0, acked |-> now.acked]
  <2>. HIDE DEF at, i
  <2>. QED BY <1>1
<1>. HIDE DEF at, i
<1>. QED BY <1>2, <1>3, <1>4

LEMMA AckSend == AckInv /\ Stop!k_sendto => AckInv'
<1>. SUFFICES ASSUME AckInv, Stop!k_sendto PROVE AckInv'
  OBVIOUS
<1>. USE DEF AckInv
<1>1. /\ sender.at = "send" /\ sender' = [sender EXCEPT !.at = "select"]
      /\ messages' = messages \/ messages' = Append(messages, sender.i)
      /\ slow' = slow /\ received' = received /\ acks' = acks
  BY DEF Stop!k_sendto, Stop!Sent, Stop!Dropped
<1>2. sender'.i = sender.i /\ sender'.at = "select" /\ sender'.acked = sender.acked
  BY <1>1 DEF AckFields
<1>3. AckFields'
  <2>1. messages' \in Seq(Nat)
    <3>1. sender.i \in Nat /\ messages \in Seq(Nat)
      BY DEF AckFields
    <3>2. Append(messages, sender.i) \in Seq(Nat)
      BY <3>1
    <3>. QED BY <1>1, <3>1, <3>2
  <2>2. sender' \in [at : {"send", "select", "end"}, i : Nat, tries : Nat, acked : SUBSET Nat]
    BY <1>1 DEF AckFields
  <2>. QED BY <1>1, <2>1, <2>2 DEF AckFields
<1>4. OneUnderWay'
  BY <1>1, <1>2 DEF OneUnderWay, NothingComes, Message, AckFields
<1>5. Stop!AckedIsReceived'
  BY <1>1, <1>2 DEF Stop!AckedIsReceived, Stop!Slot
<1>. QED BY <1>3, <1>4, <1>5

LEMMA AckTakeAck == AckInv /\ Stop!TakeAck => AckInv'
<1>. SUFFICES ASSUME AckInv, Stop!TakeAck PROVE AckInv'
  OBVIOUS
<1>. USE DEF AckInv
<1>. DEFINE now == [sender EXCEPT !.acked = @ \cup {sender.i}]
<1>1. /\ sender.at = "select" /\ acks > 0 /\ acks' = acks - 1
      /\ sender' = Stop!NextMessage(now)
      /\ slow' = slow /\ received' = received /\ messages' = messages
  BY DEF Stop!TakeAck
<1>2. /\ now \in [at : {"send", "select", "end"}, i : Nat, tries : Nat, acked : SUBSET Nat]
      /\ now.acked = sender.acked \cup {sender.i}
  BY DEF AckFields
<1>3. AckFields' /\ sender'.at # "select" /\ sender'.acked = sender.acked \cup {sender.i}
  <2>. HIDE DEF now
  <2>. QED BY <1>1, <1>2, NextMessageFields DEF AckFields
<1>4. ~slow => AckComes
  BY <1>1 DEF OneUnderWay, NothingComes, Message, AckFields
<1>5. OneUnderWay'
  BY <1>1, <1>3, <1>4 DEF OneUnderWay, NothingComes, AckComes
<1>6. Stop!AckedIsReceived'
  BY <1>1, <1>3, <1>4 DEF Stop!AckedIsReceived, AckComes, Stop!Slot
<1>. QED BY <1>3, <1>5, <1>6

LEMMA AckTimeout == AckInv /\ Stop!Timeout => AckInv'
<1>. SUFFICES ASSUME AckInv, Stop!Timeout PROVE AckInv'
  OBVIOUS
<1>. USE DEF AckInv
<1>1. /\ sender.at = "select" /\ acks = 0
      /\ slow' = slow /\ received' = received /\ messages' = messages /\ acks' = acks
      /\ ~slow => messages = <<>>
      /\ \/ sender' = Stop!NextMessage(sender)
         \/ sender' = [sender EXCEPT !.at = "send", !.tries = sender.tries + 1]
  BY DEF Stop!Timeout, Stop!Waited
<1>2. AckFields' /\ sender'.at # "select" /\ sender'.acked = sender.acked
  <2>1. CASE sender' = Stop!NextMessage(sender)
    BY <1>1, <2>1, NextMessageFields DEF AckFields
  <2>2. CASE sender' = [sender EXCEPT !.at = "send", !.tries = sender.tries + 1]
    <3>1. sender.tries + 1 \in Nat
      BY DEF AckFields
    <3>2. sender' \in [at : {"send", "select", "end"}, i : Nat, tries : Nat,
                        acked : SUBSET Nat]
      BY <2>2, <3>1 DEF AckFields
    <3>3. sender'.at # "select" /\ sender'.acked = sender.acked
      BY <2>2 DEF AckFields
    <3>. QED BY <1>1, <3>2, <3>3 DEF AckFields
  <2>. QED BY <1>1, <2>1, <2>2
<1>3. OneUnderWay'
  BY <1>1, <1>2 DEF OneUnderWay, NothingComes
<1>4. Stop!AckedIsReceived'
  BY <1>1, <1>2 DEF Stop!AckedIsReceived, Stop!Slot
<1>. QED BY <1>2, <1>3, <1>4

LEMMA AckReceive == AckInv /\ Stop!k_recvfrom => AckInv'
<1>. SUFFICES ASSUME AckInv, Stop!k_recvfrom PROVE AckInv'
  OBVIOUS
<1>. USE DEF AckInv
<1>1. /\ messages # <<>> /\ messages' = Tail(messages)
      /\ received' = received \cup {Stop!Slot(Head(messages))}
      /\ acks' = acks \/ acks' = acks + 1
      /\ slow' = slow /\ sender' = sender
  BY DEF Stop!k_recvfrom, Stop!Sent, Stop!Dropped
<1>2. AckFields'
  BY <1>1 DEF AckFields
<1>3. ~slow => sender.at = "select" /\ Message
  BY <1>1 DEF OneUnderWay, NothingComes, AckComes
<1>4. ASSUME ~slow PROVE messages' = <<>> /\ Head(messages) = sender.i /\ acks = 0
  BY <1>1, <1>3, <1>4 DEF Message, AckFields
<1>5. OneUnderWay'
  BY <1>1, <1>3, <1>4 DEF OneUnderWay, NothingComes, AckComes, Stop!Slot
<1>6. Stop!AckedIsReceived'
  BY <1>1 DEF Stop!AckedIsReceived, Stop!Slot
<1>. QED BY <1>2, <1>5, <1>6

LEMMA AckToNobody == AckInv /\ Stop!ToNobody => AckInv'
<1>. SUFFICES ASSUME AckInv, Stop!ToNobody PROVE AckInv'
  OBVIOUS
<1>. USE DEF AckInv
<1>1. /\ messages # <<>> /\ messages' = Tail(messages)
      /\ slow' = slow /\ sender' = sender /\ received' = received /\ acks' = acks
  BY DEF Stop!ToNobody
<1>2. AckFields'
  BY <1>1 DEF AckFields
<1>3. ~slow => sender.at = "select" /\ Message
  BY <1>1 DEF OneUnderWay, NothingComes, AckComes
<1>4. ~slow => messages' = <<>> /\ acks = 0
  BY <1>1, <1>3 DEF Message, AckFields
<1>5. OneUnderWay'
  BY <1>1, <1>3, <1>4 DEF OneUnderWay, NothingComes
<1>6. Stop!AckedIsReceived'
  BY <1>1 DEF Stop!AckedIsReceived, Stop!Slot
<1>. QED BY <1>2, <1>5, <1>6

(* Whichever program runs, what the stop-and-wait sender takes for         *)
(* received was received, whatever is dropped, for any number of messages, *)
(* attempts and drops (user1.c, line 64).                                  *)
THEOREM AcksMeanReceived == FairSpec => []AckedIsReceived
<1>1. Init => AckInv
  BY AckInit DEF Init
<1>2. AckInv /\ UNCHANGED stopVars => AckInv'
  BY DEF AckInv, stopVars, AckFields, OneUnderWay, NothingComes, Message, AckComes,
         Stop!AckedIsReceived, Stop!Slot
<1>3. AckInv /\ [Next]_vars => AckInv'
  BY <1>2, AckSend, AckTakeAck, AckTimeout, AckReceive, AckToNobody
  DEF Next, vars, Stop!Next, EncFile, Words, StopWait, Sample, Checksum, Chat
<1>4. AckInv => AckedIsReceived
  BY DEF AckInv, AckedIsReceived
<1>. QED BY <1>1, <1>3, <1>4, PTL DEF FairSpec

(* Different messages have different indices, and no other is marked.      *)
Slots == {Stop!Slot(n) : n \in 1 .. NumMessages}
Marked ==
  /\ sender.i \in 1 .. NumMessages
  /\ ~slow => received \subseteq Slots

LEMMA OneSlotEach ==
  ASSUME NEW m \in 1 .. NumMessages, NEW n \in 1 .. NumMessages, Stop!Slot(m) = Stop!Slot(n)
  PROVE  m = n
<1>1. MaxSeqNum \in Nat \ {0} /\ NumMessages \in Nat /\ NumMessages <= MaxSeqNum
  BY TransfersAssumption
<1>2. ASSUME NEW k \in 1 .. NumMessages
      PROVE  Stop!Slot(k) = IF k = MaxSeqNum THEN 0 ELSE k
  <2>1. k \in Nat /\ k <= MaxSeqNum
    BY <1>1, <1>2
  <2>2. CASE k = MaxSeqNum
    <3>1. k % k = 0
      BY <1>1, <2>2
    <3>. QED BY <3>1, <2>2 DEF Stop!Slot
  <2>3. CASE k < MaxSeqNum
    BY <1>1, <2>1, <2>3 DEF Stop!Slot
  <2>. QED BY <1>1, <2>1, <2>2, <2>3
<1>3. m # 0 /\ n # 0
  BY <1>1
<1>. QED BY <1>2, <1>3

LEMMA AllSlots == Cardinality(Slots) = NumMessages
<1>. DEFINE f == [n \in 1 .. NumMessages |-> Stop!Slot(n)]
<1>1. f \in Bijection(1 .. NumMessages, Slots)
  <2>1. f \in Surjection(1 .. NumMessages, Slots)
    BY DEF Slots, Surjection
  <2>2. f \in Injection(1 .. NumMessages, Slots)
    BY OneSlotEach DEF Slots, Injection, IsInjective
  <2>. QED BY <2>1, <2>2 DEF Bijection
<1>2. IsFiniteSet(1 .. NumMessages) /\ Cardinality(1 .. NumMessages) = NumMessages
  <2>1. NumMessages \in Nat \ {0} /\ 1 \in Int /\ NumMessages \in Int
    BY TransfersAssumption
  <2>2. /\ IsFiniteSet(1 .. NumMessages)
        /\ Cardinality(1 .. NumMessages) = IF 1 > NumMessages THEN 0 ELSE NumMessages - 1 + 1
    BY <2>1, FS_Interval
  <2>. QED BY <2>1, <2>2
<1>3. ExistsBijection(1 .. NumMessages, Slots)
  <2>. HIDE DEF f
  <2>. QED BY <1>1 DEF ExistsBijection
<1>. QED BY <1>2, <1>3, FS_Bijection

LEMMA MarkedInit == Stop!Init => Marked
BY TransfersAssumption DEF Stop!Init, Marked

LEMMA MarkedStep == AckInv /\ Marked /\ Stop!Next => Marked'
<1>. SUFFICES ASSUME AckInv, Marked, Stop!Next PROVE Marked'
  OBVIOUS
<1>0. /\ NumMessages \in Nat \ {0} /\ sender.i \in 1 .. NumMessages
      /\ sender \in [at : {"send", "select", "end"}, i : Nat, tries : Nat, acked : SUBSET Nat]
  BY TransfersAssumption DEF AckInv, AckFields, Marked
<1>1. ASSUME NEW now, now.i = sender.i, now \in [at : {"send", "select", "end"}, i : Nat,
                                                 tries : Nat, acked : SUBSET Nat],
             sender' = Stop!NextMessage(now)
      PROVE  sender'.i \in 1 .. NumMessages
  <2>1. sender'.i = IF now.i = NumMessages THEN now.i ELSE now.i + 1
    BY <1>1 DEF Stop!NextMessage
  <2>. QED BY <1>0, <1>1, <2>1
<1>2. CASE Stop!k_sendto
  BY <1>0, <1>2 DEF Stop!k_sendto, Marked
<1>3. CASE Stop!TakeAck
  <2>. DEFINE now == [sender EXCEPT !.acked = sender.acked \cup {sender.i}]
  <2>1. sender' = Stop!NextMessage(now) /\ UNCHANGED <<slow, received>>
    BY <1>3 DEF Stop!TakeAck
  <2>2. /\ now \in [at : {"send", "select", "end"}, i : Nat, tries : Nat, acked : SUBSET Nat]
        /\ now.i = sender.i
    BY <1>0
  <2>. HIDE DEF now
  <2>. QED BY <1>1, <2>1, <2>2 DEF Marked
<1>4. CASE Stop!Timeout
  <2>1. UNCHANGED <<slow, received>>
    BY <1>4 DEF Stop!Timeout
  <2>2. \/ sender' = Stop!NextMessage(sender)
        \/ sender' = [sender EXCEPT !.at = "send", !.tries = sender.tries + 1]
    BY <1>4 DEF Stop!Timeout
  <2>. QED BY <1>0, <1>1, <2>1, <2>2 DEF Marked
<1>5. CASE Stop!k_recvfrom
  <2>1. /\ messages # <<>> /\ received' = received \cup {Stop!Slot(Head(messages))}
        /\ UNCHANGED <<slow, sender>>
    BY <1>5 DEF Stop!k_recvfrom
  <2>2. ~slow => messages = <<sender.i>>
    BY <2>1 DEF AckInv, OneUnderWay, NothingComes, Message, AckComes
  <2>3. ~slow => Stop!Slot(Head(messages)) \in Slots
    BY <1>0, <2>2 DEF Slots
  <2>. QED BY <2>1, <2>3 DEF Marked
<1>6. CASE Stop!ToNobody
  BY <1>6 DEF Stop!ToNobody, Marked
<1>. QED BY <1>2, <1>3, <1>4, <1>5, <1>6 DEF Stop!Next

LEMMA AckStep == AckInv /\ [Next]_vars => AckInv'
<1>1. AckInv /\ UNCHANGED stopVars => AckInv'
  BY DEF AckInv, stopVars, AckFields, OneUnderWay, NothingComes, Message, AckComes,
         Stop!AckedIsReceived, Stop!Slot
<1>. QED BY <1>1, AckSend, AckTakeAck, AckTimeout, AckReceive, AckToNobody
     DEF Next, vars, Stop!Next, EncFile, Words, StopWait, Sample, Checksum, Chat

(* An ACK for every message means a receiver that has every message.      *)
AllAckedAllReceived ==
  ~slow /\ sender.acked = 1 .. NumMessages => Stop!Done

(* A sender that has an ACK for every message leaves a receiver that has   *)
(* every message: both programs come to their end, for any number of       *)
(* messages below that of the indices (user2.c counts what it marks).      *)
THEOREM AllReceived == FairSpec => []AllAckedAllReceived
<1>1. Init => AckInv /\ Marked
  BY AckInit, MarkedInit DEF Init
<1>2. Marked /\ UNCHANGED stopVars => Marked'
  BY DEF Marked, stopVars, Slots, Stop!Slot
<1>3. AckInv /\ Marked /\ [Next]_vars => Marked'
  BY <1>2, MarkedStep
  DEF Next, vars, EncFile, Words, StopWait, Sample, Checksum, Chat
<1>4. AckInv /\ Marked => AllAckedAllReceived
  <2>. SUFFICES ASSUME AckInv, Marked, ~slow, sender.acked = 1 .. NumMessages
                PROVE  Stop!Cardinality(received) = NumMessages
    BY DEF AllAckedAllReceived, Stop!Done
  <2>1. Slots \subseteq received
    BY DEF AckInv, Stop!AckedIsReceived, Slots
  <2>2. received = Slots
    BY <2>1 DEF Marked
  <2>. QED BY <2>2, AllSlots DEF Stop!Cardinality, Cardinality
<1>. QED BY <1>1, <1>3, <1>4, AckStep, PTL DEF FairSpec
-----------------------------------------------------------------------------
(* The words of a file; an empty one counts as its name.                   *)
Text == {"word", "FINISH", "name", "none"}
Source == IF file = <<>> THEN <<"name">> ELSE file

WordFields ==
  /\ file \in Seq({"word", "FINISH"}) \cup {<<"none">>}
  /\ reader \in [at : {"name", "hello", "words", "end"}, got : Seq(Text)]
  /\ server \in [at : {"name", "words", "end"}, next : Nat]

(* The client has written the first lines, and at most one datagram is     *)
(* under way: the name, the first line or that there is no file, or the    *)
(* request for the line that comes next or this line.                      *)
Written == reader.got
Beginning ==
  /\ Len(Written) <= Len(Source)
  /\ \A i \in 1..Len(Written) : Written[i] = Source[i]
NoneComes == requests = <<>> /\ replies = <<>>
NameComes ==
  /\ reader.at = "hello" /\ server.at = "name"
  /\ requests = <<"name">> /\ replies = <<>>
RefusalComes ==
  /\ reader.at = "hello" /\ Word!NoFile
  /\ requests = <<>> /\ replies = <<"NOTFOUND">>
RequestComes ==
  /\ reader.at = "words" /\ server.at = "words"
  /\ requests = <<"WORD">> /\ replies = <<>>
  /\ server.next = Len(Written) + 1
LineComes ==
  /\ reader.at \in {"hello", "words"} /\ ~Word!NoFile
  /\ requests = <<>> /\ Len(Written) < Len(Source)
  /\ replies = <<Source[Len(Written) + 1]>>
  /\ server.next = Len(Written) + 2
  /\ \/ server.at = "words"
     \/ reader.at = "words" /\ Word!IsLast(Source[Len(Written) + 1])
OneComes ==
  /\ reader.at = "name" => server.at = "name" /\ NoneComes
  /\ reader.at \in {"name", "hello"} => Written = <<>>
  /\ reader.at = "words" => ~Word!NoFile /\ Written # <<>>
  /\ reader.at = "end" =>
       /\ NoneComes
       /\ Word!NoFile \/ (Written # <<>> /\ Word!IsLast(Written[Len(Written)]))
  /\ NoneComes \/ NameComes \/ RefusalComes \/ RequestComes \/ LineComes

WordInv == WordFields /\ Beginning /\ OneComes

LEMMA SourceText == ASSUME WordFields PROVE Source \in Seq(Text) /\ Len(Source) >= 1
<1>1. CASE file = <<>>
  BY <1>1 DEF Source, Text
<1>2. CASE file = <<"none">>
  BY <1>2 DEF Source, Text
<1>3. CASE file \in Seq({"word", "FINISH"}) /\ file # <<>>
  <2>1. file \in Seq(Text)
    BY <1>3, SeqMonotonic DEF Text
  <2>2. Len(file) >= 1
    BY <1>3, EmptySeq
  <2>. QED BY <1>3, <2>1, <2>2 DEF Source
<1>. QED BY <1>1, <1>2, <1>3 DEF WordFields

LEMMA WordInit == Word!Init => WordInv
<1>. SUFFICES ASSUME Word!Init PROVE WordInv
  OBVIOUS
<1>1. file \in Seq({"word", "FINISH"}) \cup {<<"none">>}
  <2>. SUFFICES ASSUME file \in Word!Lines PROVE file \in Seq({"word", "FINISH"})
    BY DEF Word!Init
  <2>1. PICK m \in 0..MaxLines : file \in [1..m -> {"word", "FINISH"}]
    BY DEF Word!Lines, Word!BoundedSeq, Word!SeqOf
  <2>2. m \in Nat
    BY <2>1, TransfersAssumption
  <2>. QED BY <2>1, <2>2, SeqDef
<1>2. /\ reader = [at |-> "name", got |-> <<>>]
      /\ server = [at |-> "name", next |-> 1] /\ NoneComes
  BY DEF Word!Init, NoneComes
<1>3. WordFields
  BY <1>1, <1>2, EmptySeq DEF WordFields
<1>4. Len(Source) >= 1
  BY <1>3, SourceText
<1>5. Beginning
  BY <1>2, <1>4 DEF Beginning, Written
<1>6. OneComes
  BY <1>2 DEF OneComes, Written
<1>. QED BY <1>3, <1>5, <1>6 DEF WordInv

LEMMA WordSendName == WordInv /\ Word!SendName => WordInv'
<1>. SUFFICES ASSUME WordInv, Word!SendName PROVE WordInv'
  OBVIOUS
<1>. USE DEF WordInv
<1>1. /\ reader.at = "name" /\ NoneComes /\ server.at = "name" /\ Written = <<>>
      /\ requests' = Append(requests, "name") /\ UNCHANGED <<file, server, replies>>
      /\ reader' = [reader EXCEPT !.at = "hello"]
  BY DEF Word!SendName, OneComes
<1>2. /\ reader'.at = "hello" /\ reader'.got = reader.got
      /\ reader' \in [at : {"name", "hello", "words", "end"}, got : Seq(Text)]
  BY <1>1 DEF WordFields
<1>3. WordFields'
  BY <1>1, <1>2 DEF WordFields
<1>4. Beginning'
  BY <1>1, <1>2 DEF Beginning, Written, Source
<1>5. requests' = <<"name">>
  BY <1>1 DEF NoneComes
<1>6. OneComes'
  BY <1>1, <1>2, <1>5 DEF OneComes, NameComes, NoneComes, Written
<1>. QED BY <1>3, <1>4, <1>6

LEMMA WordServeName == WordInv /\ Word!ServeName => WordInv'
<1>. SUFFICES ASSUME WordInv, Word!ServeName PROVE WordInv'
  OBVIOUS
<1>. USE DEF WordInv
<1>1. server.at = "name" /\ requests # <<>> /\ requests' = Tail(requests)
      /\ UNCHANGED <<file, reader>>
  BY DEF Word!ServeName
<1>2. NameComes
  BY <1>1 DEF OneComes, NoneComes, RefusalComes, RequestComes, LineComes
<1>3. requests' = <<>> /\ replies = <<>> /\ reader.at = "hello" /\ Written = <<>>
  BY <1>1, <1>2 DEF NameComes, OneComes
<1>4. Source \in Seq(Text) /\ Len(Source) >= 1
  BY SourceText
<1>5. Source' = Source /\ Written' = Written /\ (Word!NoFile' <=> Word!NoFile)
  BY <1>1 DEF Source, Written, Word!NoFile
<1>6. CASE Word!NoFile
  <2>1. replies' = <<"NOTFOUND">> /\ server' = [server EXCEPT !.at = "end"]
    BY <1>3, <1>6 DEF Word!ServeName
  <2>2. WordFields'
    BY <1>1, <2>1 DEF WordFields
  <2>3. OneComes'
    BY <1>1, <1>3, <1>5, <1>6, <2>1 DEF OneComes, RefusalComes
  <2>. QED BY <1>5, <2>2, <2>3 DEF Beginning
<1>7. CASE ~Word!NoFile
  <2>1. /\ replies' = Append(replies, IF file = <<>> THEN "name" ELSE file[1])
        /\ server' = [at |-> "words", next |-> 2]
    BY <1>7 DEF Word!ServeName, Word!AfterHello
  <2>2. replies' = <<Source[1]>>
    BY <1>3, <2>1 DEF Source
  <2>3. WordFields'
    BY <1>1, <2>1 DEF WordFields
  <2>4. Len(Written) = 0
    BY <1>3
  <2>5. LineComes'
    <3>1. Len(Written') = 0 /\ Len(Written') + 1 = 1 /\ Len(Written') + 2 = 2
          /\ Len(Source') >= 1
      BY <1>4, <1>5, <2>4
    <3>2. replies' = <<Source'[Len(Written') + 1]>>
      BY <1>5, <2>2, <3>1
    <3>3. Len(Written') < Len(Source')
      BY <1>4, <1>5, <3>1
    <3>. QED BY <1>1, <1>3, <1>5, <1>7, <2>1, <3>1, <3>2, <3>3 DEF LineComes, Word!IsLast
  <2>6. OneComes'
    BY <1>1, <1>3, <1>5, <2>5 DEF OneComes
  <2>. QED BY <1>5, <2>3, <2>6 DEF Beginning
<1>. QED BY <1>6, <1>7

(* A line that is written behind the others.                               *)
LEMMA OneMore ==
  ASSUME WordFields, Beginning, NEW now, now \in Seq(Text),
         Len(Written) < Len(Source), now = Append(Written, Source[Len(Written) + 1])
  PROVE  /\ Len(now) = Len(Written) + 1 /\ now # <<>>
         /\ Len(now) <= Len(Source) /\ \A i \in 1..Len(now) : now[i] = Source[i]
<1>. PICK k : k = Len(Written)
  OBVIOUS
<1>1. Written \in Seq(Text) /\ k \in Nat /\ Source \in Seq(Text) /\ Len(Source) \in Nat
  BY SourceText DEF WordFields, Written
<1>2. Source[k + 1] \in Text
  BY <1>1
<1>3. /\ Len(now) = k + 1 /\ now[k + 1] = Source[k + 1]
      /\ \A i \in 1..k : now[i] = Written[i]
  BY <1>1, <1>2
<1>4. \A i \in 1..Len(now) : now[i] = Source[i]
  BY <1>1, <1>3 DEF Beginning
<1>5. now # <<>>
  BY <1>1, <1>3
<1>. QED BY <1>1, <1>3, <1>4, <1>5

LEMMA WordReadHello == WordInv /\ Word!ReadHello => WordInv'
<1>. SUFFICES ASSUME WordInv, Word!ReadHello PROVE WordInv'
  OBVIOUS
<1>. USE DEF WordInv
<1>1. /\ reader.at = "hello" /\ replies # <<>> /\ replies' = Tail(replies)
      /\ UNCHANGED <<file, server>> /\ Written = <<>>
  BY DEF Word!ReadHello, OneComes
<1>2. Source' = Source /\ (Word!NoFile' <=> Word!NoFile)
  BY <1>1 DEF Source, Word!NoFile
<1>3. Source \in Seq(Text) /\ Len(Source) >= 1
  BY SourceText
<1>4. RefusalComes \/ LineComes
  BY <1>1 DEF OneComes, NoneComes, NameComes, RequestComes
<1>5. CASE RefusalComes
  <2>1. Head(replies) = "NOTFOUND" /\ replies' = <<>> /\ requests = <<>>
    BY <1>1, <1>5 DEF RefusalComes
  <2>2. reader' = [reader EXCEPT !.at = "end"] /\ requests' = requests
    BY <2>1 DEF Word!ReadHello
  <2>3. WordFields' /\ reader'.got = reader.got /\ reader'.at = "end"
    BY <1>1, <2>2 DEF WordFields
  <2>4. Beginning'
    BY <1>2, <2>3 DEF Beginning, Written
  <2>5. OneComes'
    <3>1. NoneComes' /\ Word!NoFile'
      BY <1>2, <1>5, <2>1, <2>2 DEF NoneComes, RefusalComes
    <3>. QED BY <2>3, <3>1 DEF OneComes
  <2>. QED BY <2>3, <2>4, <2>5
<1>6. CASE LineComes
  <2>1. Len(Written) = 0 /\ Len(Written) + 1 = 1 /\ Len(Written) + 2 = 2
    BY <1>1
  <2>2. /\ replies = <<Source[1]>> /\ server.next = 2 /\ server.at = "words"
        /\ requests = <<>> /\ ~Word!NoFile
    BY <1>1, <1>6, <2>1 DEF LineComes
  <2>3. Source[1] \in Text
    BY <1>3
  <2>4. Head(replies) = Source[1] /\ Head(replies) # "NOTFOUND" /\ replies' = <<>>
    BY <1>1, <2>2, <2>3 DEF Text
  <2>5. /\ reader' = [at |-> "words", got |-> <<Source[1]>>]
        /\ requests' = Append(requests, "WORD")
    BY <2>4 DEF Word!ReadHello
  <2>6. WordFields'
    BY <1>1, <2>3, <2>5 DEF WordFields
  <2>7. Written' = <<Source[1]>> /\ reader'.at = "words" /\ requests' = <<"WORD">>
    BY <2>2, <2>5 DEF Written
  <2>8. Len(Written') = 1 /\ Written' # <<>>
    BY <2>7
  <2>9. Beginning'
    BY <1>2, <1>3, <2>7, <2>8 DEF Beginning
  <2>10. RequestComes'
    BY <1>1, <2>2, <2>4, <2>7, <2>8 DEF RequestComes
  <2>11. OneComes'
    BY <1>2, <2>2, <2>7, <2>8, <2>10 DEF OneComes
  <2>. QED BY <2>6, <2>9, <2>11
<1>. QED BY <1>4, <1>5, <1>6

LEMMA WordServeWord == WordInv /\ Word!ServeWord => WordInv'
<1>. SUFFICES ASSUME WordInv, Word!ServeWord PROVE WordInv'
  OBVIOUS
<1>. USE DEF WordInv
<1>. PICK k : k = Len(Written)
  OBVIOUS
<1>1. server.at = "words" /\ requests # <<>> /\ requests' = Tail(requests)
      /\ UNCHANGED <<file, reader>>
  BY DEF Word!ServeWord
<1>2. RequestComes
  BY <1>1 DEF OneComes, NoneComes, NameComes, RefusalComes, LineComes
<1>3. /\ requests' = <<>> /\ replies = <<>> /\ reader.at = "words" /\ server.next = k + 1
      /\ ~Word!NoFile /\ Written # <<>>
  BY <1>1, <1>2 DEF RequestComes, OneComes
<1>4. Source' = Source /\ Written' = Written /\ (Word!NoFile' <=> Word!NoFile) /\ k \in Nat
  BY <1>1 DEF Source, Written, Word!NoFile, WordFields
<1>5. CASE server.next <= Len(file)
  <2>1. /\ replies' = Append(replies, file[k + 1])
        /\ server' = [at |-> IF Word!IsLast(file[k + 1]) THEN "end" ELSE "words",
                      next |-> server.next + 1]
    BY <1>3, <1>5 DEF Word!ServeWord
  <2>2. Source = file
    <3>1. file # <<>>
      BY <1>3, <1>4, <1>5
    <3>. QED BY <3>1 DEF Source
  <2>3. replies' = <<Source[k + 1]>>
    BY <1>3, <2>1, <2>2
  <2>4. server'.next = k + 2
    BY <1>3, <1>4, <2>1
  <2>5. server'.at = "words" \/ Word!IsLast(Source[k + 1])
    BY <2>1, <2>2
  <2>6. WordFields'
    BY <1>1, <1>3, <1>4, <2>1 DEF WordFields
  <2>7. k < Len(Source)
    <3>1. Len(Source) \in Nat
      BY SourceText
    <3>. QED BY <1>3, <1>4, <1>5, <2>2, <3>1
  <2>8. LineComes'
    BY <1>1, <1>3, <1>4, <2>3, <2>4, <2>5, <2>7 DEF LineComes, Word!IsLast
  <2>9. OneComes'
    BY <1>1, <1>3, <1>4, <2>8 DEF OneComes
  <2>. QED BY <1>4, <2>6, <2>9 DEF Beginning
<1>6. CASE ~(server.next <= Len(file))
  <2>1. server' = server /\ replies' = replies
    BY <1>6 DEF Word!ServeWord
  <2>2. WordFields'
    BY <1>1, <2>1 DEF WordFields
  <2>3. OneComes'
    BY <1>1, <1>3, <1>4, <2>1 DEF OneComes, NoneComes
  <2>. QED BY <1>4, <2>2, <2>3 DEF Beginning
<1>. QED BY <1>5, <1>6

LEMMA WordReadWord == WordInv /\ Word!ReadWord => WordInv'
<1>. SUFFICES ASSUME WordInv, Word!ReadWord PROVE WordInv'
  OBVIOUS
<1>. USE DEF WordInv
<1>. PICK k : k = Len(Written)
  OBVIOUS
<1>1. reader.at = "words" /\ replies # <<>> /\ replies' = Tail(replies)
      /\ UNCHANGED <<file, server>>
  BY DEF Word!ReadWord
<1>2. LineComes /\ ~Word!NoFile
  BY <1>1 DEF OneComes, NoneComes, NameComes, RefusalComes, RequestComes
<1>. PICK word : word = Source[k + 1]
  OBVIOUS
<1>3. Source' = Source /\ (Word!NoFile' <=> Word!NoFile)
  BY <1>1 DEF Source, Word!NoFile
<1>4. /\ Source \in Seq(Text) /\ Len(Source) \in Nat /\ k \in Nat /\ Written \in Seq(Text)
  BY SourceText DEF WordFields, Written
<1>5. /\ replies = <<word>> /\ replies' = <<>> /\ Head(replies) = word
      /\ requests = <<>> /\ k < Len(Source) /\ server.next = k + 2
      /\ server.at = "words" \/ Word!IsLast(word)
  BY <1>1, <1>2 DEF LineComes
<1>6. word \in Text
  BY <1>4, <1>5
<1>7. reader' = [at |-> IF Word!IsLast(word) THEN "end" ELSE "words",
                 got |-> Append(reader.got, word)]
  BY <1>5 DEF Word!ReadWord
<1>8. Written' = Append(Written, word) /\ Written' \in Seq(Text)
      /\ reader'.at = IF Word!IsLast(word) THEN "end" ELSE "words"
  BY <1>4, <1>6, <1>7 DEF Written
<1>9. /\ Len(Written') = k + 1 /\ Written' # <<>>
      /\ Len(Written') <= Len(Source) /\ \A i \in 1..Len(Written') : Written'[i] = Source[i]
  BY <1>5, <1>8, OneMore
<1>10. WordFields'
  BY <1>1, <1>7, <1>8 DEF WordFields, Written
<1>11. Beginning'
  BY <1>3, <1>9 DEF Beginning
<1>12. CASE Word!IsLast(word)
  <2>1. reader'.at = "end" /\ requests' = requests
    BY <1>5, <1>8, <1>12 DEF Word!ReadWord
  <2>2. Written'[Len(Written')] = word
    BY <1>4, <1>8, <1>9
  <2>3. OneComes'
    BY <1>5, <1>9, <1>12, <2>1, <2>2 DEF OneComes, NoneComes
  <2>. QED BY <1>10, <1>11, <2>3
<1>13. CASE ~Word!IsLast(word)
  <2>1. reader'.at = "words" /\ requests' = Append(requests, "WORD")
    BY <1>5, <1>8, <1>13 DEF Word!ReadWord
  <2>2. requests' = <<"WORD">>
    BY <1>5, <2>1
  <2>3. RequestComes'
    BY <1>1, <1>4, <1>5, <1>9, <1>13, <2>1, <2>2 DEF RequestComes
  <2>4. OneComes'
    BY <1>2, <1>3, <1>9, <2>1, <2>3 DEF OneComes
  <2>. QED BY <1>10, <1>11, <2>4
<1>. QED BY <1>12, <1>13

LEMMA WordLose == WordInv /\ Word!Lose => WordInv'
<1>. SUFFICES ASSUME WordInv, Word!Lose PROVE WordInv'
  OBVIOUS
<1>. USE DEF WordInv
<1>1. UNCHANGED <<file, server, reader>>
  BY DEF Word!Lose
<1>2. Source' = Source /\ Written' = Written /\ (Word!NoFile' <=> Word!NoFile)
  BY <1>1 DEF Source, Written, Word!NoFile
<1>3. ~NoneComes
  BY DEF Word!Lose, NoneComes
<1>4. NoneComes'
  <2>1. NameComes \/ RefusalComes \/ RequestComes \/ LineComes
    BY <1>3 DEF OneComes
  <2>2. CASE NameComes \/ RequestComes
    <3>1. PICK x : requests = <<x>>
      BY <2>2 DEF NameComes, RequestComes
    <3>2. Tail(requests) = <<>>
      BY <3>1
    <3>3. replies = <<>>
      BY <2>2 DEF NameComes, RequestComes
    <3>. QED BY <3>2, <3>3 DEF Word!Lose, NoneComes
  <2>3. CASE RefusalComes
    BY <2>3 DEF Word!Lose, NoneComes, RefusalComes
  <2>4. CASE LineComes
    BY <2>4 DEF Word!Lose, NoneComes, LineComes
  <2>. QED BY <2>1, <2>2, <2>3, <2>4
<1>5. WordFields' /\ Beginning'
  BY <1>1, <1>2 DEF WordFields, Beginning
<1>6. OneComes'
  BY <1>1, <1>2, <1>3, <1>4 DEF OneComes
<1>. QED BY <1>5, <1>6

(* What the client of the word transfer has written is a beginning of the  *)
(* file, and at its end the line before which it stopped is a FINISH, for  *)
(* any file and whatever is lost (wordserver.c, line 74): no datagram has  *)
(* a number, but there is never more than one under way.                   *)
THEOREM WordsInOrder == FairSpec => []FileInOrder
<1>1. Init => WordInv
  BY WordInit DEF Init
<1>2. WordInv /\ UNCHANGED wordVars => WordInv'
  BY DEF WordInv, wordVars, WordFields, Beginning, OneComes, NoneComes, NameComes,
         RefusalComes, RequestComes, LineComes, Source, Written, Word!NoFile
<1>3. WordInv /\ [Next]_vars => WordInv'
  BY <1>2, WordSendName, WordServeName, WordReadHello, WordServeWord, WordReadWord, WordLose
  DEF Next, vars, Word!Next, Word!System, EncFile, Words, StopWait, Sample, Checksum, Chat
<1>4. WordInv => FileInOrder
  <2>. SUFFICES ASSUME WordInv PROVE FileInOrder
    OBVIOUS
  <2>1. /\ Written \in Seq(Text) /\ Len(Written) \in Nat
        /\ Source \in Seq(Text) /\ Len(Source) \in Nat
    BY SourceText DEF WordInv, WordFields, Written
  <2>2. Len(Written) <= Len(Source) /\ \A i \in 1..Len(Written) : Written[i] = Source[i]
    BY DEF WordInv, Beginning
  <2>3. SubSeq(Written, 1, Len(Written)) = SubSeq(Source, 1, Len(Written))
    BY <2>1, <2>2
  <2>4. reader.at = "end" /\ ~Word!NoFile => Written[Len(Written)] = "FINISH"
    BY DEF WordInv, OneComes, Word!IsLast
  <2>. QED BY <2>2, <2>3, <2>4 DEF FileInOrder, Word!FileInOrder, Word!IsPrefix, Word!Last,
                                   Written, Source
<1>. QED BY <1>1, <1>3, <1>4, PTL DEF FairSpec

(* The server has not sent a FINISH, the first line aside, as long as it   *)
(* answers, and without a loss one program has something to read.          *)
ServerPast ==
  /\ server.at = "name"  => replies = <<>>
  /\ server.at = "words" => /\ ~Word!NoFile /\ server.next >= 2
                            /\ \A i \in 2 .. Len(file) : i < server.next => file[i] # "FINISH"
PastEnd  == server.at = "words" /\ server.next > Len(file)
SomeComes ==
  lost = 0 => /\ NoneComes => reader.at \in {"name", "end"} \/ PastEnd
              /\ reader.at = "end" => server.at = "end"
Flowing == lost \in Nat /\ ServerPast /\ SomeComes

LEMMA FlowInit == Word!Init => Flowing
BY DEF Word!Init, Flowing, ServerPast, SomeComes

LEMMA FlowSendName == WordInv /\ Flowing /\ Word!SendName => Flowing'
<1>. SUFFICES ASSUME WordInv, Flowing, Word!SendName PROVE Flowing'
  OBVIOUS
<1>1. /\ reader.at = "name" /\ NoneComes /\ server.at = "name"
      /\ requests' = Append(requests, "name") /\ UNCHANGED <<file, server, replies, lost>>
      /\ reader' = [reader EXCEPT !.at = "hello"]
  BY DEF Word!SendName, WordInv, OneComes
<1>2. reader'.at = "hello"
  BY <1>1 DEF WordInv, WordFields
<1>3. requests' = <<"name">>
  BY <1>1 DEF NoneComes
<1>4. ServerPast'
  BY <1>1 DEF Flowing, ServerPast, Word!NoFile
<1>5. SomeComes'
  BY <1>2, <1>3 DEF SomeComes, NoneComes
<1>. QED BY <1>1, <1>4, <1>5 DEF Flowing

LEMMA FlowServeName == WordInv /\ Flowing /\ Word!ServeName => Flowing'
<1>. SUFFICES ASSUME WordInv, Flowing, Word!ServeName PROVE Flowing'
  OBVIOUS
<1>1. /\ server.at = "name" /\ requests # <<>> /\ UNCHANGED <<file, reader, lost>>
      /\ server \in [at : {"name", "words", "end"}, next : Nat]
  BY DEF Word!ServeName, WordInv, WordFields
<1>2. replies = <<>>
  BY <1>1 DEF Flowing, ServerPast
<1>3. reader.at # "end"
  BY <1>1 DEF WordInv, OneComes, NoneComes
<1>4. PICK x : replies' = Append(replies, x)
  BY DEF Word!ServeName
<1>5. replies' = <<x>>
  BY <1>2, <1>4
<1>6. SomeComes'
  BY <1>1, <1>3, <1>5 DEF SomeComes, NoneComes
<1>7. ServerPast'
  <2>1. CASE Word!NoFile
    <3>1. server'.at = "end"
      BY <1>1, <2>1 DEF Word!ServeName
    <3>. QED BY <3>1 DEF ServerPast
  <2>2. CASE ~Word!NoFile
    <3>1. server'.at = "words" /\ server'.next = 2
      BY <2>2 DEF Word!ServeName, Word!AfterHello
    <3>2. \A i \in 2 .. Len(file) : ~(i < 2)
      OBVIOUS
    <3>. QED BY <1>1, <2>2, <3>1, <3>2 DEF ServerPast, Word!NoFile
  <2>. QED BY <2>1, <2>2
<1>. QED BY <1>1, <1>6, <1>7 DEF Flowing

LEMMA FlowReadHello == WordInv /\ Flowing /\ Word!ReadHello => Flowing'
<1>. SUFFICES ASSUME WordInv, Flowing, Word!ReadHello PROVE Flowing'
  OBVIOUS
<1>1. /\ reader.at = "hello" /\ replies # <<>> /\ replies' = Tail(replies)
      /\ UNCHANGED <<file, server, lost>>
  BY DEF Word!ReadHello
<1>2. RefusalComes \/ LineComes
  BY <1>1 DEF WordInv, OneComes, NoneComes, NameComes, RequestComes
<1>3. replies' = <<>>
  <2>1. PICK x : replies = <<x>>
    BY <1>2 DEF RefusalComes, LineComes
  <2>. QED BY <1>1, <2>1
<1>4. ServerPast'
  BY <1>1, <1>3 DEF Flowing, ServerPast, Word!NoFile
<1>5. server.at # "name"
  BY <1>1 DEF Flowing, ServerPast
<1>6. CASE Head(replies) = "NOTFOUND"
  <2>1. Word!NoFile
    <3>1. CASE LineComes
      <4>1. /\ Source \in Seq(Text) /\ Len(Source) \in Nat /\ Len(Written) \in Nat
            /\ Len(Written) < Len(Source)
        BY <3>1, SourceText DEF WordInv, WordFields, Written, LineComes
      <4>2. Source[Len(Written) + 1] \in Text
        BY <4>1
      <4>3. Head(replies) = Source[Len(Written) + 1]
        BY <3>1 DEF LineComes
      <4>. QED BY <1>6, <4>2, <4>3 DEF Text
    <3>2. CASE RefusalComes
      BY <3>2 DEF RefusalComes
    <3>. QED BY <1>2, <3>1, <3>2
  <2>2. server.at = "end"
    BY <1>5, <2>1 DEF Flowing, ServerPast, WordInv, WordFields
  <2>3. reader'.at = "end"
    BY <1>6 DEF Word!ReadHello, WordInv, WordFields
  <2>4. SomeComes'
    BY <1>1, <2>2, <2>3 DEF SomeComes
  <2>. QED BY <1>1, <1>4, <2>4 DEF Flowing
<1>7. CASE Head(replies) # "NOTFOUND"
  <2>1. reader'.at = "words" /\ requests' = Append(requests, "WORD") /\ requests = <<>>
    BY <1>2, <1>7 DEF Word!ReadHello, RefusalComes, LineComes
  <2>2. requests' = <<"WORD">>
    BY <2>1
  <2>3. SomeComes'
    BY <2>1, <2>2 DEF SomeComes, NoneComes
  <2>. QED BY <1>1, <1>4, <2>3 DEF Flowing
<1>. QED BY <1>6, <1>7

LEMMA FlowServeWord == WordInv /\ Flowing /\ Word!ServeWord => Flowing'
<1>. SUFFICES ASSUME WordInv, Flowing, Word!ServeWord PROVE Flowing'
  OBVIOUS
<1>1. /\ server.at = "words" /\ requests # <<>> /\ UNCHANGED <<file, reader, lost>>
  BY DEF Word!ServeWord
<1>2. RequestComes
  BY <1>1 DEF WordInv, OneComes, NoneComes, NameComes, RefusalComes, LineComes
<1>3. replies = <<>> /\ reader.at = "words" /\ server.next \in Nat
  BY <1>2 DEF RequestComes, WordInv, WordFields
<1>. PICK n : n = server.next
  OBVIOUS
<1>4. CASE n <= Len(file)
  <2>1. /\ replies' = Append(replies, file[n])
        /\ server' = [at |-> IF Word!IsLast(file[n]) THEN "end" ELSE "words", next |-> n + 1]
    BY <1>4 DEF Word!ServeWord
  <2>2. replies' = <<file[n]>>
    BY <1>3, <2>1
  <2>3. SomeComes'
    BY <1>1, <1>3, <2>2 DEF SomeComes, NoneComes
  <2>4. CASE Word!IsLast(file[n])
    <3>1. server'.at = "end"
      BY <2>1, <2>4
    <3>2. ServerPast'
      BY <3>1 DEF ServerPast
    <3>. QED BY <1>1, <2>3, <3>2 DEF Flowing
  <2>5. CASE ~Word!IsLast(file[n])
    <3>1. server'.at = "words" /\ server'.next = n + 1 /\ file[n] # "FINISH"
      BY <2>1, <2>5 DEF Word!IsLast
    <3>2. ~Word!NoFile /\ n >= 2 /\ \A i \in 2 .. Len(file) : i < n => file[i] # "FINISH"
      BY <1>1 DEF Flowing, ServerPast
    <3>3. \A i \in 2 .. Len(file) : i < n + 1 => i < n \/ i = n
      BY <1>3
    <3>4. n + 1 >= 2
      BY <1>3, <3>2
    <3>5. ServerPast'
      BY <1>1, <3>1, <3>2, <3>3, <3>4 DEF ServerPast, Word!NoFile
    <3>. QED BY <1>1, <2>3, <3>5 DEF Flowing
  <2>. QED BY <2>4, <2>5
<1>5. CASE ~(n <= Len(file))
  <2>1. server' = server /\ replies' = replies
    BY <1>5 DEF Word!ServeWord
  <2>2. ServerPast'
    BY <1>1, <2>1 DEF Flowing, ServerPast, Word!NoFile
  <2>3. Len(file) \in Nat
    BY DEF WordInv, WordFields
  <2>4. PastEnd'
    BY <1>1, <1>3, <1>5, <2>1, <2>3 DEF PastEnd
  <2>5. SomeComes'
    BY <1>1, <1>3, <2>4 DEF SomeComes
  <2>. QED BY <1>1, <2>2, <2>5 DEF Flowing
<1>. QED BY <1>4, <1>5

LEMMA FlowReadWord == WordInv /\ Flowing /\ Word!ReadWord => Flowing'
<1>. SUFFICES ASSUME WordInv, Flowing, Word!ReadWord PROVE Flowing'
  OBVIOUS
<1>. PICK k : k = Len(Written)
  OBVIOUS
<1>1. /\ reader.at = "words" /\ replies # <<>> /\ replies' = Tail(replies)
      /\ UNCHANGED <<file, server, lost>>
  BY DEF Word!ReadWord
<1>2. LineComes /\ ~Word!NoFile /\ Written # <<>>
  BY <1>1 DEF WordInv, OneComes, NoneComes, NameComes, RefusalComes, RequestComes
<1>. PICK word : word = Source[k + 1]
  OBVIOUS
<1>3. /\ replies = <<word>> /\ Head(replies) = word /\ requests = <<>>
      /\ server.next = k + 2 /\ k < Len(Source)
      /\ server.at = "words" \/ Word!IsLast(word)
  BY <1>2 DEF LineComes
<1>4. replies' = <<>>
  BY <1>1, <1>3
<1>5. ServerPast'
  BY <1>1, <1>4 DEF Flowing, ServerPast, Word!NoFile
<1>6. CASE Word!IsLast(word)
  <2>1. reader'.at = "end"
    BY <1>3, <1>6 DEF Word!ReadWord
  <2>2. server.at = "end"
    <3>1. SUFFICES ASSUME server.at = "words" PROVE FALSE
      <4>1. server.at # "name"
        BY <1>1 DEF Flowing, ServerPast
      <4>. QED BY <3>1, <4>1 DEF WordInv, WordFields
    <3>2. Written \in Seq(Text) /\ Len(Source) \in Nat
      BY SourceText DEF WordInv, WordFields, Written
    <3>3. k \in Nat /\ k >= 1
      BY <1>2, <3>2, EmptySeq
    <3>4. Source = file
      <4>1. CASE file = <<>>
        <5>1. Len(Source) = 1
          BY <4>1 DEF Source
        <5>. QED BY <1>3, <3>3, <5>1
      <4>2. CASE file # <<>>
        BY <4>2 DEF Source
      <4>. QED BY <4>1, <4>2
    <3>5. k + 1 \in 2 .. Len(file) /\ k + 1 < server.next
      BY <1>3, <3>2, <3>3, <3>4
    <3>6. file[k + 1] # "FINISH"
      BY <3>1, <3>5 DEF Flowing, ServerPast
    <3>. QED BY <1>6, <3>4, <3>6 DEF Word!IsLast
  <2>3. SomeComes'
    BY <1>1, <2>1, <2>2 DEF SomeComes
  <2>. QED BY <1>1, <1>5, <2>3 DEF Flowing
<1>7. CASE ~Word!IsLast(word)
  <2>1. reader'.at = "words" /\ requests' = Append(requests, "WORD")
    BY <1>3, <1>7 DEF Word!ReadWord
  <2>2. requests' = <<"WORD">>
    BY <1>3, <2>1
  <2>3. SomeComes'
    BY <2>1, <2>2 DEF SomeComes, NoneComes
  <2>. QED BY <1>1, <1>5, <2>3 DEF Flowing
<1>. QED BY <1>6, <1>7

LEMMA FlowLose == WordInv /\ Flowing /\ Word!Lose => Flowing'
<1>. SUFFICES ASSUME WordInv, Flowing, Word!Lose PROVE Flowing'
  OBVIOUS
<1>1. lost' = lost + 1 /\ UNCHANGED <<file, server, reader>>
  BY DEF Word!Lose
<1>2. lost' \in Nat /\ lost' # 0
  BY <1>1 DEF Flowing
<1>3. replies' = <<>> \/ replies' = replies
  <2>1. replies # <<>> => \E x : replies = <<x>>
    BY DEF WordInv, OneComes, NoneComes, NameComes, RefusalComes, RequestComes, LineComes
  <2>2. replies' = replies \/ (replies # <<>> /\ replies' = Tail(replies))
    BY DEF Word!Lose
  <2>3. ASSUME NEW x, replies = <<x>> PROVE Tail(replies) = <<>>
    BY <2>3
  <2>. QED BY <2>1, <2>2, <2>3
<1>4. ServerPast'
  BY <1>1, <1>3 DEF Flowing, ServerPast, Word!NoFile
<1>5. SomeComes'
  BY <1>2 DEF SomeComes
<1>. QED BY <1>2, <1>4, <1>5 DEF Flowing

LEMMA WordStep == WordInv /\ [Next]_vars => WordInv'
<1>1. WordInv /\ UNCHANGED wordVars => WordInv'
  BY DEF WordInv, wordVars, WordFields, Beginning, OneComes, NoneComes, NameComes,
         RefusalComes, RequestComes, LineComes, Source, Written, Word!NoFile
<1>. QED BY <1>1, WordSendName, WordServeName, WordReadHello, WordServeWord, WordReadWord, WordLose
     DEF Next, vars, Word!Next, Word!System, EncFile, Words, StopWait, Sample, Checksum, Chat

(* The client has not sent the name, the server has a request that it      *)
(* answers, or the client a reply that it waits for.                       *)
OneCanGoOn ==
  \/ reader.at = "name"
  \/ requests # <<>> /\ (\/ server.at = "name"
                         \/ server.at = "words" /\ server.next <= Len(file))
  \/ replies # <<>> /\ reader.at \in {"hello", "words"}

(* One of the two goes on, or both have ended.                             *)
WordsGoOn ==
  (Word!NoFile \/ Word!HasFinish) /\ lost = 0 =>
    OneCanGoOn \/ (server.at = "end" /\ reader.at = "end")

(* As long as no datagram is lost, and the file is missing or has a FINISH *)
(* after its first line, one of the two programs of the word transfer can  *)
(* go on until both have ended (wordserver.c, line 74).  This is what      *)
(* BothEnd rests on.                                                       *)
THEOREM NobodyWaitsForNothing == FairSpec => []WordsGoOn
<1>1. Init => WordInv /\ Flowing
  BY WordInit, FlowInit DEF Init
<1>2. Flowing /\ UNCHANGED wordVars => Flowing'
  BY DEF Flowing, wordVars, ServerPast, SomeComes, NoneComes, PastEnd, Word!NoFile
<1>3. WordInv /\ Flowing /\ [Next]_vars => Flowing'
  BY <1>2, FlowSendName, FlowServeName, FlowReadHello, FlowServeWord, FlowReadWord, FlowLose
  DEF Next, vars, Word!Next, Word!System, EncFile, Words, StopWait, Sample, Checksum, Chat
<1>4. WordInv /\ Flowing => WordsGoOn
  <2>. SUFFICES ASSUME WordInv, Flowing, Word!NoFile \/ Word!HasFinish, lost = 0,
                       ~(server.at = "end" /\ reader.at = "end")
                PROVE  OneCanGoOn
    BY DEF WordsGoOn
  <2>0. server.next \in Nat /\ Len(file) \in Nat
    BY DEF WordInv, WordFields
  <2>1. ASSUME server.at = "words" PROVE server.next <= Len(file)
    <3>1. ~Word!NoFile /\ \A i \in 2 .. Len(file) : i < server.next => file[i] # "FINISH"
      BY <2>1 DEF Flowing, ServerPast
    <3>2. PICK i \in 2 .. Len(file) : file[i] = "FINISH"
      BY <3>1 DEF Word!HasFinish
    <3>3. ~(i < server.next)
      BY <3>1, <3>2
    <3>. QED BY <2>0, <3>2, <3>3
  <2>2. CASE NoneComes
    <3>1. ~PastEnd
      BY <2>0, <2>1 DEF PastEnd
    <3>. QED BY <2>2, <3>1 DEF Flowing, SomeComes, OneCanGoOn
  <2>3. CASE NameComes \/ RequestComes
    BY <2>1, <2>3 DEF NameComes, RequestComes, OneCanGoOn
  <2>4. CASE RefusalComes \/ LineComes
    BY <2>4 DEF RefusalComes, LineComes, OneCanGoOn
  <2>. QED BY <2>2, <2>3, <2>4 DEF WordInv, OneComes
<1>. QED BY <1>1, <1>3, <1>4, WordStep, PTL DEF FairSpec
-----------------------------------------------------------------------------
(* Bytes and encrypted bytes; what the client sends in place i behind the  *)
(* key: the file and then the marker.                                      *)
EncFields ==
  /\ size \in Nat /\ deaths \in Nat
  /\ client \in [at : {"menu", "chunks", "result", "ask", "gone", "killed"}, round : Nat,
                 sent : Nat, reset : BOOLEAN, enc : Seq(Nat \X Int)]
  /\ child \in [at : {"key", "file", "reply", "gone", "killed"}, key : Nat,
                temp : Seq(Int), sent : Nat]
  /\ up \in Seq(Int) /\ down \in Seq(Nat \X Int)
Place(i) == IF i <= size THEN i ELSE Enc!Nul

(* Before the first file.                                                  *)
NotBegun == client.round = 0 =>
  /\ client.at \in {"menu", "killed"} /\ up = <<>>
  /\ child.at # "file" /\ child.at # "reply"
  /\ child.key = 0 /\ child.sent = 0 /\ client.enc = <<>> /\ down = <<>>

(* What the child has not read is the key, and then the beginning of the   *)
(* file and its marker that the client has sent.                           *)
AtKey == child.at = "key" =>
  child.key = 0 /\ child.temp = <<>> /\ child.sent = 0 /\ client.enc = <<>> /\ down = <<>>
KeyComes == client.round = 1 /\ child.at = "key" =>
  /\ client.at \in {"chunks", "result", "killed"}
  /\ Len(up) \in KeyLen .. KeyLen + size + 1
  /\ \A i \in 1..Len(up) : up[i] = IF i <= KeyLen THEN Enc!Key ELSE Place(i - KeyLen)
  /\ client.at = "chunks" => Len(up) = KeyLen + client.sent

(* What follows is for a key that came in one read.                        *)
Whole == client.round = 1 /\ child.key = KeyLen

(* What the child has read and what it has not is this beginning.          *)
FileComes == Whole /\ child.at = "file" =>
  /\ client.at \in {"chunks", "result", "killed"}
  /\ Len(child.temp) + Len(up) <= size + 1
  /\ \A i \in 1..Len(child.temp) : child.temp[i] = Place(i)
  /\ \A i \in 1..Len(up) : up[i] = Place(Len(child.temp) + i)
  /\ client.at = "chunks" => Len(child.temp) + Len(up) = client.sent

(* It stops reading when it has the whole file, or the client is gone.     *)
HasFile == Len(child.temp) = size /\ \A i \in 1..size : child.temp[i] = i
FileRead == Whole /\ child.at \in {"reply", "gone"} =>
  /\ \/ Enc!Gone(client)
     \/ HasFile /\ (child.at = "gone" => child.sent = size)
  /\ child.at = "reply" => up = <<>>

(* What comes back is the beginning that it has sent.                      *)
ComesBack == Whole =>
  /\ Len(client.enc) + Len(down) = child.sent /\ child.sent <= size
  /\ \A i \in 1..Len(client.enc) : client.enc[i] = <<KeyLen, i>>
  /\ \A i \in 1..Len(down) : down[i] = <<KeyLen, Len(client.enc) + i>>
  /\ (client.at = "chunks" \/ child.at = "file") => child.sent = 0
  /\ client.at = "ask" /\ deaths = 0 => Len(client.enc) = size
Sending == client.round = 1 /\ client.at = "chunks" =>
  client.sent <= size /\ ~(Whole /\ child.at \in {"reply", "gone"})
Killed == child.at = "killed" => deaths > 0

(* A reset tells of bytes that the child has not read: it has sent none.   *)
EarlyReset == client.reset => Enc!Gone(child) /\ (Whole => child.sent = 0)

EncInv == EncFields /\ NotBegun /\ AtKey /\ KeyComes /\ FileComes /\ FileRead /\ ComesBack
          /\ Sending /\ Killed /\ EarlyReset

(* The parts of EncInv that say what is under way.                         *)
LEMMA EncInit == Enc!Init => EncInv
<1>. SUFFICES ASSUME Enc!Init PROVE EncInv
  OBVIOUS
<1>1. /\ size = 0 /\ deaths = 0 /\ up = <<>> /\ down = <<>>
      /\ client = [at |-> "menu", round |-> 0, sent |-> 0, reset |-> FALSE, enc |-> <<>>]
      /\ child = [at |-> "key", key |-> 0, temp |-> <<>>, sent |-> 0]
  BY DEF Enc!Init
<1>2. EncFields
  BY <1>1 DEF EncFields
<1>3. client.round = 0 /\ child.at = "key"
  BY <1>1
<1>. QED BY <1>1, <1>2, <1>3 DEF EncInv, NotBegun, AtKey, KeyComes, FileComes, FileRead,
                                 ComesBack, Whole, Sending, Killed, EarlyReset

(* A read takes a beginning of what has come, and leaves the rest.         *)
LEMMA ReadsBeginning ==
  ASSUME NEW S, NEW q \in Seq(S), NEW max \in Nat, NEW got \in Enc!Reads(q, max)
  PROVE  /\ got \in Seq(S) /\ Len(got) \in 1..Len(q) /\ Len(got) <= max
         /\ \A i \in 1..Len(got) : got[i] = q[i]
<1>1. Len(q) \in Nat /\ \A i \in 1..Len(q) : q[i] \in S
  OBVIOUS
<1>. PICK all : all = Enc!Smaller(Len(q), max)
  OBVIOUS
<1>2. all \in 0..Len(q) /\ all <= max
  BY <1>1 DEF Enc!Smaller
<1>3. PICK n \in 1..all : got = SubSeq(q, 1, n)
  BY <1>2 DEF Enc!Reads
<1>4. n \in 1..Len(q) /\ n <= max
  BY <1>1, <1>2
<1>. QED BY <1>1, <1>3, <1>4, SubSeqProperties

LEMMA RestOfStream ==
  ASSUME NEW S, NEW q \in Seq(S), NEW n \in 1..Len(q)
  PROVE  LET rest == SubSeq(q, n + 1, Len(q)) IN
         /\ rest \in Seq(S) /\ Len(rest) = Len(q) - n
         /\ \A i \in 1..Len(rest) : rest[i] = q[n + i]
<1>1. Len(q) \in Nat /\ \A i \in 1..Len(q) : q[i] \in S
  OBVIOUS
<1>2. \A i \in n + 1 .. Len(q) : q[i] \in S
  BY <1>1
<1>. PICK rest : rest = SubSeq(q, n + 1, Len(q))
  OBVIOUS
<1>3. /\ rest \in Seq(S)
      /\ Len(rest) = IF n + 1 <= Len(q) THEN Len(q) - (n + 1) + 1 ELSE 0
      /\ \A i \in 1 .. Len(q) - (n + 1) + 1 : rest[i] = q[n + 1 + i - 1]
  BY <1>1, <1>2, SubSeqProperties
<1>4. Len(rest) = Len(q) - n
  BY <1>1, <1>3
<1>5. \A i \in 1..Len(rest) : rest[i] = q[n + i]
  BY <1>1, <1>3, <1>4
<1>. QED BY <1>3, <1>4, <1>5

(* Places behind the first n of a stream.                                  *)
LEMMA Behind ==
  ASSUME NEW n \in Nat, NEW all \in Nat, NEW rest \in Nat, rest = all - n, NEW i \in 1..rest
  PROVE  n + i \in 1..all /\ n + i - n = i /\ ~(n + i <= n)
OBVIOUS

LEMMA EncReadKey == EncInv /\ Enc!ReadKey => EncInv'
<1>. SUFFICES ASSUME EncInv, Enc!ReadKey PROVE EncInv'
  OBVIOUS
<1>. USE DEF EncInv
<1>1. child.at = "key" /\ UNCHANGED <<size, client, down, deaths>>
  BY DEF Enc!ReadKey
<1>2. EarlyReset'
  BY <1>1 DEF EarlyReset, Enc!Gone
<1>3. /\ child.temp = <<>> /\ child.sent = 0 /\ client.enc = <<>> /\ down = <<>>
      /\ child.key = 0 /\ KeyLen \in Nat \ {0}
  BY <1>1, TransfersAssumption DEF AtKey
<1>4. CASE up = <<>> /\ Enc!Gone(client) /\ child' = [child EXCEPT !.at = "gone"] /\ up' = up
  <2>1. /\ child'.at = "gone" /\ child'.key = 0 /\ child'.sent = 0
        /\ child' \in [at : {"key", "file", "reply", "gone", "killed"}, key : Nat,
                       temp : Seq(Int), sent : Nat]
    BY <1>3, <1>4 DEF EncFields
  <2>2. EncFields' /\ NotBegun' /\ AtKey'
    BY <1>1, <1>3, <1>4, <2>1 DEF EncFields, NotBegun, AtKey
  <2>3. ~Whole'
    BY <1>3, <2>1 DEF Whole
  <2>. QED BY <1>2, <1>1, <2>1, <2>2, <2>3 DEF KeyComes, FileComes, FileRead, ComesBack, Sending, Killed
<1>5. ASSUME NEW got \in Enc!Reads(up, KeyLen),
             child' = [child EXCEPT !.at = "file", !.key = Len(got)],
             up' = SubSeq(up, Len(got) + 1, Len(up))
      PROVE  EncInv'
  <2>1. up \in Seq(Int) /\ Len(up) \in Nat
    BY DEF EncFields
  <2>2. Len(got) \in 1..Len(up)
    BY <1>3, <2>1, ReadsBeginning
  <2>3. /\ up' \in Seq(Int) /\ Len(up') = Len(up) - Len(got)
        /\ \A i \in 1..Len(up') : up'[i] = up[Len(got) + i]
    BY <1>5, <2>1, <2>2, RestOfStream
  <2>. PICK n : n = Len(got)
    OBVIOUS
  <2>9. n \in Nat /\ n >= 1 /\ n <= Len(up)
    BY <2>1, <2>2
  <2>4. /\ child'.at = "file" /\ child'.key = n /\ child'.sent = 0 /\ child'.temp = <<>>
        /\ child' \in [at : {"key", "file", "reply", "gone", "killed"}, key : Nat,
                       temp : Seq(Int), sent : Nat]
    <3>1. child' = [child EXCEPT !.at = "file", !.key = n]
      BY <1>5
    <3>2. child \in [at : {"key", "file", "reply", "gone", "killed"}, key : Nat,
                    temp : Seq(Int), sent : Nat]
      BY DEF EncFields
    <3>3. child' = [at |-> "file", key |-> n, temp |-> child.temp, sent |-> child.sent]
      BY <3>1, <3>2
    <3>. QED BY <1>3, <2>9, <3>2, <3>3
  <2>5. EncFields' /\ AtKey' /\ KeyComes' /\ FileRead' /\ Killed'
    BY <1>1, <2>3, <2>4 DEF EncFields, AtKey, KeyComes, FileRead, Killed
  <2>6. client.round # 0
    BY <2>1, <2>2 DEF NotBegun
  <2>7. FileComes'
    <3>. SUFFICES ASSUME client.round = 1, n = KeyLen
                  PROVE  /\ client.at \in {"chunks", "result", "killed"}
                         /\ Len(up') <= size + 1
                         /\ \A i \in 1..Len(up') : up'[i] = Place(i)
                         /\ client.at = "chunks" => Len(up') = client.sent
      BY <1>1, <2>3, <2>4 DEF FileComes, Whole, Place
    <3>1. /\ client.at \in {"chunks", "result", "killed"}
          /\ Len(up) \in KeyLen .. KeyLen + size + 1
          /\ \A i \in 1..Len(up) : up[i] = IF i <= KeyLen THEN Enc!Key ELSE Place(i - KeyLen)
          /\ client.at = "chunks" => Len(up) = KeyLen + client.sent
      BY <1>1 DEF KeyComes
    <3>2. size \in Nat /\ client.sent \in Nat
      BY DEF EncFields
    <3>3. Len(up') = Len(up) - KeyLen
      BY <2>3
    <3>4. ASSUME NEW i \in 1..Len(up') PROVE up'[i] = Place(i)
      <4>. PICK j : j = KeyLen + i
        OBVIOUS
      <4>1. Len(up') \in Nat /\ Len(up') = Len(up) - KeyLen
        <5>1. up' \in Seq(Int)
          BY <2>3
        <5>. QED BY <3>3, <5>1
      <4>2. j \in 1..Len(up) /\ j - KeyLen = i /\ ~(j <= KeyLen)
        BY <1>3, <2>1, <4>1, Behind
      <4>3. up[j] = Place(j - KeyLen)
        BY <3>1, <4>2
      <4>4. up'[i] = up[KeyLen + i]
        BY <2>3
      <4>. QED BY <4>2, <4>3, <4>4
    <3>5. Len(up') <= size + 1 /\ (client.at = "chunks" => Len(up') = client.sent)
      <4>. PICK all, rest : all = Len(up) /\ rest = Len(up')
        OBVIOUS
      <4>1. /\ all \in KeyLen .. KeyLen + size + 1 /\ rest = all - KeyLen
            /\ client.at = "chunks" => all = KeyLen + client.sent
        BY <3>1, <3>3
      <4>2. rest <= size + 1 /\ (client.at = "chunks" => rest = client.sent)
        BY ONLY <1>3, <3>2, <4>1
      <4>. QED BY <4>2
    <3>. QED BY <3>1, <3>4, <3>5
  <2>8. ComesBack' /\ Sending'
    BY <1>1, <1>3, <2>4 DEF ComesBack, Sending, Whole, KeyComes, EncFields
  <2>. QED BY <1>2, <1>1, <2>5, <2>6, <2>7, <2>8 DEF NotBegun
<1>. QED BY <1>4, <1>5 DEF Enc!ReadKey

LEMMA EncReadFile == EncInv /\ Enc!ReadFile => EncInv'
<1>. SUFFICES ASSUME EncInv, Enc!ReadFile PROVE EncInv'
  OBVIOUS
<1>. USE DEF EncInv
<1>1. child.at = "file" /\ UNCHANGED <<size, client, down, deaths>>
  BY DEF Enc!ReadFile
<1>2. EarlyReset'
  BY <1>1 DEF EarlyReset, Enc!Gone
<1>3. client.round # 0 /\ up \in Seq(Int) /\ Len(up) \in Nat /\ size \in Nat
      /\ child.temp \in Seq(Int) /\ Len(child.temp) \in Nat
  BY <1>1 DEF NotBegun, EncFields
<1>4. CASE up = <<>> /\ Enc!Gone(client) /\ child' = [child EXCEPT !.at = "reply"] /\ up' = up
  <2>1. /\ child'.at = "reply" /\ child'.key = child.key /\ child'.sent = child.sent
        /\ child'.temp = child.temp
        /\ child' \in [at : {"key", "file", "reply", "gone", "killed"}, key : Nat,
                       temp : Seq(Int), sent : Nat]
    BY <1>4 DEF EncFields
  <2>2. Enc!Gone(client') /\ client'.at # "chunks"
    BY <1>1, <1>4 DEF Enc!Gone
  <2>3. FileRead'
    BY <1>4, <2>1, <2>2 DEF FileRead
  <2>4. ComesBack'
    BY <1>1, <2>1, <2>2 DEF ComesBack, Whole
  <2>. QED BY <1>2, <1>1, <1>3, <1>4, <2>1, <2>2, <2>3, <2>4
           DEF EncFields, NotBegun, AtKey, KeyComes, FileComes, Sending, Killed
<1>5. ASSUME NEW got \in Enc!Reads(up, Len(up)),
             child' = IF Enc!IsMarker(got) THEN [child EXCEPT !.at = "reply"]
                      ELSE [child EXCEPT !.temp = @ \o got],
             up' = SubSeq(up, Len(got) + 1, Len(up))
      PROVE  EncInv'
  <2>1. /\ got \in Seq(Int) /\ Len(got) \in 1..Len(up)
        /\ \A i \in 1..Len(got) : got[i] = up[i]
    BY <1>3, ReadsBeginning
  <2>2. /\ up' \in Seq(Int) /\ Len(up') = Len(up) - Len(got)
        /\ \A i \in 1..Len(up') : up'[i] = up[Len(got) + i]
    BY <1>3, <1>5, <2>1, RestOfStream
  <2>3. CASE Enc!IsMarker(got)
    <3>1. /\ child'.at = "reply" /\ child'.key = child.key /\ child'.sent = child.sent
          /\ child'.temp = child.temp
          /\ child' \in [at : {"key", "file", "reply", "gone", "killed"}, key : Nat,
                         temp : Seq(Int), sent : Nat]
      BY <1>5, <2>3 DEF EncFields
    <3>2. got[1] = 0 /\ Len(got) = 1
      BY <2>3 DEF Enc!IsMarker, Enc!Nul
    <3>3. ASSUME Whole PROVE HasFile /\ client.at # "chunks" /\ up' = <<>>
      <4>1. /\ Len(child.temp) + Len(up) <= size + 1
            /\ \A i \in 1..Len(child.temp) : child.temp[i] = Place(i)
            /\ \A i \in 1..Len(up) : up[i] = Place(Len(child.temp) + i)
            /\ client.at = "chunks" => Len(child.temp) + Len(up) = client.sent
        BY <1>1, <3>3 DEF FileComes
      <4>2. Place(Len(child.temp) + 1) = 0
        BY <2>1, <3>2, <4>1
      <4>3. Len(child.temp) = size
        BY <1>3, <2>1, <4>1, <4>2 DEF Place
      <4>4. client.at = "chunks" => client.sent <= size
        BY <3>3 DEF Sending, Whole
      <4>5. client.at # "chunks"
        BY <1>3, <2>1, <4>1, <4>3, <4>4
      <4>6. \A i \in 1..size : child.temp[i] = i
        BY <4>1, <4>3 DEF Place
      <4>7. Len(up') = 0
        BY <1>3, <2>1, <2>2, <3>2, <4>1, <4>3
      <4>8. up' = <<>>
        BY <2>2, <4>7, EmptySeq
      <4>. QED BY <4>3, <4>5, <4>6, <4>8 DEF HasFile
    <3>4. FileRead'
      BY <1>1, <3>1, <3>3 DEF FileRead, Whole, HasFile
    <3>5. ComesBack' /\ Sending'
      BY <1>1, <3>1, <3>3 DEF ComesBack, Sending, Whole
    <3>. QED BY <1>2, <1>1, <1>3, <2>2, <3>1, <3>4, <3>5
             DEF EncFields, NotBegun, AtKey, KeyComes, FileComes, Killed
  <2>4. CASE ~Enc!IsMarker(got)
    <3>1. child' = [child EXCEPT !.temp = child.temp \o got]
      BY <1>5, <2>4
    <3>2. /\ child.temp \o got \in Seq(Int)
          /\ Len(child.temp \o got) = Len(child.temp) + Len(got)
          /\ \A i \in 1..Len(child.temp) + Len(got) : (child.temp \o got)[i] =
               IF i <= Len(child.temp) THEN child.temp[i] ELSE got[i - Len(child.temp)]
      BY <1>3, <2>1, ConcatProperties
    <3>3. /\ child'.at = "file" /\ child'.key = child.key /\ child'.sent = child.sent
          /\ child'.temp = child.temp \o got
          /\ child' \in [at : {"key", "file", "reply", "gone", "killed"}, key : Nat,
                         temp : Seq(Int), sent : Nat]
      BY <1>1, <3>1, <3>2 DEF EncFields
    <3>4. FileComes'
      <4>. SUFFICES ASSUME Whole
                    PROVE  /\ client.at \in {"chunks", "result", "killed"}
                           /\ Len(child'.temp) + Len(up') <= size + 1
                           /\ \A i \in 1..Len(child'.temp) : child'.temp[i] = Place(i)
                           /\ \A i \in 1..Len(up') : up'[i] = Place(Len(child'.temp) + i)
                           /\ client.at = "chunks" => Len(child'.temp) + Len(up') = client.sent
        BY <1>1, <3>3 DEF FileComes, Whole, Place
      <4>1. /\ client.at \in {"chunks", "result", "killed"}
            /\ Len(child.temp) + Len(up) <= size + 1
            /\ \A i \in 1..Len(child.temp) : child.temp[i] = Place(i)
            /\ \A i \in 1..Len(up) : up[i] = Place(Len(child.temp) + i)
            /\ client.at = "chunks" => Len(child.temp) + Len(up) = client.sent
        BY <1>1 DEF FileComes
      <4>. PICK k : k = Len(child.temp)
        OBVIOUS
      <4>. PICK g : g = Len(got)
        OBVIOUS
      <4>0. k \in Nat /\ g \in Nat /\ g <= Len(up) /\ Len(child'.temp) = k + g
        BY <1>3, <2>1, <3>2, <3>3
      <4>2. Len(child'.temp) + Len(up') = Len(child.temp) + Len(up)
        BY <1>3, <2>1, <2>2, <3>2, <3>3
      <4>3. ASSUME NEW i \in 1..Len(child'.temp) PROVE child'.temp[i] = Place(i)
        <5>1. CASE i <= k
          BY <1>3, <3>2, <3>3, <4>1, <5>1
        <5>2. CASE ~(i <= k)
          <6>. PICK j : j = i - k
            OBVIOUS
          <6>1. i \in 1 .. k + g
            BY <3>3, <4>0
          <6>2. j \in 1..g /\ j \in 1..Len(up) /\ k + j = i
            BY ONLY <1>3, <4>0, <5>2, <6>1, j = i - k
          <6>3. child'.temp[i] = got[j]
            BY <3>2, <3>3, <4>0, <5>2, <6>1
          <6>4. up[j] = Place(k + j)
            BY <4>1, <6>2
          <6>. QED BY <2>1, <6>2, <6>3, <6>4
        <5>. QED BY <5>1, <5>2
      <4>4. ASSUME NEW i \in 1..Len(up') PROVE up'[i] = Place(Len(child'.temp) + i)
        <5>1. Len(up') \in Nat /\ Len(up') = Len(up) - g
          BY <2>2
        <5>2. g + i \in 1..Len(up)
          BY <1>3, <4>0, <5>1, Behind
        <5>3. k + (g + i) = Len(child'.temp) + i
          <6>1. i \in Nat
            BY <5>1
          <6>. QED BY ONLY <4>0, <6>1
        <5>4. up[g + i] = Place(k + (g + i))
          BY <4>1, <5>2
        <5>. QED BY <2>2, <5>3, <5>4
      <4>. QED BY <4>1, <4>2, <4>3, <4>4
    <3>5. ComesBack' /\ Sending'
      BY <1>1, <3>3 DEF ComesBack, Sending, Whole
    <3>. QED BY <1>2, <1>1, <1>3, <2>2, <3>3, <3>4, <3>5
             DEF EncFields, NotBegun, AtKey, KeyComes, FileRead, Killed
  <2>. QED BY <2>3, <2>4
<1>. QED BY <1>4, <1>5 DEF Enc!ReadFile

(* What a send does: it goes behind the others, or into a closed stream,   *)
(* where it brings a reset or kills the client.                            *)
LEMMA SendCases ==
  ASSUME NEW bytes, NEW now, Enc!Send(bytes, now)
  PROVE  \/ ~Enc!Gone(child) /\ client' = now /\ up' = up \o bytes
         \/ Enc!Gone(child) /\ up' = up /\ client' = [now EXCEPT !.reset = TRUE]
         \/ /\ Enc!Gone(child) /\ up' = up /\ client.reset
            /\ client' = [client EXCEPT !.at = "killed"]
BY DEF Enc!Send

(* A client that is killed by its send.                                    *)
LEMMA SendKills ==
  ASSUME EncInv, client.at \in {"menu", "chunks"}, Enc!Gone(child), client.reset,
         client' = [client EXCEPT !.at = "killed"], size' \in Nat,
         UNCHANGED <<child, up, down, deaths>>
  PROVE  EncInv'
<1>. USE DEF EncInv
<1>1. /\ client'.at = "killed" /\ client'.round = client.round /\ client'.enc = client.enc
      /\ client'.reset = client.reset
      /\ client' \in [at : {"menu", "chunks", "result", "ask", "gone", "killed"}, round : Nat,
                      sent : Nat, reset : BOOLEAN, enc : Seq(Nat \X Int)]
  BY DEF EncFields
<1>2. Enc!Gone(client') /\ child.at \in {"gone", "killed"}
  BY <1>1 DEF Enc!Gone
<1>3. ComesBack'
  <2>. SUFFICES ASSUME Whole
                PROVE  /\ Len(client.enc) + Len(down) = child.sent /\ child.sent <= size'
                       /\ \A i \in 1..Len(client.enc) : client.enc[i] = <<KeyLen, i>>
                       /\ \A i \in 1..Len(down) : down[i] = <<KeyLen, Len(client.enc) + i>>
    BY <1>1, <1>2 DEF ComesBack, Whole
  <2>1. child.sent = 0
    BY DEF EarlyReset
  <2>. QED BY <2>1 DEF ComesBack
<1>4. EarlyReset'
  BY <1>1 DEF EarlyReset, Whole, Enc!Gone
<1>. QED BY <1>1, <1>2, <1>3, <1>4
         DEF EncFields, NotBegun, AtKey, KeyComes, FileComes, FileRead, Sending, Killed

ClientFields ==
  [at : {"menu", "chunks", "result", "ask", "gone", "killed"}, round : Nat,
   sent : Nat, reset : BOOLEAN, enc : Seq(Nat \X Int)]

LEMMA EncChoose == ASSUME EncInv, NEW n \in 0..MaxSize, Enc!Choose(n) PROVE EncInv'
<1>. USE DEF EncInv
<1>. PICK now : now = [client EXCEPT !.at = "chunks", !.round = client.round + 1, !.sent = 0]
  OBVIOUS
<1>. PICK key : key = [i \in 1..KeyLen |-> Enc!Key]
  OBVIOUS
<1>1. /\ client.at = "menu" /\ size' = n /\ Enc!Send(key, now)
      /\ UNCHANGED <<child, down, deaths>>
  BY DEF Enc!Choose
<1>2. n \in Nat /\ KeyLen \in Nat \ {0}
  BY TransfersAssumption
<1>3. client \in ClientFields /\ client.round \in Nat
  BY DEF EncFields, ClientFields
<1>4. /\ now \in ClientFields /\ now.at = "chunks" /\ now.round = client.round + 1
      /\ now.sent = 0 /\ now.enc = client.enc /\ now.reset = client.reset
  <2>. PICK r : r = client.round + 1
    OBVIOUS
  <2>1. r \in Nat
    BY <1>3
  <2>. QED BY <1>3, <2>1 DEF ClientFields
<1>5. CASE ~Enc!Gone(child) /\ client' = now /\ up' = up \o key
  <2>1. key \in Seq(Int) /\ Len(key) = KeyLen /\ \A i \in 1..KeyLen : key[i] = Enc!Key
    BY <1>2 DEF Enc!Key
  <2>2. up' \in Seq(Int)
    BY <1>5, <2>1, ConcatProperties DEF EncFields
  <2>3. EncFields'
    BY <1>1, <1>2, <1>4, <1>5, <2>2 DEF EncFields, ClientFields
  <2>4. client'.round # 0 /\ client'.round \in Nat
    BY <1>3, <1>4, <1>5
  <2>5. AtKey' /\ Killed'
    BY <1>1, <1>4, <1>5 DEF AtKey, Killed
  <2>6. EarlyReset'
    BY <1>1, <1>4, <1>5 DEF EarlyReset, Enc!Gone
  <2>7. CASE client.round # 0
    <3>1. client'.round # 1
      BY <1>3, <1>4, <1>5, <2>7
    <3>. QED BY <2>3, <2>4, <2>5, <2>6, <3>1
             DEF NotBegun, KeyComes, FileComes, FileRead, ComesBack, Whole, Sending
  <2>8. CASE client.round = 0
    <3>1. /\ up = <<>> /\ child.at = "key" /\ child.key = 0 /\ client.enc = <<>> /\ down = <<>>
      <4>1. child.at \in {"key", "file", "reply", "gone", "killed"}
        BY DEF EncFields
      <4>. QED BY <1>5, <2>8, <4>1 DEF NotBegun, Enc!Gone
    <3>2. up' = key
      BY <1>5, <2>1, <3>1
    <3>3. ~Whole'
      BY <1>1, <1>2, <3>1 DEF Whole
    <3>4. KeyComes'
      BY <1>1, <1>2, <1>4, <1>5, <2>1, <3>2 DEF KeyComes
    <3>5. Sending'
      BY <1>1, <1>2, <1>4, <1>5, <3>3 DEF Sending
    <3>. QED BY <2>3, <2>4, <2>5, <2>6, <3>3, <3>4, <3>5
             DEF NotBegun, FileComes, FileRead, ComesBack
  <2>. QED BY <2>7, <2>8
<1>6. CASE Enc!Gone(child) /\ up' = up /\ client' = [now EXCEPT !.reset = TRUE]
  <2>1. /\ client' \in ClientFields /\ client'.at = "chunks" /\ client'.round = client.round + 1
        /\ client'.sent = 0 /\ client'.enc = client.enc
    BY <1>4, <1>6 DEF ClientFields
  <2>2. EncFields'
    BY <1>1, <1>2, <1>6, <2>1 DEF EncFields, ClientFields
  <2>3. client'.round # 0 /\ (client.round # 0 => client'.round # 1) /\ ~Whole'
    <3>1. client.round = 0 => child.key # KeyLen
      BY <1>2 DEF NotBegun
    <3>2. client'.round # 0 /\ (client.round # 0 => client'.round # 1)
      BY <1>3, <2>1
    <3>. QED BY <1>1, <3>1, <3>2 DEF Whole
  <2>4. child.at \in {"gone", "killed"} /\ Enc!Gone(child')
    BY <1>1, <1>6 DEF Enc!Gone
  <2>. QED BY <1>1, <1>2, <2>1, <2>2, <2>3, <2>4
           DEF NotBegun, AtKey, KeyComes, FileComes, FileRead, ComesBack, Sending, Killed,
               EarlyReset
<1>7. CASE /\ Enc!Gone(child) /\ up' = up /\ client.reset
           /\ client' = [client EXCEPT !.at = "killed"]
  BY <1>1, <1>2, <1>7, SendKills
<1>. QED BY <1>1, <1>5, <1>6, <1>7, SendCases

(* The client sends the next part of the file and the marker.              *)
LEMMA EncSends ==
  ASSUME EncInv, client.at = "chunks", NEW bytes \in Seq(Int),
         NEW now \in ClientFields, now.round = client.round, now.reset = client.reset,
         now.at = "chunks" \/ (now.at = "result" /\ now.enc = <<>>),
         now.at = "chunks" => now.enc = client.enc /\ now.sent = client.sent + Len(bytes)
                              /\ now.sent <= size,
         client.sent + Len(bytes) <= size + 1,
         \A i \in 1..Len(bytes) : bytes[i] = Place(client.sent + i),
         Enc!Send(bytes, now), UNCHANGED <<size, child, down, deaths>>
  PROVE  EncInv'
<1>. USE DEF EncInv
<1>1. client.round # 0 /\ (client.round = 1 => client.sent <= size)
  BY DEF NotBegun, Sending
<1>2. /\ client.sent \in Nat /\ size \in Nat /\ up \in Seq(Int) /\ Len(up) \in Nat
      /\ Len(bytes) \in Nat /\ KeyLen \in Nat
  <2>1. client.sent \in Nat /\ size \in Nat /\ up \in Seq(Int)
    BY DEF EncFields
  <2>2. Len(up) \in Nat /\ Len(bytes) \in Nat
    BY <2>1, LenProperties
  <2>. QED BY <2>1, <2>2, TransfersAssumption
<1>3. Whole => /\ child.sent = 0 /\ client.enc = <<>> /\ down = <<>>
               /\ child.at \notin {"reply", "gone"}
  <2>. SUFFICES ASSUME Whole
                PROVE  child.sent = 0 /\ Len(client.enc) = 0 /\ Len(down) = 0
                       /\ child.at \notin {"reply", "gone"}
    BY EmptySeq DEF EncFields
  <2>1. child.sent = 0 /\ Len(client.enc) + Len(down) = child.sent
    BY DEF ComesBack
  <2>2. Len(client.enc) \in Nat /\ Len(down) \in Nat
    <3>. PICK S : S = Nat \X Int
      OBVIOUS
    <3>1. client.enc \in Seq(S) /\ down \in Seq(S)
      BY DEF EncFields
    <3>. QED BY ONLY <3>1, LenProperties
  <2>. QED BY <2>1, <2>2 DEF Sending, Whole
<1>4. CASE ~Enc!Gone(child) /\ client' = now /\ up' = up \o bytes
  <2>. PICK u : u = Len(up)
    OBVIOUS
  <2>. PICK b : b = Len(bytes)
    OBVIOUS
  <2>0. u \in Nat /\ b \in Nat
    BY <1>2
  <2>1. /\ up' \in Seq(Int) /\ Len(up') = u + b
        /\ \A i \in 1 .. u + b : up'[i] = IF i <= u THEN up[i] ELSE bytes[i - u]
    BY <1>2, <1>4, ConcatProperties
  <2>2. EncFields'
    BY <1>4, <2>1 DEF EncFields, ClientFields
  <2>3. now.enc = <<>> \/ now.enc = client.enc
    OBVIOUS
  <2>4. AtKey' /\ Killed' /\ EarlyReset' /\ FileRead' /\ Sending' /\ NotBegun'
    BY <1>1, <1>3, <1>4, <2>3 DEF AtKey, Killed, EarlyReset, FileRead, Sending, Whole, NotBegun
  <2>5. ComesBack'
    BY <1>3, <1>4, <2>3 DEF ComesBack, Whole
  <2>6. ASSUME NEW k \in Nat, NEW i \in 1 .. u + b, ~(i <= u), k + u = client.sent
        PROVE  up'[i] = Place(k + i)
    <3>. PICK j : j = i - u
      OBVIOUS
    <3>1. j \in 1..b /\ client.sent + j = k + i
      BY ONLY <1>2, <2>6, u = Len(up), b = Len(bytes), j = i - u
    <3>2. bytes[j] = Place(client.sent + j)
      BY <3>1
    <3>. QED BY <2>1, <2>6, <3>1, <3>2
  <2>7. FileComes'
    <3>. SUFFICES ASSUME Whole, child.at = "file"
                  PROVE  /\ now.at \in {"chunks", "result", "killed"}
                         /\ Len(child.temp) + Len(up') <= size + 1
                         /\ \A i \in 1..Len(child.temp) : child.temp[i] = Place(i)
                         /\ \A i \in 1..Len(up') : up'[i] = Place(Len(child.temp) + i)
                         /\ now.at = "chunks" => Len(child.temp) + Len(up') = now.sent
      BY <1>4 DEF FileComes, Whole, Place
    <3>. PICK k : k = Len(child.temp)
      OBVIOUS
    <3>1. /\ \A i \in 1..k : child.temp[i] = Place(i)
          /\ \A i \in 1..u : up[i] = Place(k + i)
          /\ k + u = client.sent
      BY DEF FileComes
    <3>0. k \in Nat
      BY LenProperties DEF EncFields
    <3>2. k + Len(up') = client.sent + b
      <4>1. Len(up') = u + b /\ k + u = client.sent
        BY <2>1, <3>1
      <4>. QED BY ONLY <2>0, <3>0, <4>1
    <3>3. ASSUME NEW i \in 1..Len(up') PROVE up'[i] = Place(k + i)
      <4>1. i \in 1 .. u + b
        BY <2>1
      <4>2. CASE i <= u
        <5>1. i \in 1..u
          BY <1>2, <4>1, <4>2
        <5>. QED BY <2>1, <3>1, <4>1, <4>2, <5>1
      <4>3. CASE ~(i <= u)
        BY <2>6, <3>0, <3>1, <4>1, <4>3
      <4>. QED BY <4>2, <4>3
    <3>. QED BY <3>0, <3>1, <3>2, <3>3
  <2>8. KeyComes'
    <3>. SUFFICES ASSUME client.round = 1, child.at = "key"
                  PROVE  /\ now.at \in {"chunks", "result", "killed"}
                         /\ Len(up') \in KeyLen .. KeyLen + size + 1
                         /\ \A i \in 1..Len(up') :
                              up'[i] = IF i <= KeyLen THEN Enc!Key ELSE Place(i - KeyLen)
                         /\ now.at = "chunks" => Len(up') = KeyLen + now.sent
      BY <1>4 DEF KeyComes, Place
    <3>1. /\ \A i \in 1..u : up[i] = IF i <= KeyLen THEN Enc!Key ELSE Place(i - KeyLen)
          /\ u = KeyLen + client.sent
      BY DEF KeyComes
    <3>2. Len(up') = KeyLen + (client.sent + b)
      BY <1>2, <2>1, <3>1
    <3>3. ASSUME NEW i \in 1..Len(up')
          PROVE  up'[i] = IF i <= KeyLen THEN Enc!Key ELSE Place(i - KeyLen)
      <4>1. i \in 1 .. u + b
        BY <2>1
      <4>2. CASE i <= u
        <5>1. i \in 1..u
          BY <1>2, <4>1, <4>2
        <5>. QED BY <2>1, <3>1, <4>1, <4>2, <5>1
      <4>3. CASE ~(i <= u)
        <5>. PICK j : j = i - u
          OBVIOUS
        <5>. PICK n : n = client.sent
          OBVIOUS
        <5>0. u = KeyLen + n /\ n \in Nat /\ KeyLen \in Nat
          BY <1>2, <3>1
        <5>1. j \in 1..b /\ n + j = i - KeyLen /\ ~(i <= KeyLen)
          BY ONLY <2>0, <4>1, <4>3, <5>0, j = i - u
        <5>2. bytes[j] = Place(client.sent + j)
          BY <5>1
        <5>3. up'[i] = bytes[j]
          BY <2>1, <4>1, <4>3
        <5>. QED BY <5>1, <5>2, <5>3
      <4>. QED BY <4>2, <4>3
    <3>4. Len(up') \in KeyLen .. KeyLen + size + 1
      BY ONLY <1>2, <3>2, client.sent + Len(bytes) <= size + 1, b = Len(bytes)
    <3>. QED BY <3>2, <3>3, <3>4
  <2>. QED BY <2>2, <2>4, <2>5, <2>7, <2>8
<1>5. CASE Enc!Gone(child) /\ up' = up /\ client' = [now EXCEPT !.reset = TRUE]
  <2>1. /\ client' \in ClientFields /\ client'.at = now.at /\ client'.round = now.round
        /\ client'.sent = now.sent /\ client'.enc = now.enc
    BY <1>5 DEF ClientFields
  <2>2. EncFields'
    BY <1>5, <2>1 DEF EncFields, ClientFields
  <2>3. child.at \in {"gone", "killed"} /\ Enc!Gone(child')
    BY <1>5 DEF Enc!Gone
  <2>4. ComesBack' /\ FileRead' /\ Sending' /\ EarlyReset'
    BY <1>1, <1>3, <2>1, <2>3 DEF ComesBack, FileRead, Sending, EarlyReset, Whole
  <2>. QED BY <1>1, <2>1, <2>2, <2>3, <2>4 DEF NotBegun, AtKey, KeyComes, FileComes, Killed
<1>6. CASE /\ Enc!Gone(child) /\ up' = up /\ client.reset
           /\ client' = [client EXCEPT !.at = "killed"]
  BY <1>2, <1>6, SendKills
<1>. QED BY <1>4, <1>5, <1>6, SendCases

LEMMA EncSendChunk == EncInv /\ Enc!SendChunk => EncInv'
<1>. SUFFICES ASSUME EncInv, Enc!SendChunk PROVE EncInv'
  OBVIOUS
<1>. USE DEF EncInv
<1>. PICK to : to = Enc!Smaller(client.sent + ClientChunk, size)
  OBVIOUS
<1>. PICK bytes : bytes = [i \in 1..(to - client.sent) |-> client.sent + i]
  OBVIOUS
<1>. PICK now : now = [client EXCEPT !.sent = to]
  OBVIOUS
<1>1. /\ client.at = "chunks" /\ client.sent < size /\ Enc!Send(bytes, now)
      /\ UNCHANGED <<size, child, down, deaths>>
  BY DEF Enc!SendChunk
<1>2. client \in ClientFields /\ client.sent \in Nat /\ size \in Nat /\ ClientChunk \in Nat
  BY TransfersAssumption DEF EncFields, ClientFields
<1>3. to \in Nat /\ to <= size /\ to - client.sent \in Nat
  BY <1>1, <1>2 DEF Enc!Smaller
<1>4. /\ bytes \in Seq(Int) /\ Len(bytes) = to - client.sent
      /\ \A i \in 1..Len(bytes) : bytes[i] = client.sent + i
  BY SMTT(30), <1>2, <1>3
<1>5. /\ now \in ClientFields /\ now.at = "chunks" /\ now.enc = client.enc
      /\ now.sent = to /\ now.round = client.round /\ now.reset = client.reset
  BY <1>1, <1>2, <1>3 DEF ClientFields
<1>6. \A i \in 1..Len(bytes) : bytes[i] = Place(client.sent + i)
  BY <1>2, <1>3, <1>4 DEF Place
<1>7. client.sent + Len(bytes) = to
  BY <1>2, <1>3, <1>4
<1>8. now.sent = client.sent + Len(bytes) /\ now.sent <= size
      /\ client.sent + Len(bytes) <= size + 1
  BY <1>2, <1>3, <1>5, <1>7
<1>. QED BY <1>1, <1>4, <1>5, <1>6, <1>8, EncSends

LEMMA EncSendMarker == EncInv /\ Enc!SendMarker => EncInv'
<1>. SUFFICES ASSUME EncInv, Enc!SendMarker PROVE EncInv'
  OBVIOUS
<1>. USE DEF EncInv
<1>. PICK bytes : bytes = <<Enc!Nul>>
  OBVIOUS
<1>. PICK now : now = [client EXCEPT !.at = "result", !.enc = <<>>]
  OBVIOUS
<1>1. /\ client.at = "chunks" /\ client.sent = size /\ Enc!Send(bytes, now)
      /\ UNCHANGED <<size, child, down, deaths>>
  BY DEF Enc!SendMarker
<1>2. client \in ClientFields /\ size \in Nat
  BY DEF EncFields, ClientFields
<1>3. bytes \in Seq(Int) /\ Len(bytes) = 1 /\ bytes[1] = Enc!Nul
  BY DEF Enc!Nul
<1>4. /\ now \in ClientFields /\ now.at = "result" /\ now.enc = <<>>
      /\ now.round = client.round /\ now.reset = client.reset
  BY <1>2, EmptySeq DEF ClientFields
<1>5. \A i \in 1..Len(bytes) : bytes[i] = Place(client.sent + i)
  BY <1>1, <1>2, <1>3 DEF Place
<1>6. client.sent + Len(bytes) <= size + 1
  BY <1>1, <1>2, <1>3
<1>. QED BY <1>1, <1>3, <1>4, <1>5, <1>6, EncSends

(* The child sends back the next part of what it has read, or ends.        *)
LEMMA EncSendsBack ==
  ASSUME EncInv, child.at = "reply", ~Enc!Gone(client), NEW to \in Nat, child.sent <= to,
         to <= Len(child.temp), NEW bytes \in Seq(Nat \X Int), Len(bytes) = to - child.sent,
         \A i \in 1..Len(bytes) : bytes[i] = <<child.key, child.temp[child.sent + i]>>,
         down' = down \o bytes, child' = [child EXCEPT !.sent = to],
         UNCHANGED <<size, client, up, deaths>>
  PROVE  EncInv'
<1>. USE DEF EncInv
<1>1. /\ down \in Seq(Nat \X Int) /\ child.sent \in Nat /\ client.enc \in Seq(Nat \X Int)
      /\ Len(down) \in Nat /\ Len(client.enc) \in Nat /\ Len(bytes) \in Nat
  BY LenProperties DEF EncFields
<1>2. /\ child'.at = "reply" /\ child'.sent = to /\ child'.temp = child.temp
      /\ child'.key = child.key
      /\ child' \in [at : {"key", "file", "reply", "gone", "killed"}, key : Nat,
                     temp : Seq(Int), sent : Nat]
  BY DEF EncFields
<1>. PICK d : d = Len(down)
  OBVIOUS
<1>. PICK b : b = Len(bytes)
  OBVIOUS
<1>3. /\ down' \in Seq(Nat \X Int) /\ Len(down') = d + b
      /\ \A i \in 1 .. d + b : down'[i] = IF i <= d THEN down[i] ELSE bytes[i - d]
  BY ONLY <1>1, ConcatProperties, bytes \in Seq(Nat \X Int), down' = down \o bytes,
          d = Len(down), b = Len(bytes)
<1>4. EncFields'
  BY <1>2, <1>3 DEF EncFields
<1>5. client.round # 0 /\ ~client.reset
  BY DEF NotBegun, EarlyReset, Enc!Gone
<1>6. FileRead'
  BY <1>2 DEF FileRead, Whole, HasFile, Enc!Gone
<1>7. ComesBack'
  <2>. SUFFICES ASSUME Whole
                PROVE  /\ Len(client.enc) + Len(down') = to /\ to <= size
                       /\ \A i \in 1..Len(client.enc) : client.enc[i] = <<KeyLen, i>>
                       /\ \A i \in 1..Len(down') : down'[i] = <<KeyLen, Len(client.enc) + i>>
                       /\ client.at # "chunks"
                       /\ client.at = "ask" /\ deaths = 0 => Len(client.enc) = size
    BY <1>2 DEF ComesBack, Whole
  <2>. PICK e : e = Len(client.enc)
    OBVIOUS
  <2>. PICK s : s = child.sent
    OBVIOUS
  <2>0. e \in Nat /\ d \in Nat /\ b \in Nat /\ s \in Nat
    BY <1>1
  <2>1. /\ e + d = s
        /\ \A i \in 1..e : client.enc[i] = <<KeyLen, i>>
        /\ \A i \in 1..d : down[i] = <<KeyLen, e + i>>
        /\ client.at = "ask" /\ deaths = 0 => e = size
    BY DEF ComesBack
  <2>2. HasFile /\ client.at # "chunks" /\ child.key = KeyLen
    BY DEF FileRead, Sending, Whole
  <2>3. to <= size /\ \A i \in 1..size : child.temp[i] = i
    BY <2>2 DEF HasFile
  <2>4. e + (d + b) = to
    <3>1. b = to - s
      OBVIOUS
    <3>. QED BY ONLY <2>0, <2>1, <3>1, to \in Nat
  <2>5. ASSUME NEW i \in 1..Len(down') PROVE down'[i] = <<KeyLen, e + i>>
    <3>1. i \in 1 .. d + b
      BY <1>3
    <3>2. CASE i <= d
      <4>1. i \in 1..d
        BY <2>0, <3>1, <3>2
      <4>. QED BY <1>3, <2>1, <3>1, <3>2, <4>1
    <3>3. CASE ~(i <= d)
      <4>. PICK j : j = i - d
        OBVIOUS
      <4>1. j \in 1..b /\ s + j = e + i /\ s + j \in 1..to
        <5>1. i \in Nat /\ size \in Nat
          BY <1>1, <3>1 DEF EncFields
        <5>. QED BY ONLY <2>0, <2>1, <2>4, <3>1, <3>3, <5>1, to \in Nat, j = i - d
      <4>2. s + j \in 1..size
        <5>1. size \in Nat
          BY DEF EncFields
        <5>. QED BY ONLY <2>3, <4>1, <5>1, to \in Nat
      <4>3. child.temp[s + j] = s + j
        BY <2>3, <4>2
      <4>4. bytes[j] = <<child.key, child.temp[s + j]>>
        BY <4>1
      <4>5. down'[i] = bytes[j]
        BY <1>3, <3>1, <3>3
      <4>. QED BY <2>2, <4>1, <4>3, <4>4, <4>5
    <3>. QED BY <3>2, <3>3
  <2>. QED BY <1>3, <2>1, <2>2, <2>3, <2>4, <2>5
<1>. QED BY <1>2, <1>4, <1>5, <1>6, <1>7
         DEF NotBegun, AtKey, KeyComes, FileComes, Sending, Killed, EarlyReset, Whole

LEMMA EncReply == EncInv /\ Enc!Reply => EncInv'
<1>. SUFFICES ASSUME EncInv, Enc!Reply PROVE EncInv'
  OBVIOUS
<1>. USE DEF EncInv
<1>1. child.at = "reply" /\ UNCHANGED <<size, client, up, deaths>>
  BY DEF Enc!Reply
<1>2. /\ child.sent \in Nat /\ child.key \in Nat /\ child.temp \in Seq(Int)
      /\ Len(child.temp) \in Nat /\ ServerChunk \in Nat
  <2>1. child.sent \in Nat /\ child.key \in Nat /\ child.temp \in Seq(Int)
    BY DEF EncFields
  <2>. QED BY <2>1, LenProperties, TransfersAssumption
<1>3. CASE child.sent < Len(child.temp) /\ ~Enc!Gone(client)
  <2>. PICK to : to = Enc!Smaller(child.sent + ServerChunk, Len(child.temp))
    OBVIOUS
  <2>. PICK n : n = to - child.sent
    OBVIOUS
  <2>. PICK bytes :
         bytes = [i \in 1..n |-> Enc!encrypt_char(child.temp[child.sent + i], child.key)]
    OBVIOUS
  <2>1. down' = down \o bytes /\ child' = [child EXCEPT !.sent = to]
    BY <1>1, <1>3 DEF Enc!Reply
  <2>2. to \in Nat /\ child.sent <= to /\ to <= Len(child.temp) /\ n \in Nat
    BY SMTT(30), <1>2, <1>3 DEF Enc!Smaller
  <2>3. \A i \in 1..n : bytes[i] = <<child.key, child.temp[child.sent + i]>>
    BY DEF Enc!encrypt_char
  <2>4. ASSUME NEW i \in 1..n PROVE child.sent + i \in 1..Len(child.temp)
    <3>. PICK s : s = child.sent
      OBVIOUS
    <3>. PICK m : m = Len(child.temp)
      OBVIOUS
    <3>1. s \in Nat /\ m \in Nat /\ s <= to /\ to <= m
      BY <1>2, <2>2
    <3>. QED BY ONLY <2>2, <3>1, i \in 1..n, n = to - s, s = child.sent, m = Len(child.temp)
  <2>5. bytes \in Seq(Nat \X Int) /\ Len(bytes) = n
    <3>1. \A i \in 1..n : child.temp[child.sent + i] \in Int
      BY <1>2, <2>4
    <3>2. \A i \in 1..n : bytes[i] \in Nat \X Int
      BY <1>2, <3>1 DEF Enc!encrypt_char
    <3>. PICK S : S = Nat \X Int
      OBVIOUS
    <3>3. bytes \in [1..n -> S]
      BY <3>2
    <3>4. n \in Nat
      BY <2>2
    <3>. QED BY ONLY <3>3, <3>4, S = Nat \X Int
  <2>. QED BY <1>1, <1>3, <2>1, <2>2, <2>3, <2>5, EncSendsBack
<1>4. CASE ~(child.sent < Len(child.temp) /\ ~Enc!Gone(client))
  <2>1. down' = down /\ child' = [child EXCEPT !.at = "gone"]
    BY <1>1, <1>4 DEF Enc!Reply
  <2>2. /\ child'.at = "gone" /\ child'.key = child.key /\ child'.temp = child.temp
        /\ child'.sent = child.sent
        /\ child' \in [at : {"key", "file", "reply", "gone", "killed"}, key : Nat,
                       temp : Seq(Int), sent : Nat]
    BY <2>1 DEF EncFields
  <2>3. EncFields'
    BY <1>1, <2>1, <2>2 DEF EncFields
  <2>4. client.round # 0 /\ ~client.reset
    BY <1>1 DEF NotBegun, EarlyReset, Enc!Gone
  <2>5. FileRead'
    <3>. SUFFICES ASSUME Whole, ~Enc!Gone(client) PROVE HasFile /\ child.sent = size
      BY <1>1, <2>2 DEF FileRead, Whole, HasFile, Enc!Gone
    <3>1. HasFile /\ child.sent <= size /\ size \in Nat
      BY <1>1 DEF FileRead, ComesBack, EncFields
    <3>. QED BY <1>2, <1>4, <3>1 DEF HasFile
  <2>6. ComesBack'
    BY <1>1, <2>1, <2>2 DEF ComesBack, Whole
  <2>. QED BY <1>1, <2>1, <2>2, <2>3, <2>4, <2>5, <2>6
           DEF NotBegun, AtKey, KeyComes, FileComes, Sending, Killed, EarlyReset, Whole
<1>. QED BY <1>3, <1>4

(* The client writes what it receives behind what it has.                  *)
LEMMA EncReceive == EncInv /\ Enc!Receive => EncInv'
<1>. SUFFICES ASSUME EncInv, Enc!Receive PROVE EncInv'
  OBVIOUS
<1>. USE DEF EncInv
<1>. PICK got \in Enc!Reads(down, Len(down)) :
       /\ client' = [client EXCEPT !.enc = client.enc \o got]
       /\ down' = SubSeq(down, Len(got) + 1, Len(down))
  BY DEF Enc!Receive
<1>1. client.at = "result" /\ UNCHANGED <<size, child, up, deaths>>
  BY DEF Enc!Receive
<1>2. down \in Seq(Nat \X Int) /\ client.enc \in Seq(Nat \X Int)
  BY DEF EncFields
<1>3. Len(down) \in Nat /\ Len(client.enc) \in Nat
  BY <1>2, LenProperties
<1>. PICK d : d = Len(down)
  OBVIOUS
<1>. PICK e : e = Len(client.enc)
  OBVIOUS
<1>. PICK g : g = Len(got)
  OBVIOUS
<1>4. /\ got \in Seq(Nat \X Int) /\ g \in 1..d
      /\ \A i \in 1..g : got[i] = down[i]
  <2>. PICK S : S = Nat \X Int
    OBVIOUS
  <2>1. down \in Seq(S) /\ d \in Nat /\ got \in Enc!Reads(down, d)
    BY <1>2, <1>3
  <2>2. /\ got \in Seq(S) /\ Len(got) \in 1..Len(down)
        /\ \A i \in 1..Len(got) : got[i] = down[i]
    BY ONLY <2>1, ReadsBeginning
  <2>. QED BY <2>2
<1>0. d \in Nat /\ e \in Nat /\ g \in Nat /\ g <= d /\ g >= 1
  BY <1>3, <1>4
<1>5. /\ down' \in Seq(Nat \X Int) /\ Len(down') = d - g
      /\ \A i \in 1..Len(down') : down'[i] = down[g + i]
  BY <1>2, <1>4, RestOfStream
<1>. PICK enc : enc = client.enc \o got
  OBVIOUS
<1>6. /\ enc \in Seq(Nat \X Int) /\ Len(enc) = e + g
      /\ \A i \in 1 .. e + g : enc[i] = IF i <= e THEN client.enc[i] ELSE got[i - e]
  BY ONLY <1>2, <1>4, ConcatProperties, enc = client.enc \o got, e = Len(client.enc), g = Len(got)
<1>7. /\ client'.at = "result" /\ client'.enc = enc /\ client'.round = client.round
      /\ client'.sent = client.sent /\ client'.reset = client.reset
      /\ client' \in ClientFields
  <2>1. client \in ClientFields /\ client' = [client EXCEPT !.enc = enc]
    BY DEF EncFields, ClientFields
  <2>. QED BY <1>1, <1>6, <2>1 DEF ClientFields
<1>8. EncFields'
  BY <1>1, <1>5, <1>7 DEF EncFields, ClientFields
<1>9. client.round # 0 /\ child.at # "key"
  <2>1. client.round # 0
    BY <1>1 DEF NotBegun
  <2>2. Len(down) # 0
    BY <1>0
  <2>. QED BY <2>1, <2>2 DEF AtKey
<1>10. ComesBack'
  <2>. SUFFICES ASSUME Whole
                PROVE  /\ Len(enc) + Len(down') = child.sent /\ child.sent <= size
                       /\ \A i \in 1..Len(enc) : enc[i] = <<KeyLen, i>>
                       /\ \A i \in 1..Len(down') : down'[i] = <<KeyLen, Len(enc) + i>>
                       /\ child.at = "file" => child.sent = 0
    BY <1>1, <1>7 DEF ComesBack, Whole
  <2>1. /\ e + d = child.sent /\ child.sent <= size
        /\ \A i \in 1..e : client.enc[i] = <<KeyLen, i>>
        /\ \A i \in 1..d : down[i] = <<KeyLen, e + i>>
        /\ child.at = "file" => child.sent = 0
    BY DEF ComesBack
  <2>2. Len(enc) + Len(down') = e + d
    <3>1. Len(enc) = e + g /\ Len(down') = d - g
      BY <1>5, <1>6
    <3>. QED BY ONLY <1>0, <3>1
  <2>3. ASSUME NEW i \in 1..Len(enc) PROVE enc[i] = <<KeyLen, i>>
    <3>1. i \in 1 .. e + g
      BY <1>6
    <3>2. CASE i <= e
      <4>1. i \in 1..e
        BY <1>0, <3>1, <3>2
      <4>. QED BY <1>6, <2>1, <3>1, <3>2, <4>1
    <3>3. CASE ~(i <= e)
      <4>. PICK j : j = i - e
        OBVIOUS
      <4>1. j \in 1..g /\ j \in 1..d /\ e + j = i
        BY ONLY <1>0, <3>1, <3>3, j = i - e
      <4>2. enc[i] = got[j]
        BY <1>6, <3>1, <3>3
      <4>. QED BY <1>4, <2>1, <4>1, <4>2
    <3>. QED BY <3>2, <3>3
  <2>4. ASSUME NEW i \in 1..Len(down') PROVE down'[i] = <<KeyLen, Len(enc) + i>>
    <3>1. Len(down') \in Nat /\ i \in 1 .. d - g
      BY <1>5
    <3>. PICK j : j = g + i
      OBVIOUS
    <3>2. j \in 1..d /\ e + j = (e + g) + i
      BY ONLY <1>0, <3>1, j = g + i
    <3>3. down'[i] = down[j]
      BY <1>5
    <3>. QED BY <1>6, <2>1, <3>2, <3>3
  <2>. QED BY <2>1, <2>2, <2>3, <2>4
<1>11. EarlyReset'
  BY <1>1, <1>7 DEF EarlyReset, Whole
<1>12. FileComes' /\ FileRead'
  BY <1>1, <1>7 DEF FileComes, FileRead, Whole, HasFile, Enc!Gone, Place
<1>. QED BY <1>1, <1>7, <1>8, <1>9, <1>10, <1>11, <1>12
         DEF NotBegun, AtKey, KeyComes, Sending, Killed

(* Success: the child has come to its end if nothing was killed.           *)
LEMMA EncSuccess == EncInv /\ Enc!Success => EncInv'
<1>. SUFFICES ASSUME EncInv, Enc!Success PROVE EncInv'
  OBVIOUS
<1>. USE DEF EncInv
<1>1. /\ client.at = "result" /\ down = <<>> /\ Enc!Gone(child)
      /\ client' = [client EXCEPT !.at = "ask"]
      /\ UNCHANGED <<size, child, up, down, deaths>>
  BY DEF Enc!Success
<1>2. /\ client'.at = "ask" /\ client'.enc = client.enc /\ client'.round = client.round
      /\ client'.sent = client.sent /\ client'.reset = client.reset
      /\ client' \in [at : {"menu", "chunks", "result", "ask", "gone", "killed"}, round : Nat,
                      sent : Nat, reset : BOOLEAN, enc : Seq(Nat \X Int)]
  BY <1>1 DEF EncFields
<1>3. EncFields'
  BY <1>1, <1>2 DEF EncFields
<1>4. client.round # 0 /\ child.at \in {"gone", "killed"}
  BY <1>1 DEF NotBegun, Enc!Gone
<1>5. Whole /\ deaths = 0 => Len(client.enc) = size
  <2>. SUFFICES ASSUME Whole, deaths = 0 PROVE Len(client.enc) = size
    OBVIOUS
  <2>1. child.at = "gone"
    BY <1>4 DEF Killed, EncFields
  <2>2. child.sent = size
    BY <1>1, <2>1 DEF FileRead, Enc!Gone
  <2>3. Len(client.enc) + Len(down) = child.sent /\ Len(client.enc) \in Nat
    BY LenProperties DEF ComesBack, EncFields
  <2>4. Len(down) = 0
    BY <1>1
  <2>. QED BY <2>2, <2>3, <2>4
<1>6. ComesBack'
  BY <1>1, <1>2, <1>5 DEF ComesBack, Whole
<1>7. FileRead' /\ EarlyReset'
  BY <1>1, <1>2 DEF FileRead, EarlyReset, Whole, HasFile, Enc!Gone
<1>. QED BY <1>1, <1>2, <1>3, <1>4, <1>6, <1>7
         DEF NotBegun, AtKey, KeyComes, FileComes, Sending, Killed, Whole

LEMMA EncContinue == ASSUME EncInv, NEW yes \in BOOLEAN, Enc!Continue(yes) PROVE EncInv'
<1>. USE DEF EncInv
<1>1. /\ client.at = "ask"
      /\ UNCHANGED <<size, child, up, down, deaths>>
  BY DEF Enc!Continue
<1>2. /\ client'.at \in {"menu", "gone"} /\ client'.enc = client.enc
      /\ client'.round = client.round
      /\ client'.sent = client.sent /\ client'.reset = client.reset
      /\ client' \in [at : {"menu", "chunks", "result", "ask", "gone", "killed"}, round : Nat,
                      sent : Nat, reset : BOOLEAN, enc : Seq(Nat \X Int)]
  BY <1>1 DEF Enc!Continue, EncFields
<1>3. EncFields'
  BY <1>1, <1>2 DEF EncFields
<1>4. client.round # 0
  BY <1>1 DEF NotBegun
<1>5. ComesBack'
  BY <1>1, <1>2 DEF ComesBack, Whole
<1>6. FileRead' /\ EarlyReset'
  BY <1>1, <1>2 DEF FileRead, EarlyReset, Whole, HasFile, Enc!Gone
<1>. QED BY <1>1, <1>2, <1>3, <1>4, <1>5, <1>6
         DEF NotBegun, AtKey, KeyComes, FileComes, Sending, Killed, Whole

(* A process is killed.                                                    *)
LEMMA EncDie == EncInv /\ Enc!Die => EncInv'
<1>. SUFFICES ASSUME EncInv, Enc!Die PROVE EncInv'
  OBVIOUS
<1>. USE DEF EncInv
<1>1. /\ deaths \in Nat /\ deaths' = deaths + 1 /\ deaths' \in Nat /\ deaths' > 0
      /\ UNCHANGED <<size, up, down>>
  BY DEF Enc!Die, EncFields
<1>2. CASE client' = [client EXCEPT !.at = "killed"] /\ child' = child
  <2>1. /\ client'.at = "killed" /\ client'.enc = client.enc /\ client'.round = client.round
        /\ client'.sent = client.sent /\ client'.reset = client.reset
        /\ client' \in [at : {"menu", "chunks", "result", "ask", "gone", "killed"},
                        round : Nat, sent : Nat, reset : BOOLEAN, enc : Seq(Nat \X Int)]
    BY <1>2 DEF EncFields
  <2>2. EncFields' /\ Enc!Gone(client')
    BY <1>1, <1>2, <2>1 DEF EncFields, Enc!Gone
  <2>3. ComesBack'
    BY <1>1, <1>2, <2>1 DEF ComesBack, Whole
  <2>4. FileRead' /\ EarlyReset' /\ FileComes' /\ KeyComes'
    BY <1>1, <1>2, <2>1, <2>2
    DEF FileRead, EarlyReset, FileComes, KeyComes, Place, Whole, HasFile, Enc!Gone
  <2>. QED BY <1>1, <1>2, <2>1, <2>2, <2>3, <2>4 DEF NotBegun, AtKey, Sending, Killed
<1>3. CASE /\ ~Enc!Gone(child) /\ child' = [child EXCEPT !.at = "killed"]
           /\ client' = [client EXCEPT !.reset = up # <<>>]
  <2>1. /\ child'.at = "killed" /\ child'.key = child.key /\ child'.temp = child.temp
        /\ child'.sent = child.sent
        /\ child' \in [at : {"key", "file", "reply", "gone", "killed"}, key : Nat,
                       temp : Seq(Int), sent : Nat]
    BY <1>3 DEF EncFields
  <2>2. /\ client'.at = client.at /\ client'.enc = client.enc /\ client'.round = client.round
        /\ client'.sent = client.sent /\ client'.reset = (up # <<>>)
        /\ client' \in [at : {"menu", "chunks", "result", "ask", "gone", "killed"},
                        round : Nat, sent : Nat, reset : BOOLEAN, enc : Seq(Nat \X Int)]
    <3>. PICK r \in BOOLEAN : r = (up # <<>>)
      OBVIOUS
    <3>1. client' = [client EXCEPT !.reset = r]
      BY <1>3
    <3>. QED BY <3>1 DEF EncFields
  <2>3. EncFields' /\ Enc!Gone(child')
    BY <1>1, <2>1, <2>2 DEF EncFields, Enc!Gone
  <2>4. EarlyReset'
    <3>. SUFFICES ASSUME up # <<>>, Whole PROVE child.sent = 0
      BY <1>1, <2>1, <2>2, <2>3 DEF EarlyReset, Whole
    <3>1. child.at \in {"key", "file", "reply"}
      BY <1>3 DEF EncFields, Enc!Gone
    <3>. QED BY <3>1 DEF AtKey, ComesBack, FileRead
  <2>5. ComesBack'
    <3>1. client.at # "ask" \/ deaths' # 0
      BY <1>1
    <3>. QED BY <1>1, <2>1, <2>2, <3>1 DEF ComesBack, Whole
  <2>6. NotBegun'
    BY <1>1, <2>1, <2>2 DEF NotBegun
  <2>. QED BY <1>1, <2>1, <2>2, <2>3, <2>4, <2>5, <2>6
           DEF AtKey, KeyComes, FileComes, FileRead, Sending, Killed, Whole
<1>. QED BY <1>2, <1>3 DEF Enc!Die

LEMMA EncStep == EncInv /\ [Next]_vars => EncInv'
<1>1. EncInv /\ UNCHANGED encVars => EncInv'
  <2>. SUFFICES ASSUME EncInv, UNCHANGED encVars PROVE EncInv'
    OBVIOUS
  <2>1. UNCHANGED <<size, client, child, up, down, deaths>>
    BY DEF encVars
  <2>2. EncFields' /\ NotBegun' /\ AtKey' /\ Sending' /\ Killed' /\ EarlyReset'
    BY <2>1 DEF EncInv, EncFields, NotBegun, AtKey, Sending, Killed, EarlyReset, Whole, Enc!Gone
  <2>3. KeyComes' /\ FileComes'
    BY <2>1 DEF EncInv, KeyComes, FileComes, Whole, Place
  <2>4. FileRead'
    BY <2>1 DEF EncInv, FileRead, Whole, HasFile, Enc!Gone
  <2>5. ComesBack'
    BY <2>1 DEF EncInv, ComesBack, Whole
  <2>. QED BY <2>2, <2>3, <2>4, <2>5 DEF EncInv
<1>. QED
  BY <1>1, EncChoose, EncSendChunk, EncSendMarker, EncReceive, EncSuccess, EncContinue,
     EncReadKey, EncReadFile, EncReply, EncDie
  DEF Next, vars, Enc!Next, Enc!System, EncFile, Words, StopWait, Sample, Checksum, Chat

LEMMA EncRight == EncInv => EncryptedRight
<1>. SUFFICES ASSUME EncInv, client.round = 1, child.key = KeyLen
              PROVE  /\ Enc!IsPrefix(client.enc, Enc!Result)
                     /\ client.at = "ask" /\ deaths = 0 => client.enc = Enc!Result
  BY DEF EncryptedRight, Enc!EncryptedRight
<1>1. /\ client.enc \in Seq(Nat \X Int) /\ size \in Nat /\ down \in Seq(Nat \X Int)
      /\ child.sent \in Nat
  BY DEF EncInv, EncFields
<1>2. Len(client.enc) \in Nat /\ Len(down) \in Nat
  BY <1>1, LenProperties
<1>0. Len(client.enc) + Len(down) = child.sent /\ child.sent <= size
  BY DEF EncInv, ComesBack, Whole
<1>3. /\ \A i \in 1..Len(client.enc) : client.enc[i] = <<KeyLen, i>>
      /\ client.at = "ask" /\ deaths = 0 => Len(client.enc) = size
  BY DEF EncInv, ComesBack, Whole
<1>4. /\ Len(Enc!Result) = size /\ Enc!Result \in Seq(Nat \X Int)
      /\ \A i \in 1..size : Enc!Result[i] = <<KeyLen, i>>
  <2>1. \A i \in 1..size : <<KeyLen, i>> \in Nat \X Int
    BY <1>1, TransfersAssumption
  <2>2. Enc!Result = [i \in 1..size |-> <<KeyLen, i>>]
    BY DEF Enc!Result, Enc!encrypt_char
  <2>3. Enc!Result \in [1..size -> Nat \X Int]
    BY <2>1, <2>2
  <2>4. Enc!Result \in Seq(Nat \X Int)
    BY <1>1, <2>3
  <2>5. Len(Enc!Result) = size
    BY <1>1, <2>2
  <2>. QED BY <2>2, <2>4, <2>5
<1>5. Len(client.enc) <= size
  <2>. PICK e : e = Len(client.enc)
    OBVIOUS
  <2>. PICK d : d = Len(down)
    OBVIOUS
  <2>. PICK s : s = child.sent
    OBVIOUS
  <2>1. e \in Nat /\ d \in Nat /\ s \in Nat /\ e + d = s /\ s <= size
    BY <1>0, <1>1, <1>2
  <2>. QED BY ONLY <1>1, <2>1, e = Len(client.enc)
<1>6. ASSUME NEW i \in 1..Len(client.enc) PROVE client.enc[i] = Enc!Result[i]
  <2>1. i \in 1..size
    BY <1>1, <1>2, <1>5
  <2>2. client.enc[i] = <<KeyLen, i>> /\ Enc!Result[i] = <<KeyLen, i>>
    BY <1>3, <1>4, <2>1
  <2>. QED BY <2>2
<1>7. SubSeq(client.enc, 1, Len(client.enc)) = SubSeq(Enc!Result, 1, Len(client.enc))
  BY <1>1, <1>2, <1>4, <1>5, <1>6
<1>8. ASSUME client.at = "ask", deaths = 0 PROVE client.enc = Enc!Result
  BY <1>1, <1>3, <1>4, <1>6, <1>8, SeqEqual
<1>. QED BY <1>4, <1>5, <1>7, <1>8 DEF Enc!IsPrefix

(* The encrypted file of the first transfer is right (doencfileserver.c,   *)
(* lines 110 and 143): in every state that the two processes reach, with   *)
(* files, chunks and a key of any size, with any number of processes       *)
(* killed, and however the bytes are read once the key came in one read.   *)
THEOREM FileEncrypted == FairSpec => []EncryptedRight
<1>1. Init => EncInv
  BY EncInit DEF Init
<1>. QED BY <1>1, EncStep, EncRight, PTL DEF FairSpec

(* Where the sleeps work: the key is read whole, only the first file goes  *)
(* to a child, and the marker lies alone behind the key or the file.       *)
WholeKey ==
  /\ child.at \in {"file", "reply"} => child.key = KeyLen /\ client.round # 0
  /\ child.at = "gone" /\ ~Enc!Gone(client) => child.key = KeyLen
OneFile ==
  \/ client.at = "ask"
  \/ client.at = "menu" /\ client.round # 0
  \/ client.round >= 2
  => Enc!Gone(child)
MarkerApart == client.at = "result" =>
  /\ child.at = "file" => up = <<Enc!Nul>>
  /\ child.at = "key"  => Len(up) = KeyLen + 1 /\ up[KeyLen + 1] = Enc!Nul
Sleeps == gap => WholeKey /\ OneFile /\ MarkerApart

LEMMA SleepsInit == Enc!Init => Sleeps
BY DEF Enc!Init, Sleeps, WholeKey, OneFile, MarkerApart, Enc!Gone

(* What a client step leaves to show when the child does not move.         *)
LEMMA WholeKeyKept ==
  ASSUME WholeKey, UNCHANGED child, client'.round # 0 \/ client'.round = client.round,
         Enc!Gone(client) => Enc!Gone(client')
  PROVE  WholeKey'
BY DEF WholeKey, Enc!Gone

LEMMA SleepsChoose ==
  ASSUME EncInv, Sleeps, gap, NEW n \in Nat, Enc!Choose(n)
  PROVE  WholeKey' /\ OneFile' /\ MarkerApart'
<1>1. /\ client.at = "menu" /\ UNCHANGED child
      /\ client \in [at : {"menu", "chunks", "result", "ask", "gone", "killed"}, round : Nat,
                     sent : Nat, reset : BOOLEAN, enc : Seq(Nat \X Int)]
  BY DEF Enc!Choose, EncInv, EncFields
<1>. PICK now : now = [client EXCEPT !.at = "chunks", !.round = client.round + 1, !.sent = 0]
  OBVIOUS
<1>2. now.at = "chunks" /\ now.round = client.round + 1
  BY <1>1
<1>3. \/ Enc!Gone(child) /\ \/ client' = [now EXCEPT !.reset = TRUE]
                            \/ client' = [client EXCEPT !.at = "killed"]
      \/ ~Enc!Gone(child) /\ client' = now
  BY DEF Enc!Choose, Enc!Send
<1>4. client'.at \in {"chunks", "killed"} /\ client'.round \in {client.round, client.round + 1}
  <2>1. [now EXCEPT !.reset = TRUE].at = now.at /\ [now EXCEPT !.reset = TRUE].round = now.round
    BY <1>1
  <2>2. /\ [client EXCEPT !.at = "killed"].at = "killed"
        /\ [client EXCEPT !.at = "killed"].round = client.round
    BY <1>1
  <2>. QED BY <1>2, <1>3, <2>1, <2>2
<1>5. WholeKey'
  <2>1. client'.round # 0 \/ client'.round = client.round
    BY <1>1, <1>4
  <2>. QED BY <1>1, <2>1, WholeKeyKept DEF Sleeps, Enc!Gone
<1>6. OneFile'
  <2>1. client'.round >= 2 => client.round # 0
    BY <1>1, <1>4
  <2>. QED BY <1>1, <1>4, <2>1 DEF Sleeps, OneFile, Enc!Gone
<1>. QED BY <1>4, <1>5, <1>6 DEF MarkerApart

LEMMA SleepsSendChunk ==
  ASSUME EncInv, Sleeps, gap, Enc!SendChunk
  PROVE  WholeKey' /\ OneFile' /\ MarkerApart'
<1>1. /\ client.at = "chunks" /\ UNCHANGED child
      /\ client \in [at : {"menu", "chunks", "result", "ask", "gone", "killed"}, round : Nat,
                     sent : Nat, reset : BOOLEAN, enc : Seq(Nat \X Int)]
  BY DEF Enc!SendChunk, EncInv, EncFields
<1>. PICK to : to = Enc!Smaller(client.sent + ClientChunk, size)
  OBVIOUS
<1>3. \/ client' = [client EXCEPT !.sent = to]
      \/ client' = [[client EXCEPT !.sent = to] EXCEPT !.reset = TRUE]
      \/ client' = [client EXCEPT !.at = "killed"]
  BY DEF Enc!SendChunk, Enc!Send
<1>4. client'.at \in {"chunks", "killed"} /\ client'.round = client.round
  BY <1>1, <1>3
<1>5. WholeKey'
  BY <1>1, <1>4, WholeKeyKept DEF Sleeps, Enc!Gone
<1>. QED BY <1>1, <1>4, <1>5 DEF Sleeps, OneFile, MarkerApart, Enc!Gone

LEMMA SleepsSendMarker ==
  ASSUME EncInv, Sleeps, gap, Enc!SendMarker
  PROVE  WholeKey' /\ OneFile' /\ MarkerApart'
<1>1. /\ client.at = "chunks" /\ client.sent = size /\ UNCHANGED <<child, size>>
      /\ client.sent > 0 => up = <<>> \/ Enc!Gone(child)
      /\ client \in [at : {"menu", "chunks", "result", "ask", "gone", "killed"}, round : Nat,
                     sent : Nat, reset : BOOLEAN, enc : Seq(Nat \X Int)]
      /\ up \in Seq(Int) /\ child.temp \in Seq(Int) /\ size \in Nat
  BY DEF Enc!SendMarker, EncInv, EncFields, Enc!Slept
<1>. PICK now : now = [client EXCEPT !.at = "result", !.enc = <<>>]
  OBVIOUS
<1>3. \/ Enc!Gone(child) /\ \/ client' = [now EXCEPT !.reset = TRUE]
                            \/ client' = [client EXCEPT !.at = "killed"]
      \/ ~Enc!Gone(child) /\ client' = now /\ up' = up \o <<Enc!Nul>>
  BY DEF Enc!SendMarker, Enc!Send
<1>4. client'.at \in {"result", "killed"} /\ client'.round = client.round
  <2>1. /\ now.at = "result" /\ now.round = client.round
        /\ [now EXCEPT !.reset = TRUE].at = now.at
        /\ [now EXCEPT !.reset = TRUE].round = now.round
    BY <1>1
  <2>2. /\ [client EXCEPT !.at = "killed"].at = "killed"
        /\ [client EXCEPT !.at = "killed"].round = client.round
    BY <1>1
  <2>. QED BY <1>3, <2>1, <2>2
<1>5. WholeKey'
  BY <1>1, <1>4, WholeKeyKept DEF Sleeps, Enc!Gone
<1>6. OneFile'
  BY <1>1, <1>4 DEF Sleeps, OneFile, Enc!Gone
<1>7. ASSUME ~Enc!Gone(child) PROVE client.round = 1
  <2>1. client.round # 0
    BY <1>1 DEF EncInv, NotBegun
  <2>2. ~(client.round >= 2)
    BY <1>7 DEF Sleeps, OneFile
  <2>. QED BY <1>1, <2>1, <2>2
<1>8. ASSUME child.at = "file" PROVE up' = <<Enc!Nul>>
  <2>1. ~Enc!Gone(child) /\ Whole
    BY <1>7, <1>8 DEF Enc!Gone, Whole, Sleeps, WholeKey
  <2>2. Len(child.temp) + Len(up) = client.sent
    BY <1>1, <1>8, <2>1 DEF EncInv, FileComes
  <2>3. up = <<>>
    <3>1. CASE client.sent > 0
      BY <1>1, <2>1, <3>1
    <3>2. CASE client.sent = 0
      <4>1. Len(up) \in Nat /\ Len(child.temp) \in Nat
        BY <1>1, LenProperties
      <4>2. Len(up) = 0
        BY <2>2, <3>2, <4>1
      <4>. QED BY <1>1, <4>2, EmptySeq
    <3>. QED BY <1>1, <3>1, <3>2
  <2>4. <<>> \o <<Enc!Nul>> = <<Enc!Nul>>
    OBVIOUS
  <2>. QED BY <1>3, <2>1, <2>3, <2>4
<1>9. ASSUME child.at = "key" PROVE Len(up') = KeyLen + 1 /\ up'[KeyLen + 1] = Enc!Nul
  <2>1. ~Enc!Gone(child) /\ client.round = 1 /\ KeyLen \in Nat \ {0}
    BY <1>7, <1>9, TransfersAssumption DEF Enc!Gone
  <2>2. Len(up) = KeyLen + client.sent
    BY <1>1, <1>9, <2>1 DEF EncInv, KeyComes
  <2>3. client.sent = 0
    <3>1. CASE client.sent > 0
      <4>1. Len(up) = 0
        BY <1>1, <2>1, <3>1
      <4>. QED BY SMTT(30), <1>1, <2>1, <2>2, <4>1
    <3>. QED BY <1>1, <3>1
  <2>4. Len(up) = KeyLen
    BY <2>1, <2>2, <2>3
  <2>5. <<Enc!Nul>> \in Seq(Int) /\ Len(<<Enc!Nul>>) = 1 /\ <<Enc!Nul>>[1] = Enc!Nul
    BY DEF Enc!Nul
  <2>6. /\ Len(up \o <<Enc!Nul>>) = KeyLen + 1
        /\ (up \o <<Enc!Nul>>)[KeyLen + 1] = <<Enc!Nul>>[1]
    BY <1>1, <2>1, <2>4, <2>5, ConcatProperties
  <2>. QED BY <1>3, <2>1, <2>5, <2>6
<1>10. MarkerApart'
  BY <1>1, <1>8, <1>9 DEF MarkerApart
<1>. QED BY <1>5, <1>6, <1>10

(* The steps of the client that send nothing.                              *)
LEMMA SleepsClient ==
  ASSUME EncInv, Sleeps, gap, Enc!Receive \/ Enc!Success \/ \E yes \in BOOLEAN : Enc!Continue(yes)
  PROVE  WholeKey' /\ OneFile' /\ MarkerApart'
<1>1. UNCHANGED <<child, up>>
  BY DEF Enc!Receive, Enc!Success, Enc!Continue
<1>2. client \in [at : {"menu", "chunks", "result", "ask", "gone", "killed"}, round : Nat,
                  sent : Nat, reset : BOOLEAN, enc : Seq(Nat \X Int)]
  BY DEF EncInv, EncFields
<1>3. CASE Enc!Receive
  <2>1. PICK got : client' = [client EXCEPT !.enc = client.enc \o got]
    BY <1>3 DEF Enc!Receive
  <2>2. client'.at = client.at /\ client'.round = client.round
    BY <1>2, <2>1
  <2>. QED BY <1>1, <2>2, WholeKeyKept DEF Sleeps, OneFile, MarkerApart, Enc!Gone
<1>4. CASE Enc!Success
  <2>1. client' = [client EXCEPT !.at = "ask"] /\ Enc!Gone(child) /\ client.at = "result"
    BY <1>4 DEF Enc!Success
  <2>2. client'.at = "ask" /\ client'.round = client.round
    BY <1>2, <2>1
  <2>3. WholeKey'
    BY <1>1, <2>1, <2>2, WholeKeyKept DEF Sleeps, Enc!Gone
  <2>. QED BY <1>1, <2>1, <2>2, <2>3 DEF OneFile, MarkerApart, Enc!Gone
<1>5. ASSUME NEW yes \in BOOLEAN, Enc!Continue(yes) PROVE WholeKey' /\ OneFile' /\ MarkerApart'
  <2>1. client' = [client EXCEPT !.at = IF yes THEN "menu" ELSE "gone"] /\ client.at = "ask"
    BY <1>5 DEF Enc!Continue
  <2>2. client'.at \in {"menu", "gone"} /\ client'.round = client.round /\ Enc!Gone(child)
    BY <1>2, <2>1 DEF Sleeps, OneFile
  <2>3. WholeKey'
    BY <1>1, <2>1, <2>2, WholeKeyKept DEF Sleeps, Enc!Gone
  <2>. QED BY <1>1, <2>2, <2>3 DEF OneFile, MarkerApart, Enc!Gone
<1>. QED BY <1>3, <1>4, <1>5

LEMMA OneByte ==
  ASSUME NEW q \in Seq(Int), Len(q) = 1, q[1] = Enc!Nul PROVE q = <<Enc!Nul>>
<1>1. <<Enc!Nul>> \in Seq(Int) /\ Len(<<Enc!Nul>>) = 1 /\ <<Enc!Nul>>[1] = Enc!Nul
  BY DEF Enc!Nul
<1>. PICK t : t = <<Enc!Nul>>
  OBVIOUS
<1>2. t \in Seq(Int) /\ Len(t) = 1 /\ t[1] = Enc!Nul
  BY <1>1
<1>3. ASSUME NEW i \in 1 .. Len(q) PROVE q[i] = t[i]
  <2>1. i = 1
    OBVIOUS
  <2>. QED BY <1>2, <2>1
<1>4. q = t
  BY ONLY <1>2, <1>3, q \in Seq(Int), Len(q) = 1, SeqEqual
<1>. QED BY <1>4

LEMMA SleepsReadKey ==
  ASSUME EncInv, Sleeps, gap, Enc!ReadKey
  PROVE  WholeKey' /\ OneFile' /\ MarkerApart'
<1>1. child.at = "key" /\ UNCHANGED client
  BY DEF Enc!ReadKey
<1>2. /\ KeyLen \in Nat \ {0} /\ up \in Seq(Int) /\ Len(up) \in Nat /\ client.round \in Nat
      /\ child \in [at : {"key", "file", "reply", "gone", "killed"}, key : Nat,
                    temp : Seq(Int), sent : Nat]
  BY TransfersAssumption DEF EncInv, EncFields
<1>3. OneFile'
  BY <1>1 DEF Sleeps, OneFile, Enc!Gone
<1>4. CASE Enc!Gone(client) /\ child' = [child EXCEPT !.at = "gone"]
  <2>1. child'.at = "gone"
    BY <1>2, <1>4
  <2>. QED BY <1>1, <1>3, <1>4, <2>1 DEF WholeKey, MarkerApart, Enc!Gone
<1>5. ASSUME NEW got \in Enc!Reads(up, KeyLen),
             child' = [child EXCEPT !.at = "file", !.key = Len(got)],
             up' = SubSeq(up, Len(got) + 1, Len(up))
      PROVE  WholeKey' /\ MarkerApart'
  <2>1. Len(got) \in 1..Len(up)
    BY <1>2, ReadsBeginning
  <2>2. up \in Seq(Int) /\ Len(up) \in Nat
    BY <1>2
  <2>3. /\ up' \in Seq(Int) /\ Len(up') = Len(up) - Len(got)
        /\ \A i \in 1..Len(up') : up'[i] = up[Len(got) + i]
    BY <1>5, <2>1, <2>2, RestOfStream
  <2>4. client.round # 0
    <3>1. up # <<>>
      BY <2>1, <1>2
    <3>. QED BY <3>1 DEF EncInv, NotBegun
  <2>5. client.round = 1
    <3>1. ~Enc!Gone(child)
      BY <1>1 DEF Enc!Gone
    <3>2. ~(client.round >= 2)
      BY <3>1 DEF Sleeps, OneFile
    <3>. QED BY <1>2, <2>4, <3>2
  <2>6. Len(up) >= KeyLen
    <3>1. Len(up) \in KeyLen .. KeyLen + size + 1 /\ size \in Nat
      BY <1>1, <2>5 DEF EncInv, EncFields, KeyComes
    <3>. QED BY <1>2, <3>1
  <2>7. Len(got) = KeyLen
    <3>. PICK len : len = Len(up)
      OBVIOUS
    <3>1. Enc!Smaller(len, KeyLen) = KeyLen
      BY <1>2, <2>6 DEF Enc!Smaller
    <3>2. PICK n \in {KeyLen} \ {0} : got = SubSeq(up, 1, n)
      BY <3>1 DEF Enc!Reads
    <3>3. got = SubSeq(up, 1, KeyLen)
      BY <3>1, <3>2
    <3>. QED BY ONLY <1>2, <2>6, <3>3, SubSeqProperties
  <2>8. child'.at = "file" /\ child'.key = KeyLen
    BY <1>2, <1>5, <2>7
  <2>9. ASSUME client.at = "result" PROVE up' = <<Enc!Nul>>
    <3>1. Len(up) = KeyLen + 1 /\ up[KeyLen + 1] = Enc!Nul
      BY <1>1, <2>9 DEF Sleeps, MarkerApart
    <3>2. Len(up') = 1
      BY <1>2, <2>3, <2>7, <3>1
    <3>3. 1 \in 1..Len(up')
      BY <3>2
    <3>4. up'[1] = Enc!Nul
      <4>1. up'[1] = up[Len(got) + 1]
        BY <2>3, <3>3
      <4>. QED BY <2>7, <3>1, <4>1
    <3>. QED BY <2>3, <3>2, <3>4, OneByte
  <2>. QED BY <1>1, <2>4, <2>8, <2>9 DEF WholeKey, MarkerApart
<1>. QED BY <1>3, <1>4, <1>5 DEF Enc!ReadKey

LEMMA SleepsReadFile ==
  ASSUME EncInv, Sleeps, gap, Enc!ReadFile
  PROVE  WholeKey' /\ OneFile' /\ MarkerApart'
<1>1. child.at = "file" /\ UNCHANGED client
  BY DEF Enc!ReadFile
<1>2. /\ up \in Seq(Int) /\ Len(up) \in Nat
      /\ child \in [at : {"key", "file", "reply", "gone", "killed"}, key : Nat,
                    temp : Seq(Int), sent : Nat]
      /\ child.key = KeyLen /\ client.round # 0
  BY <1>1 DEF EncInv, EncFields, Sleeps, WholeKey
<1>3. OneFile'
  BY <1>1 DEF Sleeps, OneFile, Enc!Gone
<1>4. ASSUME child' = [child EXCEPT !.at = "reply"]
      PROVE  WholeKey' /\ MarkerApart'
  <2>1. child'.at = "reply" /\ child'.key = KeyLen
    BY <1>2, <1>4
  <2>. QED BY <1>1, <1>2, <2>1 DEF WholeKey, MarkerApart
<1>5. ASSUME NEW got \in Enc!Reads(up, Len(up)), ~Enc!IsMarker(got),
             child' = [child EXCEPT !.temp = child.temp \o got]
      PROVE  WholeKey' /\ MarkerApart'
  <2>1. child'.at = "file" /\ child'.key = KeyLen
    BY <1>1, <1>2, <1>5
  <2>2. client.at # "result"
    <3>1. /\ got \in Seq(Int) /\ Len(got) \in 1..Len(up)
          /\ \A i \in 1..Len(got) : got[i] = up[i]
      BY <1>2, ReadsBeginning
    <3>. SUFFICES ASSUME up = <<Enc!Nul>> PROVE FALSE
      BY <1>1 DEF Sleeps, MarkerApart
    <3>2. Len(up) = 1 /\ up[1] = Enc!Nul
      OBVIOUS
    <3>3. Len(got) = 1 /\ got[1] = Enc!Nul
      BY <3>1, <3>2
    <3>4. got = <<Enc!Nul>>
      BY <3>1, <3>3, OneByte
    <3>. QED BY <1>5, <3>4 DEF Enc!IsMarker
  <2>. QED BY <1>1, <1>2, <2>1, <2>2 DEF WholeKey, MarkerApart
<1>. QED BY <1>3, <1>4, <1>5 DEF Enc!ReadFile

LEMMA SleepsReply ==
  ASSUME EncInv, Sleeps, gap, Enc!Reply
  PROVE  WholeKey' /\ OneFile' /\ MarkerApart'
<1>1. /\ child.at = "reply" /\ UNCHANGED client
      /\ child \in [at : {"key", "file", "reply", "gone", "killed"}, key : Nat,
                    temp : Seq(Int), sent : Nat]
  BY DEF Enc!Reply, EncInv, EncFields
<1>. PICK to : to = Enc!Smaller(child.sent + ServerChunk, Len(child.temp))
  OBVIOUS
<1>2. child' = [child EXCEPT !.sent = to] \/ child' = [child EXCEPT !.at = "gone"]
  BY DEF Enc!Reply
<1>3. child'.at \in {"reply", "gone"} /\ child'.key = child.key
  BY <1>1, <1>2
<1>. QED BY <1>1, <1>3 DEF Sleeps, WholeKey, OneFile, MarkerApart, Enc!Gone

LEMMA SleepsDie ==
  ASSUME EncInv, Sleeps, gap, Enc!Die
  PROVE  WholeKey' /\ OneFile' /\ MarkerApart'
<1>1. /\ client \in [at : {"menu", "chunks", "result", "ask", "gone", "killed"}, round : Nat,
                     sent : Nat, reset : BOOLEAN, enc : Seq(Nat \X Int)]
      /\ child \in [at : {"key", "file", "reply", "gone", "killed"}, key : Nat,
                    temp : Seq(Int), sent : Nat]
      /\ UNCHANGED up
  BY DEF EncInv, EncFields, Enc!Die
<1>2. CASE client' = [client EXCEPT !.at = "killed"] /\ child' = child
  <2>1. client'.at = "killed" /\ client'.round = client.round
    BY <1>1, <1>2
  <2>2. WholeKey'
    BY <1>2, <2>1, WholeKeyKept DEF Sleeps, Enc!Gone
  <2>. QED BY <1>2, <2>1, <2>2 DEF Sleeps, OneFile, MarkerApart, Enc!Gone
<1>3. CASE /\ child' = [child EXCEPT !.at = "killed"]
           /\ client' = [client EXCEPT !.reset = up # <<>>]
  <2>1. child'.at = "killed" /\ client'.at = client.at /\ client'.round = client.round
    BY <1>1, <1>3
  <2>. QED BY <2>1 DEF WholeKey, OneFile, MarkerApart, Enc!Gone
<1>. QED BY <1>2, <1>3 DEF Enc!Die

LEMMA SleepsStep == EncInv /\ Sleeps /\ [Next]_vars => Sleeps'
<1>. SUFFICES ASSUME EncInv, Sleeps, [Next]_vars, gap' PROVE WholeKey' /\ OneFile' /\ MarkerApart'
  BY DEF Sleeps
<1>1. gap
  BY DEF Next, vars, encVars, Enc!Next, Enc!System, EncFile, Words, StopWait, Sample, Checksum,
         Chat, Enc!Choose, Enc!SendChunk, Enc!SendMarker, Enc!Receive, Enc!Success,
         Enc!Continue, Enc!ReadKey, Enc!ReadFile, Enc!Reply, Enc!Die
<1>2. CASE UNCHANGED encVars
  BY <1>1, <1>2 DEF encVars, Sleeps, WholeKey, OneFile, MarkerApart, Enc!Gone
<1>3. CASE Enc!Next
  <2>1. ASSUME NEW n \in 0..MaxSize, Enc!Choose(n) PROVE WholeKey' /\ OneFile' /\ MarkerApart'
    <3>1. n \in Nat
      BY TransfersAssumption
    <3>. QED BY <1>1, <2>1, <3>1, SleepsChoose
  <2>. QED BY <1>1, <1>3, <2>1, SleepsSendChunk, SleepsSendMarker, SleepsClient,
              SleepsReadKey, SleepsReadFile, SleepsReply, SleepsDie DEF Enc!Next, Enc!System
<1>. QED BY <1>2, <1>3 DEF Next, vars, EncFile, Words, StopWait, Sample, Checksum, Chat

(* The marker is all that the child has left to read, and the file that    *)
(* the client gets is the right one.                                       *)
SleepsWork == gap =>
  /\ MarkerApart
  /\ client.round = 1 /\ client.at = "ask" /\ deaths = 0 => client.enc = Enc!Result

(* Where the sleeps work, a client that waits for its file has a child     *)
(* that reads the marker in a recv of its own, and so goes on to encrypt   *)
(* (doencfileserver.c, line 143); and the file that success is announced   *)
(* for is the right one, unless a process was killed.  The key then comes  *)
(* in one read, which EncryptedRight has to ask for.  TransferEnds rests   *)
(* on this.                                                                *)
THEOREM MarkerAlone == FairSpec => []SleepsWork
<1>1. Init => EncInv /\ Sleeps
  BY EncInit, SleepsInit DEF Init
<1>2. EncInv /\ Sleeps => SleepsWork
  <2>. SUFFICES ASSUME EncInv, Sleeps, gap, client.round = 1, client.at = "ask", deaths = 0
                PROVE  client.enc = Enc!Result
    BY DEF SleepsWork, Sleeps
  <2>1. child.at = "gone" /\ ~Enc!Gone(client)
    BY DEF Sleeps, OneFile, Enc!Gone, EncInv, Killed, EncFields
  <2>2. child.key = KeyLen
    BY <2>1 DEF Sleeps, WholeKey
  <2>. QED BY <2>2, EncRight DEF EncryptedRight, Enc!EncryptedRight
<1>. QED BY <1>1, <1>2, EncStep, SleepsStep, PTL DEF FairSpec
-----------------------------------------------------------------------------
(* The connections of the sample server.                                   *)
Queued(c) == \E i \in 1 .. Len(backlog) : backlog[i] = c
Done(c)   == heard[c] # "nothing"

SampleFields ==
  /\ forks \in BOOLEAN
  /\ peer \in [Peers -> {"idle", "waiting", "sent", "stuck", "killed"}]
  /\ backlog \in Seq(Peers)
  /\ serving \subseteq Peers
  /\ heard \in [Peers -> {"nothing", "message", "part", "mixed", "empty", "greeting"}]

(* A connection waits at most once, and is in one place from connect on.   *)
NoneTwice == \A i, j \in 1 .. Len(backlog) : backlog[i] = backlog[j] => i = j
Placed(c) ==
  /\ peer[c] # "idle" <=> Queued(c) \/ c \in serving \/ Done(c)
  /\ ~(Queued(c) /\ c \in serving) /\ ~(Queued(c) /\ Done(c)) /\ ~(c \in serving /\ Done(c))
  /\ c \in greeted <=> c \in serving \/ Done(c)
OneServed == ~forks => \A c, d \in serving : c = d
SampleInv == SampleFields /\ NoneTwice /\ (\A c \in Peers : Placed(c)) /\ OneServed

LEMMA SampleInit == Tcp!Init => SampleInv
<1>. SUFFICES ASSUME Tcp!Init PROVE SampleInv
  OBVIOUS
<1>1. backlog = <<>> /\ Len(backlog) = 0
  BY DEF Tcp!Init
<1>. QED BY <1>1 DEF Tcp!Init, SampleInv, SampleFields, NoneTwice, Placed, Queued, Done, OneServed

LEMMA PlacedKept ==
  ASSUME NEW c, Placed(c), peer'[c] # "idle" <=> peer[c] # "idle", Queued(c)' <=> Queued(c),
         c \in serving' <=> c \in serving, heard'[c] = heard[c], c \in greeted' <=> c \in greeted
  PROVE  Placed(c)'
BY DEF Placed, Done

LEMMA SampleConnect ==
  ASSUME SampleInv, NEW p \in Peers, Tcp!Connect(p) PROVE SampleInv'
<1>1. /\ peer[p] = "idle" /\ peer' = [peer EXCEPT ![p] = "waiting"]
      /\ backlog' = Append(backlog, p) /\ UNCHANGED <<forks, serving, greeted, heard>>
  BY DEF Tcp!Connect
<1>2. SampleFields /\ NoneTwice /\ OneServed /\ \A c \in Peers : Placed(c)
  BY DEF SampleInv
<1>3. /\ backlog \in Seq(Peers) /\ Len(backlog) \in Nat /\ Len(backlog') = Len(backlog) + 1
      /\ \A i \in 1 .. Len(backlog) : backlog'[i] = backlog[i]
      /\ backlog'[Len(backlog) + 1] = p /\ backlog' \in Seq(Peers)
  BY <1>1, <1>2, AppendProperties, LenProperties DEF SampleFields
<1>4. SampleFields'
  BY <1>1, <1>2, <1>3 DEF SampleFields
<1>5. ~Queued(p) /\ p \notin serving /\ ~Done(p) /\ p \notin greeted
  BY <1>1, <1>2 DEF Placed
<1>6. NoneTwice'
  BY <1>2, <1>3, <1>5 DEF NoneTwice, Queued
<1>7. ASSUME NEW c \in Peers PROVE Queued(c)' <=> (Queued(c) \/ c = p)
  <2>1. Queued(c)' => Queued(c) \/ c = p
    BY <1>3 DEF Queued
  <2>2. Queued(c) => Queued(c)'
    BY <1>3 DEF Queued
  <2>3. Queued(p)'
    BY <1>3 DEF Queued
  <2>. QED BY <2>1, <2>2, <2>3
<1>8. ASSUME NEW c \in Peers PROVE Placed(c)'
  <2>1. CASE c = p
    <3>1. peer'[c] # "idle" /\ Queued(c)' /\ c \notin serving' /\ heard'[c] = heard[c] /\ c \notin greeted'
      BY <1>1, <1>2, <1>5, <1>7, <2>1 DEF SampleFields
    <3>. QED BY <3>1, <1>5, <2>1 DEF Placed, Done
  <2>2. CASE c # p
    <3>1. peer'[c] = peer[c] /\ (Queued(c)' <=> Queued(c))
      BY <1>1, <1>2, <1>7, <2>2 DEF SampleFields
    <3>. QED BY <1>1, <1>2, <3>1, PlacedKept
  <2>. QED BY <2>1, <2>2
<1>9. OneServed'
  BY <1>1, <1>2 DEF OneServed
<1>. QED BY <1>4, <1>6, <1>8, <1>9 DEF SampleInv

LEMMA SampleAccept == SampleInv /\ Tcp!Accept => SampleInv'
<1>. SUFFICES ASSUME SampleInv, Tcp!Accept PROVE SampleInv'
  OBVIOUS
<1>. DEFINE p == Head(backlog)
<1>1. /\ backlog # <<>> /\ (forks \/ serving = {}) /\ backlog' = Tail(backlog)
      /\ serving' = serving \cup {p} /\ greeted' = greeted \cup {p}
      /\ UNCHANGED <<forks, peer, heard>>
  BY DEF Tcp!Accept, Tcp!FreeToAccept
<1>2. SampleFields /\ NoneTwice /\ OneServed /\ \A c \in Peers : Placed(c)
  BY DEF SampleInv
<1>3. /\ backlog \in Seq(Peers) /\ Len(backlog) \in Nat \ {0} /\ p = backlog[1] /\ p \in Peers
      /\ Len(backlog') = Len(backlog) - 1 /\ backlog' \in Seq(Peers)
      /\ \A i \in 1 .. Len(backlog') : backlog'[i] = backlog[i + 1]
  BY <1>1, <1>2, HeadTailProperties, LenProperties, EmptySeq DEF SampleFields
<1>4. SampleFields'
  BY <1>1, <1>2, <1>3 DEF SampleFields
<1>5. Queued(p) /\ p \notin serving /\ ~Done(p) /\ p \notin greeted
  <2>1. Queued(p)
    BY <1>3 DEF Queued
  <2>. QED BY <2>1, <1>2, <1>3 DEF Placed
<1>6. NoneTwice'
  BY <1>2, <1>3 DEF NoneTwice
<1>7. ASSUME NEW c \in Peers PROVE Queued(c)' <=> (Queued(c) /\ c # p)
  <2>1. ASSUME Queued(c)' PROVE Queued(c) /\ c # p
    <3>1. PICK i \in 1 .. Len(backlog') : backlog'[i] = c
      BY <2>1 DEF Queued
    <3>2. i + 1 \in 1 .. Len(backlog) /\ backlog[i + 1] = c /\ i + 1 # 1 /\ 1 \in 1 .. Len(backlog)
      BY <1>3, <3>1
    <3>. QED BY <1>2, <1>3, <3>2 DEF Queued, NoneTwice
  <2>2. ASSUME Queued(c), c # p PROVE Queued(c)'
    <3>1. PICK i \in 1 .. Len(backlog) : backlog[i] = c
      BY <2>2 DEF Queued
    <3>2. i - 1 \in 1 .. Len(backlog') /\ backlog'[i - 1] = c
      BY <1>3, <2>2, <3>1
    <3>. QED BY <3>2 DEF Queued
  <2>. QED BY <2>1, <2>2
<1>8. ASSUME NEW c \in Peers PROVE Placed(c)'
  <2>1. CASE c = p
    <3>1. /\ peer'[c] = peer[c] /\ ~Queued(c)' /\ c \in serving' /\ heard'[c] = heard[c]
          /\ c \in greeted'
      BY <1>1, <1>7, <2>1
    <3>2. peer[c] # "idle"
      BY <1>2, <1>5, <2>1 DEF Placed
    <3>. QED BY <3>1, <3>2, <1>5, <2>1 DEF Placed, Done
  <2>2. CASE c # p
    <3>1. Queued(c)' <=> Queued(c)
      BY <1>7, <2>2
    <3>2. /\ c \in serving' <=> c \in serving
          /\ c \in greeted' <=> c \in greeted
      BY <1>1, <2>2
    <3>. QED BY <1>1, <1>2, <3>1, <3>2, PlacedKept
  <2>. QED BY <2>1, <2>2
<1>9. OneServed'
  BY <1>1, <1>2 DEF OneServed
<1>. QED BY <1>4, <1>6, <1>8, <1>9 DEF SampleInv

LEMMA SampleHear ==
  ASSUME SampleInv, NEW p \in Peers, Tcp!Hear(p) PROVE SampleInv'
<1>1. /\ p \in serving /\ serving' = serving \ {p} /\ UNCHANGED <<forks, peer, backlog, greeted>>
  BY DEF Tcp!Hear
<1>2. PICK text \in {"message", "part", "mixed", "empty", "greeting"} :
        heard' = [heard EXCEPT ![p] = text]
  BY DEF Tcp!Hear, Tcp!Printed
<1>3. SampleFields /\ NoneTwice /\ OneServed /\ \A c \in Peers : Placed(c)
  BY DEF SampleInv
<1>4. heard'[p] # "nothing" /\ \A c \in Peers : c # p => heard'[c] = heard[c]
  BY <1>2, <1>3 DEF SampleFields
<1>5. SampleFields'
  BY <1>1, <1>2, <1>3 DEF SampleFields
<1>6. NoneTwice' /\ OneServed'
  BY <1>1, <1>3 DEF NoneTwice, OneServed
<1>7. ASSUME NEW c \in Peers PROVE Placed(c)'
  <2>1. Queued(c)' <=> Queued(c)
    BY <1>1 DEF Queued
  <2>2. CASE c = p
    BY <1>1, <1>3, <1>4, <2>1, <2>2 DEF Placed, Done
  <2>3. CASE c # p
    BY <1>1, <1>3, <1>4, <2>1, <2>3, PlacedKept
  <2>. QED BY <2>2, <2>3
<1>. QED BY <1>5, <1>6, <1>7 DEF SampleInv

(* A client that replies, hangs or is killed has connected, and stays      *)
(* where it is.                                                            *)
LEMMA SamplePeer ==
  ASSUME SampleInv, NEW p \in Peers, NEW how \in {"sent", "stuck", "killed"},
         peer[p] = "waiting", peer' = [peer EXCEPT ![p] = how],
         UNCHANGED <<forks, backlog, serving, greeted, heard>>
  PROVE  SampleInv'
<1>1. SampleFields /\ NoneTwice /\ OneServed /\ \A c \in Peers : Placed(c)
  BY DEF SampleInv
<1>2. SampleFields' /\ NoneTwice' /\ OneServed'
  BY <1>1 DEF SampleFields, NoneTwice, OneServed
<1>3. ASSUME NEW c \in Peers PROVE Placed(c)'
  <2>1. peer'[c] # "idle" <=> peer[c] # "idle"
    BY <1>1 DEF SampleFields
  <2>2. Queued(c)' <=> Queued(c)
    BY DEF Queued
  <2>. QED BY <1>1, <2>1, <2>2, PlacedKept
<1>. QED BY <1>2, <1>3 DEF SampleInv

LEMMA SampleStep == SampleInv /\ Tcp!Next => SampleInv'
<1>. SUFFICES ASSUME SampleInv, Tcp!Next PROVE SampleInv'
  OBVIOUS
<1>1. ASSUME NEW c \in Peers, Tcp!Reply(c) PROVE SampleInv'
  BY <1>1, SamplePeer DEF Tcp!Reply
<1>2. ASSUME NEW c \in Peers, NEW how \in {"stuck", "killed"}, Tcp!Fail(c, how) PROVE SampleInv'
  BY <1>2, SamplePeer DEF Tcp!Fail
<1>. QED BY <1>1, <1>2, SampleConnect, SampleAccept, SampleHear DEF Tcp!Next, Tcp!System

(* A client that has connected is in one place.                            *)
InOnePlace ==
  /\ \A c \in Peers : peer[c] # "idle" =>
       \/ Queued(c) /\ c \notin greeted /\ heard[c] = "nothing"
       \/ ~Queued(c) /\ c \in serving \cap greeted /\ heard[c] = "nothing"
       \/ ~Queued(c) /\ c \in greeted \ serving /\ heard[c] # "nothing"
  /\ ~forks => \A c, d \in serving : c = d

(* From connect on a client's connection waits for accept, and then has    *)
(* not been greeted; or is served; or is done with, and something printed: *)
(* never two of these, and never none, so that no connection is lost or    *)
(* served twice.  The iterative server has at most one (tcpserver.c, line  *)
(* 177).  EveryoneServed rests on this.                                    *)
THEOREM ConnectionsKept == FairSpec => []InOnePlace
<1>1. Init => SampleInv
  BY SampleInit DEF Init
<1>2. SampleInv /\ UNCHANGED tcpVars => SampleInv'
  BY DEF SampleInv, tcpVars, SampleFields, NoneTwice, Placed, Queued, Done, OneServed
<1>3. SampleInv /\ [Next]_vars => SampleInv'
  BY <1>2, SampleStep
  DEF Next, vars, EncFile, Words, StopWait, Sample, Checksum, Chat
<1>4. SampleInv => InOnePlace
  BY DEF SampleInv, Placed, Done, OneServed, InOnePlace
<1>. QED BY <1>1, <1>3, <1>4, PTL DEF FairSpec
-----------------------------------------------------------------------------
(* The chat: who is in line, and where a client stands that came alone.    *)
InLine(c) == \E i \in 1 .. Len(queue) : queue[i] = c

ChatFields ==
  /\ guest \in [Guests -> {"connect", "address", "port", "question", "closed"}]
  /\ alone \subseteq Guests
  /\ queue \in Seq(Guests)
  /\ stream \in [Guests -> Seq({"address", "port", "number"})]
  /\ host \in [at : {"accept", "address", "port", "number"}, whom : SUBSET Guests]
  /\ IF host.at = "accept" THEN host.whom = {} ELSE \E c \in Guests : host.whom = {c}

OnceInLine == \A i, j \in 1 .. Len(queue) : queue[i] = queue[j] => i = j

NotCome(c) == guest[c] = "connect" =>
  ~InLine(c) /\ host.whom # {c} /\ c \notin alone \cup asked /\ stream[c] = <<>>

IsNext(c) ==
  /\ host.at = "accept" /\ queue # <<>> /\ Head(queue) = c /\ c \notin asked
  /\ \/ guest[c] = "address" /\ stream[c] = <<>>
     \/ guest[c] = "port" /\ stream[c] = <<"address">>

IsServed(c) ==
  /\ host.whom = {c} /\ ~InLine(c) /\ (c \in asked <=> host.at = "number")
  /\ \/ guest[c] = "address"  /\ host.at = "address" /\ stream[c] = <<>>
     \/ guest[c] = "port"     /\ host.at = "address" /\ stream[c] = <<"address">>
     \/ guest[c] = "port"     /\ host.at = "port"    /\ stream[c] = <<>>
     \/ guest[c] = "question" /\ host.at = "port"    /\ stream[c] = <<"port">>
     \/ guest[c] = "question" /\ host.at = "number"  /\ stream[c] = <<>>
     \/ guest[c] = "closed"   /\ host.at = "number"  /\ stream[c] = <<"number">>

HasLeft(c) == host.whom # {c} /\ ~InLine(c) /\ guest[c] = "closed"

ChatInv ==
  /\ ChatFields
  /\ OnceInLine
  /\ \A c \in Guests : NotCome(c)
  /\ \A c \in alone : IsNext(c) \/ IsServed(c) \/ HasLeft(c)

LEMMA ChatInit == Cht!Init => ChatInv
<1>. SUFFICES ASSUME Cht!Init PROVE ChatInv
  OBVIOUS
<1>1. queue = <<>> /\ Len(queue) = 0 /\ alone = {}
  BY DEF Cht!Init
<1>. QED BY <1>1 DEF Cht!Init, ChatInv, ChatFields, OnceInLine, NotCome, InLine

LEMMA ChatConnect ==
  ASSUME ChatInv, NEW g \in Guests, Cht!Connect(g) PROVE ChatInv'
<1>1. /\ guest[g] = "connect" /\ guest' = [guest EXCEPT ![g] = "address"]
      /\ queue' = Append(queue, g)
      /\ alone' = IF host.at = "accept" /\ queue = <<>> THEN alone \cup {g} ELSE alone
      /\ UNCHANGED <<stream, asked, host>>
  BY DEF Cht!Connect, Cht!Moves
<1>2. /\ ChatFields /\ OnceInLine /\ \A c \in Guests : NotCome(c)
      /\ \A c \in alone : IsNext(c) \/ IsServed(c) \/ HasLeft(c)
  BY DEF ChatInv
<1>3. /\ queue \in Seq(Guests) /\ Len(queue) \in Nat /\ Len(queue') = Len(queue) + 1
      /\ \A i \in 1 .. Len(queue) : queue'[i] = queue[i]
      /\ queue'[Len(queue) + 1] = g /\ queue' \in Seq(Guests) /\ queue' # <<>>
  BY <1>1, <1>2, AppendProperties, LenProperties DEF ChatFields
<1>4. ~InLine(g) /\ host.whom # {g} /\ g \notin alone \cup asked /\ stream[g] = <<>>
  BY <1>1, <1>2 DEF NotCome
<1>5. /\ guest'[g] = "address"
      /\ \A c \in Guests : c # g => guest'[c] = guest[c]
  BY <1>1, <1>2 DEF ChatFields
<1>6. ChatFields'
  BY <1>1, <1>2, <1>3 DEF ChatFields
<1>7. OnceInLine'
  BY <1>2, <1>3, <1>4 DEF OnceInLine, InLine
<1>8. ASSUME NEW c \in Guests, c # g PROVE InLine(c)' <=> InLine(c)
  BY <1>3, <1>8 DEF InLine
<1>9. ASSUME NEW c \in Guests PROVE NotCome(c)'
  <2>1. CASE c = g
    BY <1>5, <2>1 DEF NotCome
  <2>2. CASE c # g
    BY <1>1, <1>2, <1>5, <1>8, <2>2 DEF NotCome
  <2>. QED BY <2>1, <2>2
<1>10. queue # <<>> => Head(queue') = Head(queue)
  BY <1>3, HeadTailProperties, EmptySeq
<1>11. ASSUME NEW c \in alone' PROVE (IsNext(c) \/ IsServed(c) \/ HasLeft(c))'
  <2>1. CASE c = g
    <3>1. host.at = "accept" /\ queue = <<>>
      BY <1>1, <1>4, <2>1, <1>11
    <3>2. Head(queue') = g
      BY <1>3, <3>1
    <3>. QED BY <1>1, <1>3, <1>4, <1>5, <2>1, <3>1, <3>2 DEF IsNext
  <2>2. CASE c # g
    <3>1. c \in alone /\ c \in Guests
      BY <1>1, <1>2, <1>11, <2>2 DEF ChatFields
    <3>2. guest'[c] = guest[c] /\ (InLine(c)' <=> InLine(c))
      BY <1>5, <1>8, <2>2, <3>1
    <3>3. CASE IsNext(c)
      BY <1>1, <1>3, <1>10, <3>2, <3>3 DEF IsNext
    <3>4. CASE IsServed(c)
      BY <1>1, <3>2, <3>4 DEF IsServed
    <3>5. CASE HasLeft(c)
      BY <1>1, <3>2, <3>5 DEF HasLeft
    <3>. QED BY <1>2, <3>1, <3>3, <3>4, <3>5
  <2>. QED BY <2>1, <2>2
<1>. QED BY <1>6, <1>7, <1>9, <1>11 DEF ChatInv

LEMMA ChatAccept == ChatInv /\ Cht!Accept => ChatInv'
<1>. SUFFICES ASSUME ChatInv, Cht!Accept PROVE ChatInv'
  OBVIOUS
<1>. DEFINE g == Head(queue)
<1>1. /\ host.at = "accept" /\ queue # <<>> /\ host' = [at |-> "address", whom |-> {g}]
      /\ queue' = Tail(queue) /\ UNCHANGED <<guest, alone, stream, asked>>
  BY DEF Cht!Accept
<1>2. /\ ChatFields /\ OnceInLine /\ \A c \in Guests : NotCome(c)
      /\ \A c \in alone : IsNext(c) \/ IsServed(c) \/ HasLeft(c)
  BY DEF ChatInv
<1>3. /\ queue \in Seq(Guests) /\ Len(queue) \in Nat \ {0} /\ g = queue[1] /\ g \in Guests
      /\ Len(queue') = Len(queue) - 1 /\ queue' \in Seq(Guests)
      /\ \A i \in 1 .. Len(queue') : queue'[i] = queue[i + 1]
  BY <1>1, <1>2, HeadTailProperties, LenProperties, EmptySeq DEF ChatFields
<1>4. host'.at = "address" /\ host'.whom = {g} /\ host.whom = {}
  BY <1>1, <1>2 DEF ChatFields
<1>5. ChatFields'
  <2>1. host' \in [at : {"accept", "address", "port", "number"}, whom : SUBSET Guests]
    BY <1>1, <1>3
  <2>. HIDE DEF g
  <2>. QED BY <1>1, <1>2, <1>3, <1>4, <2>1 DEF ChatFields
<1>6. InLine(g)
  BY <1>3 DEF InLine
<1>7. OnceInLine'
  <2>. SUFFICES ASSUME NEW i \in 1 .. Len(queue'), NEW j \in 1 .. Len(queue'),
                       queue'[i] = queue'[j]
                PROVE  i = j
    BY DEF OnceInLine
  <2>1. /\ i + 1 \in 1 .. Len(queue) /\ j + 1 \in 1 .. Len(queue)
        /\ queue[i + 1] = queue[j + 1]
    BY <1>3
  <2>. QED BY <1>2, <2>1 DEF OnceInLine
<1>8. ASSUME NEW c \in Guests PROVE (InLine(c)' => InLine(c)) /\ ~(c = g /\ InLine(c)')
  <2>1. ASSUME InLine(c)' PROVE InLine(c) /\ c # g
    <3>1. PICK i \in 1 .. Len(queue') : queue'[i] = c
      BY <2>1 DEF InLine
    <3>2. i + 1 \in 1 .. Len(queue) /\ queue[i + 1] = c /\ i + 1 # 1 /\ 1 \in 1 .. Len(queue)
      BY <1>3, <3>1
    <3>. QED BY <1>2, <1>3, <3>2 DEF InLine, OnceInLine
  <2>. QED BY <2>1
<1>9. ASSUME NEW c \in Guests PROVE NotCome(c)'
  <2>1. guest[c] = "connect" => c # g
    BY <1>2, <1>6 DEF NotCome
  <2>. QED BY <1>1, <1>2, <1>4, <1>8, <2>1 DEF NotCome
<1>10. ASSUME NEW c \in alone' PROVE (IsNext(c) \/ IsServed(c) \/ HasLeft(c))'
  <2>1. c \in alone /\ c \in Guests
    BY <1>1, <1>2 DEF ChatFields
  <2>2. CASE IsNext(c)
    <3>1. c = g /\ ~InLine(c)'
      BY <1>8, <2>1, <2>2 DEF IsNext
    <3>2. IsServed(c)'
      BY <1>1, <1>4, <2>2, <3>1 DEF IsNext, IsServed
    <3>. QED BY <3>2
  <2>3. CASE IsServed(c)
    BY <1>4, <2>3 DEF IsServed
  <2>4. CASE HasLeft(c)
    <3>1. c # g /\ ~InLine(c)'
      BY <1>6, <1>8, <2>1, <2>4 DEF HasLeft
    <3>. QED BY <1>1, <1>4, <2>4, <3>1 DEF HasLeft
  <2>. QED BY <1>2, <2>1, <2>2, <2>3, <2>4
<1>. QED BY <1>5, <1>7, <1>9, <1>10 DEF ChatInv

(* The client takes its next step and sends text: the others see nothing,  *)
(* and for one that came alone it is the read that the server is at.       *)
LEMMA ChatSend ==
  ASSUME ChatInv, NEW g \in Guests, guest[g] # "connect",
         NEW to \in {"port", "question", "closed"}, NEW text \in {"address", "port", "number"},
         Cht!Sends(g, text), guest' = [guest EXCEPT ![g] = to],
         UNCHANGED <<alone, queue, asked, host>>,
         g \in alone /\ IsNext(g) => to = "port" /\ text = "address" /\ stream[g] = <<>>,
         g \in alone /\ IsServed(g) =>
           stream[g] = <<>> /\ \/ to = "port" /\ text = "address" /\ host.at = "address"
                               \/ to = "question" /\ text = "port" /\ host.at = "port"
                               \/ to = "closed" /\ text = "number" /\ host.at = "number",
         g \in alone => ~HasLeft(g)
  PROVE  ChatInv'
<1>1. /\ ChatFields /\ OnceInLine /\ \A c \in Guests : NotCome(c)
      /\ \A c \in alone : IsNext(c) \/ IsServed(c) \/ HasLeft(c)
  BY DEF ChatInv
<1>2. /\ guest'[g] = to /\ stream'[g] = Append(stream[g], text)
      /\ \A c \in Guests : c # g => guest'[c] = guest[c] /\ stream'[c] = stream[c]
      /\ stream[g] \in Seq({"address", "port", "number"})
  BY <1>1 DEF ChatFields, Cht!Sends
<1>3. ChatFields'
  <2>1. Append(stream[g], text) \in Seq({"address", "port", "number"})
    BY <1>2, AppendProperties
  <2>2. stream' = [stream EXCEPT ![g] = Append(stream[g], text)]
    BY DEF Cht!Sends
  <2>. QED BY <1>1, <2>1, <2>2 DEF ChatFields
<1>4. OnceInLine' /\ \A c : InLine(c)' <=> InLine(c)
  BY <1>1 DEF OnceInLine, InLine
<1>5. ASSUME NEW c \in Guests PROVE NotCome(c)'
  BY <1>1, <1>2, <1>4 DEF NotCome
<1>6. Append(<<>>, text) = <<text>>
  OBVIOUS
<1>7. ASSUME NEW c \in alone' PROVE (IsNext(c) \/ IsServed(c) \/ HasLeft(c))'
  <2>1. c \in alone /\ c \in Guests
    BY <1>1 DEF ChatFields
  <2>2. CASE c # g
    BY <1>1, <1>2, <1>4, <2>1, <2>2 DEF IsNext, IsServed, HasLeft
  <2>3. CASE c = g /\ IsNext(g)
    <3>1. to = "port" /\ text = "address" /\ stream[g] = <<>>
      BY <2>1, <2>3
    <3>2. stream'[g] = <<text>> /\ guest'[g] = "port"
      BY <1>2, <1>6, <3>1
    <3>. QED BY <2>3, <3>1, <3>2 DEF IsNext
  <2>4. CASE c = g /\ IsServed(g)
    <3>1. stream'[g] = <<text>>
      BY <1>2, <1>6, <2>1, <2>4
    <3>. QED BY <1>2, <1>4, <2>1, <2>4, <3>1 DEF IsServed
  <2>. QED BY <1>1, <2>1, <2>2, <2>3, <2>4
<1>. QED BY <1>3, <1>4, <1>5, <1>7 DEF ChatInv

LEMMA ChatSendAddress == ASSUME ChatInv, NEW g \in Guests, Cht!SendAddress(g) PROVE ChatInv'
<1>1. /\ guest[g] = "address" /\ guest' = [guest EXCEPT ![g] = "port"]
      /\ Cht!Sends(g, "address") /\ UNCHANGED <<alone, queue, asked, host>>
  BY DEF Cht!SendAddress, Cht!Moves
<1>2. /\ IsNext(g) => stream[g] = <<>>
      /\ IsServed(g) => stream[g] = <<>> /\ host.at = "address"
      /\ ~HasLeft(g)
  BY <1>1 DEF IsNext, IsServed, HasLeft
<1>. QED BY <1>1, <1>2, ChatSend

LEMMA ChatSendPort == ASSUME ChatInv, NEW g \in Guests, Cht!SendPort(g) PROVE ChatInv'
<1>1. /\ guest[g] = "port" /\ guest' = [guest EXCEPT ![g] = "question"]
      /\ stream[g] = <<>> \/ host.whom \notin {{}, {g}}
      /\ Cht!Sends(g, "port") /\ UNCHANGED <<alone, queue, asked, host>>
  BY DEF Cht!SendPort, Cht!Moves
<1>2. <<"address">> # <<>> /\ (host.at = "accept" => host.whom = {})
  BY DEF ChatInv, ChatFields
<1>3. ~IsNext(g)
  BY <1>1, <1>2 DEF IsNext
<1>4. IsServed(g) => stream[g] = <<>> /\ host.at = "port"
  BY <1>1, <1>2 DEF IsServed
<1>5. ~HasLeft(g)
  BY <1>1 DEF HasLeft
<1>. QED BY <1>1, <1>3, <1>4, <1>5, ChatSend

LEMMA ChatSendNumber == ASSUME ChatInv, NEW g \in Guests, Cht!SendNumber(g) PROVE ChatInv'
<1>1. /\ guest[g] = "question" /\ guest' = [guest EXCEPT ![g] = "closed"] /\ g \in asked
      /\ Cht!Sends(g, "number") /\ UNCHANGED <<alone, queue, asked, host>>
  BY DEF Cht!SendNumber, Cht!Moves
<1>2. /\ ~IsNext(g)
      /\ IsServed(g) => stream[g] = <<>> /\ host.at = "number"
      /\ ~HasLeft(g)
  BY <1>1 DEF IsNext, IsServed, HasLeft
<1>. QED BY <1>1, <1>2, ChatSend

(* One read takes one message from a client that came alone.               *)
LEMMA ChatRead == ASSUME ChatInv, NEW g \in Guests, Cht!Read(g) PROVE ChatInv'
<1>1. /\ host.whom = {g} /\ stream[g] # <<>> /\ stream' = [stream EXCEPT ![g] = <<>>]
      /\ UNCHANGED <<guest, alone, queue>>
  BY DEF Cht!Read
<1>2. /\ ChatFields /\ OnceInLine /\ \A c \in Guests : NotCome(c)
      /\ \A c \in alone : IsNext(c) \/ IsServed(c) \/ HasLeft(c)
  BY DEF ChatInv
<1>3. host.at \in {"address", "port", "number"}
  BY <1>1, <1>2 DEF ChatFields
<1>4. /\ host.at = "address" => host' = [host EXCEPT !.at = "port"] /\ asked' = asked
      /\ host.at = "port" => host' = [host EXCEPT !.at = "number"] /\ asked' = asked \cup {g}
      /\ host.at = "number" => host' = [at |-> "accept", whom |-> {}] /\ asked' = asked
  BY <1>3 DEF Cht!Read
<1>5. /\ host'.at = IF host.at = "address" THEN "port"
                    ELSE IF host.at = "port" THEN "number" ELSE "accept"
      /\ host'.whom = IF host.at = "number" THEN {} ELSE {g}
      /\ host' \in [at : {"accept", "address", "port", "number"}, whom : SUBSET Guests]
  <2>1. host \in [at : {"accept", "address", "port", "number"}, whom : SUBSET Guests]
    BY <1>2 DEF ChatFields
  <2>2. CASE host.at = "address"
    <3>1. host' = [host EXCEPT !.at = "port"]
      BY <1>4, <2>2
    <3>. QED BY <1>1, <2>1, <2>2, <3>1
  <2>3. CASE host.at = "port"
    <3>1. host' = [host EXCEPT !.at = "number"]
      BY <1>4, <2>3
    <3>. QED BY <1>1, <2>1, <2>3, <3>1
  <2>4. CASE host.at = "number"
    BY <1>4, <2>4
  <2>. QED BY <1>3, <2>2, <2>3, <2>4
<1>6. /\ stream'[g] = <<>>
      /\ \A c \in Guests : c # g => stream'[c] = stream[c]
      /\ stream' \in [Guests -> Seq({"address", "port", "number"})]
  <2>1. <<>> \in Seq({"address", "port", "number"})
    OBVIOUS
  <2>. QED BY <1>1, <1>2, <2>1 DEF ChatFields
<1>7. ChatFields'
  BY <1>1, <1>2, <1>3, <1>5, <1>6 DEF ChatFields
<1>8. OnceInLine' /\ \A c : InLine(c)' <=> InLine(c)
  BY <1>1, <1>2 DEF OnceInLine, InLine
<1>9. \A c : c # g => (c \in asked' <=> c \in asked)
  BY <1>3, <1>4
<1>10. ASSUME NEW c \in Guests PROVE NotCome(c)'
  <2>1. guest[c] = "connect" => c # g /\ host'.whom # {c}
    BY <1>1, <1>2, <1>5 DEF NotCome
  <2>. QED BY <1>1, <1>2, <1>6, <1>8, <1>9, <2>1 DEF NotCome
<1>11. ASSUME NEW c \in alone' PROVE (IsNext(c) \/ IsServed(c) \/ HasLeft(c))'
  <2>1. c \in alone /\ c \in Guests
    BY <1>1, <1>2 DEF ChatFields
  <2>2. CASE IsNext(c)
    BY <1>3, <2>2 DEF IsNext
  <2>3. CASE IsServed(c)
    <3>1. c = g
      BY <1>1, <2>3 DEF IsServed
    <3>2. CASE host.at = "address"
      <4>1. guest'[c] = "port" /\ host'.at = "port" /\ host'.whom = {c} /\ stream'[c] = <<>>
        BY <1>1, <1>5, <1>6, <2>3, <3>1, <3>2 DEF IsServed
      <4>. QED BY <1>1, <1>4, <1>8, <2>3, <3>1, <3>2, <4>1 DEF IsServed
    <3>3. CASE host.at = "port"
      <4>1. guest'[c] = "question" /\ host'.at = "number" /\ host'.whom = {c} /\ stream'[c] = <<>>
        BY <1>1, <1>5, <1>6, <2>3, <3>1, <3>3 DEF IsServed
      <4>. QED BY <1>1, <1>4, <1>8, <2>3, <3>1, <3>3, <4>1 DEF IsServed
    <3>4. CASE host.at = "number"
      <4>1. guest'[c] = "closed" /\ host'.whom = {}
        BY <1>1, <1>5, <1>6, <2>3, <3>1, <3>4 DEF IsServed
      <4>. QED BY <1>1, <1>8, <2>3, <4>1 DEF IsServed, HasLeft
    <3>. QED BY <1>3, <3>2, <3>3, <3>4
  <2>4. CASE HasLeft(c)
    BY <1>1, <1>5, <1>8, <2>4 DEF HasLeft
  <2>. QED BY <1>2, <2>1, <2>2, <2>3, <2>4
<1>. QED BY <1>7, <1>8, <1>10, <1>11 DEF ChatInv

(* Each of the three reads gets what it is for.                            *)
Comes(c) == host.at = "accept" /\ queue # <<>> /\ Head(queue) = c
ReadsApart == \A c \in alone :
  /\ host.whom = {c} => stream[c] \in {<<>>, <<host.at>>}
  /\ guest[c] # "closed" => host.whom = {c} \/ Comes(c)
  /\ guest[c] = "question" /\ stream[c] = <<>> => c \in asked

(* For a client that finds the server in accept, each of the server's      *)
(* three reads gets one message, the one it is for; until it has closed it *)
(* is the next or the one that is served; and after its port was read it   *)
(* has the question (chatserver.c, line 67).  Those that come meanwhile do *)
(* not disturb it, however many there are.  FirstServed rests on this.     *)
THEOREM FirstReadApart == FairSpec => []ReadsApart
<1>1. Init => ChatInv
  BY ChatInit DEF Init
<1>2. ChatInv /\ UNCHANGED chtVars => ChatInv'
  BY DEF ChatInv, chtVars, ChatFields, OnceInLine, NotCome, InLine, IsNext, IsServed, HasLeft
<1>3. ChatInv /\ [Next]_vars => ChatInv'
  BY <1>2, ChatConnect, ChatAccept, ChatSendAddress, ChatSendPort, ChatSendNumber, ChatRead
  DEF Next, vars, EncFile, Words, StopWait, Sample, Checksum, Chat,
      Cht!Next, Cht!System, Cht!Step
<1>4. ChatInv => ReadsApart
  <2>. SUFFICES ASSUME ChatInv, NEW c \in alone
                PROVE  /\ host.whom = {c} => stream[c] \in {<<>>, <<host.at>>}
                       /\ guest[c] # "closed" => host.whom = {c} \/ Comes(c)
                       /\ guest[c] = "question" /\ stream[c] = <<>> => c \in asked
    BY DEF ReadsApart
  <2>1. IsNext(c) => host.whom # {c}
    BY DEF IsNext, ChatInv, ChatFields
  <2>2. CASE IsNext(c)
    BY <2>1, <2>2 DEF IsNext, Comes
  <2>3. CASE IsServed(c)
    <3>1. stream[c] \in {<<>>, <<host.at>>}
      BY <2>3 DEF IsServed
    <3>2. guest[c] = "question" /\ stream[c] = <<>> => c \in asked
      <4>1. <<"port">> # <<>>
        OBVIOUS
      <4>. QED BY <2>3, <4>1 DEF IsServed
    <3>3. host.whom = {c}
      BY <2>3 DEF IsServed
    <3>. QED BY <3>1, <3>2, <3>3
  <2>4. CASE HasLeft(c)
    BY <2>4 DEF HasLeft
  <2>. QED BY <2>2, <2>3, <2>4 DEF ChatInv
<1>. QED BY <1>1, <1>3, <1>4, PTL DEF FairSpec
=============================================================================
