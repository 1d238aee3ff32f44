----------------------------- MODULE KTP_proofs -----------------------------
(***************************************************************************)
(* Proofs about KTP for every window size, sequence-number range, queue    *)
(* capacity and number of messages, sessions and crashes.                  *)
(***************************************************************************)
EXTENDS KTP, SequenceTheorems, TLAPS

USE DEF Sockets, Users, NoSock

(* A queue of the network keeps its type when a packet is added or lost.   *)
LEMMA EnqueueType ==
  ASSUME NEW q \in Seq(Packet), NEW p \in Packet
  PROVE  Enqueue(q, p) \in Seq(Packet)
BY DEF Enqueue

(* A part of the state that a step leaves alone keeps its type.            *)
LEMMA SameSlots  == ASSUME SlotType, UNCHANGED slots PROVE SlotType'
BY DEF SlotType, slots
LEMMA SameSender == ASSUME SendType, UNCHANGED sender PROVE SendType'
BY DEF SendType, sender
LEMMA SameRecver == ASSUME RecvType, UNCHANGED recver PROVE RecvType'
BY DEF RecvType, recver
LEMMA SameThread == ASSUME ThreadType, UNCHANGED threadS PROVE ThreadType'
BY DEF ThreadType
LEMMA SameUsers  == ASSUME UserType, UNCHANGED users PROVE UserType'
BY DEF UserType, users
LEMMA SameNet    == ASSUME NetType, UNCHANGED net PROVE NetType'
BY DEF NetType

LEMMA InitTypeOK == ASSUME Init PROVE TypeOK
<1> USE KTPAssumption DEF Init
<1>1. SlotType /\ ThreadType /\ NetType
  BY DEF SlotType, ThreadType, NetType
<1>2. SendType
  BY DEF SendType, Seqs
<1>3. RecvType
  BY DEF RecvType, Seqs, Zeroed, Msg, Data
<1>4. UserType
  BY DEF UserType
<1> QED
  BY <1>1, <1>2, <1>3, <1>4 DEF TypeOK

(* What thread_r stores and delivers stays inside its arrays.              *)
LEMMA DeliverType ==
  ASSUME RecvType, NEW d \in Sockets, NEW m \in Msg, InWindow(d, m),
         Len(recv_buffer[d]) <= WINDOW_SIZE,
         NEW n \in 0 .. StoredSize(d, m),
         Deliver(d, Stored(d, m), StoredSize(d, m), n)
  PROVE  RecvType' /\ Len(recv_buffer'[d]) <= WINDOW_SIZE
<1> USE KTPAssumption
<1> DEFINE ms   == Stored(d, m)
           size == StoredSize(d, m)
           run  == [k \in 1 .. n |-> ms[k - 1]]
           kept == Kept(d, n)
<1>1. m.seq \in Nat /\ rbase[d] \in Nat /\ rsize[d] \in 0 .. WINDOW_SIZE
  <2>1. m.seq \in Seqs
    BY DEF Msg
  <2>2. rbase[d] \in Seqs /\ rsize[d] \in 0 .. WINDOW_SIZE
    BY DEF RecvType
  <2> QED BY <2>1, <2>2 DEF Seqs
<1>2. ms \in [0 .. WINDOW_SIZE - 1 -> Msg]
  BY <1>1 DEF RecvType, Stored, InWindow
<1>3. size \in 0 .. WINDOW_SIZE /\ n \in 0 .. size
  BY SMTT(30), <1>1 DEF StoredSize, InWindow
<1>4. Deliver(d, ms, size, n)
  OBVIOUS
<1>5. Len(recv_buffer[d]) \in Nat
  BY DEF RecvType
<1> HIDE DEF ms, size
<1>6. Shifted(ms, size, n) \in [0 .. WINDOW_SIZE - 1 -> Msg]
  BY <1>2, <1>3 DEF Shifted
<1>7. run \in [1 .. n -> Msg]
  BY <1>2, <1>3
<1>8. run \in Seq(Msg) /\ Len(run) = n
  BY <1>7, <1>3
<1>9. kept \in 0 .. n /\ Len(recv_buffer[d]) + kept <= WINDOW_SIZE
  <2> DEFINE room == WINDOW_SIZE - Len(recv_buffer[d])
  <2>1. room \in Nat /\ n \in Nat
    BY <1>3, <1>5
  <2>2. kept = IF n <= room THEN n ELSE room
    BY DEF Kept
  <2> HIDE DEF kept
  <2>3. Len(recv_buffer[d]) + room = WINDOW_SIZE
    BY <1>5
  <2> HIDE DEF room
  <2>4. CASE n <= room
    BY <2>1, <2>2, <2>3, <2>4, <1>5
  <2>5. CASE ~(n <= room)
    <3>1. kept = room
      BY <2>2, <2>5
    <3> QED BY <2>1, <2>3, <2>5, <3>1, <1>5
  <2> QED BY <2>1, <2>4, <2>5
<1> HIDE DEF kept
<1>10. SubSeq(run, 1, kept) \in Seq(Msg)
  <2> HIDE DEF run
  <2> QED BY <1>3, <1>8, <1>9
<1>11. recv_buffer' \in [Sockets -> Seq(Msg)]
  <2>1. recv_buffer' = [recv_buffer EXCEPT ![d] = @ \o SubSeq(run, 1, kept)]
    BY <1>4 DEF Deliver, kept
  <2> HIDE DEF run
  <2> QED BY SMTT(30), <2>1, <1>10 DEF RecvType
<1>12. discarded' \in [Sockets -> SUBSET Data]
  <2>1. discarded' = [discarded EXCEPT ![d] =
                        @ \cup {run[k].data : k \in kept + 1 .. n}]
    BY <1>4 DEF Deliver, kept
  <2>2. {run[k].data : k \in kept + 1 .. n} \subseteq Data
    <3>1. \A k \in kept + 1 .. n : run[k] \in Msg
      BY <1>3, <1>7, <1>9
    <3> QED BY ZenonT(40), <3>1 DEF Msg
  <2> QED BY <2>1, <2>2 DEF RecvType
<1>13. rmsgs' \in [Sockets -> [0 .. WINDOW_SIZE - 1 -> Msg]]
  BY SMTT(30), <1>4, <1>6 DEF RecvType, Deliver
<1>14. rsize' \in [Sockets -> 0 .. WINDOW_SIZE]
  BY SMTT(30), <1>4, <1>3 DEF RecvType, Deliver
<1>15. rbase' \in [Sockets -> Seqs]
  <2>1. rbase' = [rbase EXCEPT ![d] = (@ + n) % SEQ_MOD]
    BY <1>4 DEF Deliver
  <2>2. (rbase[d] + n) % SEQ_MOD \in Seqs
    BY <1>1, <1>3 DEF Seqs
  <2> QED BY <2>1, <2>2 DEF RecvType
<1>16. Len(recv_buffer'[d]) <= WINDOW_SIZE
  <2>1. recv_buffer' = [recv_buffer EXCEPT ![d] = @ \o SubSeq(run, 1, kept)]
    BY <1>4 DEF Deliver, kept
  <2>2. Len(SubSeq(run, 1, kept)) = kept
    <3> HIDE DEF run
    <3> QED BY <1>3, <1>8, <1>9
  <2> HIDE DEF run
  <2> QED BY <2>1, <2>2, <1>9, <1>10, <1>5 DEF RecvType
<1> QED
  BY <1>11, <1>12, <1>13, <1>14, <1>15, <1>16 DEF RecvType

LEMMA InitBounded == ASSUME Init PROVE BuffersBounded
BY KTPAssumption DEF Init, BuffersBounded

(* One step of each action keeps the types and the bounds of the arrays.   *)
LEMMA NextTypeOK ==
  ASSUME TypeOK, BuffersBounded, [Next]_vars
  PROVE  TypeOK' /\ BuffersBounded'
<1> USE KTPAssumption DEF TypeOK
<1>1. ASSUME NEW u \in Users, Open(u) PROVE TypeOK' /\ BuffersBounded'
  <2>1. PICK i \in Sockets :
          /\ k_socket(i)
          /\ k_bind(i, u)
          /\ fd' = [fd EXCEPT ![u] = i]
          /\ discarded' = [discarded EXCEPT ![i] = {}]
    BY <1>1 DEF Open
  <2>2. SlotType'
    BY <2>1 DEF SlotType, k_socket, k_bind
  <2>3. SendType'
    BY <2>1 DEF SendType, k_socket, Seqs
  <2>4. RecvType'
    BY <2>1 DEF RecvType, k_socket, Seqs
  <2>5. UserType'
    BY <1>1, <2>1 DEF UserType, Open
  <2>6. ThreadType' /\ NetType'
    BY <1>1 DEF ThreadType, NetType, Open
  <2>7. BuffersBounded'
    BY <2>1 DEF BuffersBounded, SendType, k_socket
  <2> QED BY <2>2, <2>3, <2>4, <2>5, <2>6, <2>7
<1>2. ASSUME NEW u \in Users, k_sendto(u) PROVE TypeOK' /\ BuffersBounded'
  <2> DEFINE i == fd[u]
             m == [seq  |-> next_seq[i],
                   data |-> <<u, sessions[u], queued[u] + 1>>]
  <2>1. i \in Sockets /\ next_seq[i] \in Seqs
    BY <1>2 DEF SendType, UserType, k_sendto
  <2>2. m \in Msg
    BY <2>1 DEF UserType, Msg, Data
  <2>3. send_buffer' = [send_buffer EXCEPT ![i] = Append(@, m)]
    BY <1>2 DEF k_sendto
  <2>4. next_seq' \in [Sockets -> Seqs]
    <3>1. next_seq' = [next_seq EXCEPT ![i] = (@ + 1) % SEQ_MOD]
      BY <1>2 DEF k_sendto
    <3>2. (next_seq[i] + 1) % SEQ_MOD \in Seqs
      BY <2>1 DEF Seqs
    <3> QED BY <3>1, <3>2 DEF SendType
  <2>5. send_buffer' \in [Sockets -> Seq(Msg)]
    <3> HIDE DEF m
    <3> QED BY <2>1, <2>2, <2>3 DEF SendType
  <2>6. SendType'
    BY <1>2, <2>4, <2>5 DEF SendType, k_sendto
  <2>7. UserType'
    BY <1>2 DEF UserType, k_sendto
  <2>8. SlotType' /\ RecvType' /\ ThreadType' /\ NetType'
    BY <1>2, SameSlots, SameRecver, SameThread, SameNet DEF k_sendto
  <2>9. BuffersBounded'
    <3> HIDE DEF m
    <3>1. Len(send_buffer'[i]) = Len(send_buffer[i]) + 1
      BY <2>1, <2>2, <2>3 DEF SendType
    <3>2. \A k \in Sockets \ {i} : send_buffer'[k] = send_buffer[k]
      BY <2>3 DEF SendType
    <3>3. Len(send_buffer[i]) + 1 <= WINDOW_SIZE
      BY <1>2, <2>1 DEF SendType, k_sendto
    <3>4. UNCHANGED <<swnd, recv_buffer>>
      BY <1>2 DEF k_sendto, recver
    <3> QED BY <3>1, <3>2, <3>3, <3>4 DEF BuffersBounded
  <2> QED BY <2>6, <2>7, <2>8, <2>9
<1>3. ASSUME NEW u \in Users, k_recvfrom(u) PROVE TypeOK' /\ BuffersBounded'
  <2> DEFINE i == fd[u]
  <2>1. i \in Sockets /\ recv_buffer[i] # <<>>
    BY <1>3 DEF UserType, k_recvfrom
  <2>2. recv_buffer' = [recv_buffer EXCEPT ![i] = Tail(@)]
    BY <1>3 DEF k_recvfrom
  <2>3. Tail(recv_buffer[i]) \in Seq(Msg) /\ Head(recv_buffer[i]) \in Msg
        /\ Len(Tail(recv_buffer[i])) = Len(recv_buffer[i]) - 1
    BY <2>1 DEF RecvType
  <2>4. RecvType'
    BY ZenonT(40), <1>3, <2>2, <2>3 DEF RecvType, k_recvfrom
  <2>5. UserType'
    <3>1. Head(recv_buffer[i]).data \in Data
      BY <2>3 DEF Msg
    <3> QED BY <1>3, <3>1 DEF UserType, k_recvfrom
  <2>6. SlotType' /\ SendType' /\ ThreadType' /\ NetType'
    BY <1>3, SameSlots, SameSender, SameThread, SameNet DEF k_recvfrom
  <2>7. BuffersBounded'
    <3>1. Len(recv_buffer'[i]) <= WINDOW_SIZE
      BY <2>1, <2>2, <2>3 DEF BuffersBounded, RecvType
    <3>2. \A k \in Sockets \ {i} : recv_buffer'[k] = recv_buffer[k]
      BY <2>2 DEF RecvType
    <3>3. UNCHANGED <<swnd, send_buffer>>
      BY <1>3 DEF k_recvfrom, sender
    <3> QED BY <3>1, <3>2, <3>3 DEF BuffersBounded
  <2> QED BY <2>4, <2>5, <2>6, <2>7
<1>4. ASSUME NEW u \in Users, Close(u) PROVE TypeOK' /\ BuffersBounded'
  <2> DEFINE i == fd[u]
  <2>0. i \in Sockets /\ k_close(i) /\ UNCHANGED <<dest_addr, discarded>>
    BY <1>4 DEF UserType, Close
  <2>1. SlotType'
    BY <2>0 DEF SlotType, k_close
  <2>2. SendType'
    <3> HIDE DEF i
    <3> QED BY <2>0 DEF SendType, k_close
  <2>3. RecvType'
    <3> HIDE DEF i
    <3> QED BY <2>0 DEF RecvType, k_close
  <2>4. UserType'
    BY <1>4 DEF UserType, Close
  <2>5. ThreadType' /\ NetType'
    BY <1>4, SameThread, SameNet DEF Close
  <2>6. BuffersBounded'
    BY <1>4 DEF BuffersBounded, SendType, RecvType, Close, k_close
  <2> QED BY <2>1, <2>2, <2>3, <2>4, <2>5, <2>6
<1>5. ASSUME NEW u \in Users, Crash(u) PROVE TypeOK' /\ BuffersBounded'
  <2>1. UserType'
    BY <1>5 DEF UserType, Crash
  <2>2. SlotType' /\ SendType' /\ RecvType' /\ ThreadType' /\ NetType'
    BY <1>5, SameSlots, SameSender, SameRecver, SameThread, SameNet DEF Crash
  <2>3. BuffersBounded'
    BY <1>5 DEF BuffersBounded, Crash, sender, recver
  <2> QED BY <2>1, <2>2, <2>3
<1>6. ASSUME NEW i \in Sockets, Collect(i) PROVE TypeOK' /\ BuffersBounded'
  <2>1. SlotType'
    BY <1>6 DEF SlotType, Collect
  <2>2. SendType'
    BY <1>6 DEF SendType, Collect, Seqs
  <2>3. RecvType'
    BY <1>6 DEF RecvType, Collect, Seqs
  <2>4. ThreadType' /\ UserType' /\ NetType'
    BY <1>6, SameThread, SameUsers, SameNet DEF Collect
  <2>5. BuffersBounded'
    BY <1>6 DEF BuffersBounded, SendType, RecvType, Collect
  <2> QED BY <2>1, <2>2, <2>3, <2>4, <2>5
<1>7. ASSUME NEW i \in Sockets, R_Data(i) PROVE TypeOK' /\ BuffersBounded'
  <2> DEFINE p == Head(net[i])
             d == dest_sockfd(p)
             m == p.msg
  <2>1. net[i] \in Seq(Packet) /\ net[i] # <<>>
    BY <1>7 DEF NetType, R_Data, Readable
  <2>2. p \in Packet /\ Tail(net[i]) \in Seq(Packet)
    BY <2>1
  <2>3. m \in Msg /\ p.from \in Sockets /\ d \in Sockets
    BY <2>2 DEF Packet, dest_sockfd
  <2>4. RecvType' /\ Len(recv_buffer'[d]) <= WINDOW_SIZE
    <3>1. CASE ~InWindow(d, m) /\ UNCHANGED recver
      BY <3>1, <2>3, SameRecver DEF BuffersBounded, recver
    <3>2. CASE /\ InWindow(d, m)
               /\ \E n \in 0 .. StoredSize(d, m) :
                    Deliver(d, Stored(d, m), StoredSize(d, m), n)
      BY <3>2, <2>3, DeliverType DEF BuffersBounded
    <3> QED BY <1>7, <3>1, <3>2 DEF R_Data
  <2>5. NetType'
    <3> DEFINE a == [type |-> "ACK", from |-> i,
                     msg  |-> [seq |-> (rbase'[d] + SEQ_MOD - 1) % SEQ_MOD,
                               data |-> NoData]]
               q == [net EXCEPT ![i] = Tail(@)]
    <3>1. rbase'[d] \in Nat
      <4>1. rbase' \in [Sockets -> Seqs]
        BY <2>4 DEF RecvType
      <4>2. d \in Sockets
        BY <2>3
      <4> HIDE DEF d
      <4> QED BY <4>1, <4>2 DEF Seqs
    <3>2. a \in Packet
      BY <3>1 DEF Packet, Msg, Seqs, Data
    <3>3. q \in [Sockets -> Seq(Packet)]
      BY <2>2 DEF NetType
    <3>4. net' = [q EXCEPT ![p.from] = Enqueue(q[p.from], a)]
      BY <1>7, <3>3, <2>3 DEF R_Data, Acknowledge
    <3> HIDE DEF a, q
    <3>5. Enqueue(q[p.from], a) \in Seq(Packet)
      BY <3>2, <3>3, <2>3, EnqueueType
    <3> QED BY <3>3, <3>4, <3>5 DEF NetType
  <2>6. SlotType' /\ SendType' /\ ThreadType' /\ UserType'
    BY <1>7, SameSlots, SameSender, SameThread, SameUsers DEF R_Data
  <2>7. BuffersBounded'
    <3>1. UNCHANGED <<send_buffer, swnd>>
      BY <1>7 DEF R_Data, sender
    <3>2. \A k \in Sockets \ {d} : recv_buffer'[k] = recv_buffer[k]
      BY <1>7, <2>3 DEF R_Data, Deliver, recver, RecvType
    <3> HIDE DEF d
    <3> QED BY <2>4, <3>1, <3>2 DEF BuffersBounded
  <2> QED BY <2>4, <2>5, <2>6, <2>7
<1>8. ASSUME NEW i \in Sockets, R_Ack(i) PROVE TypeOK' /\ BuffersBounded'
  <2> DEFINE s == sender_sockfd(Head(net[i]))
  <2>1. s \in Sockets
    BY DEF sender_sockfd
  <2>2. PICK n \in 0 .. Len(swnd[s]) :
          /\ swnd' = [swnd EXCEPT ![s] = SubSeq(@, n + 1, Len(@))]
          /\ swnd_base' = [swnd_base EXCEPT ![s] =
                             SlidBase(@, n, Head(net[i]).msg.seq)]
    BY <1>8 DEF R_Ack
  <2> HIDE DEF s
  <2>3. /\ SubSeq(swnd[s], n + 1, Len(swnd[s])) \in Seq(Msg)
        /\ Len(SubSeq(swnd[s], n + 1, Len(swnd[s]))) <= Len(swnd[s])
    BY <2>1, <2>2 DEF SendType
  <2>4. swnd_base' \in [Sockets -> Seqs]
    <3>1. swnd_base[s] \in Nat /\ n \in Nat
      BY SMTT(30), <2>1, <2>2 DEF SendType, Seqs
    <3>2. (swnd_base[s] + n) % SEQ_MOD \in Seqs
      BY <3>1 DEF Seqs
    <3> QED BY <2>2, <3>2 DEF SendType, SlidBase
  <2>5. SendType'
    BY <1>8, <2>2, <2>3, <2>4 DEF SendType, R_Ack
  <2>6. NetType'
    BY <1>8 DEF NetType, R_Ack, Readable
  <2>7. SlotType' /\ RecvType' /\ ThreadType' /\ UserType'
    BY <1>8, SameSlots, SameRecver, SameThread, SameUsers DEF R_Ack
  <2>8. BuffersBounded'
    <3>1. Len(swnd'[s]) <= WINDOW_SIZE
      BY <2>1, <2>2, <2>3 DEF BuffersBounded, SendType
    <3>2. \A k \in Sockets \ {s} : swnd'[k] = swnd[k]
      BY <2>2 DEF SendType
    <3>3. UNCHANGED <<send_buffer, recv_buffer>>
      BY <1>8 DEF R_Ack, recver
    <3> QED BY <3>1, <3>2, <3>3 DEF BuffersBounded
  <2> QED BY <2>5, <2>6, <2>7, <2>8
<1>9. ASSUME NEW i \in Sockets, dropMessage(i) PROVE TypeOK' /\ BuffersBounded'
  <2>1. NetType'
    BY <1>9 DEF NetType, dropMessage, Readable
  <2>2. SlotType' /\ SendType' /\ RecvType' /\ ThreadType' /\ UserType'
    BY <1>9, SameSlots, SameSender, SameRecver, SameThread, SameUsers
    DEF dropMessage
  <2>3. BuffersBounded'
    BY <1>9 DEF BuffersBounded, dropMessage, sender, recver
  <2> QED BY <2>1, <2>2, <2>3
<1>10. ASSUME S_Visit \/ S_SendDone \/ S_NotDue \/ S_PassDone
       PROVE  TypeOK' /\ BuffersBounded'
  <2>1. ThreadType'
    <3>1. CASE S_Visit
      <4>1. 1 - threadS.sock \in Sockets
        BY DEF ThreadType
      <4>2. \/ threadS' = [threadS EXCEPT !.sock = 1 - threadS.sock]
            \/ threadS' = [threadS EXCEPT !.phase = "send", !.new = 0]
        BY <3>1 DEF S_Visit
      <4>3. CASE threadS' = [threadS EXCEPT !.sock = 1 - threadS.sock]
        <5> DEFINE other == 1 - threadS.sock
        <5> HIDE DEF other
        <5>1. threadS' = [threadS EXCEPT !.sock = other]
          BY <4>3 DEF other
        <5>2. other \in Sockets
          BY <4>1 DEF other
        <5> QED BY <5>1, <5>2 DEF ThreadType
      <4>4. CASE threadS' = [threadS EXCEPT !.phase = "send", !.new = 0]
        BY <4>4 DEF ThreadType
      <4> QED BY <4>2, <4>3, <4>4
    <3>2. CASE S_SendDone
      BY <3>2 DEF ThreadType, S_SendDone
    <3>3. CASE S_NotDue
      BY <3>3 DEF ThreadType, S_NotDue
    <3>4. CASE S_PassDone
      <4>1. 1 - threadS.sock \in Sockets
        BY DEF ThreadType
      <4>2. threadS' = [sock |-> 1 - threadS.sock, phase |-> "visit",
                        j |-> 0, new |-> 0]
        BY <3>4 DEF S_PassDone
      <4> QED BY <4>1, <4>2 DEF ThreadType
    <3> QED BY <1>10, <3>1, <3>2, <3>3, <3>4
  <2>2. UNCHANGED <<slots, sender, recver, users, net>>
    BY <1>10 DEF S_Visit, S_SendDone, S_NotDue, S_PassDone
  <2>3. SlotType' /\ SendType' /\ RecvType' /\ UserType' /\ NetType'
    BY <2>2, SameSlots, SameSender, SameRecver, SameUsers, SameNet
  <2>4. BuffersBounded'
    BY <2>2 DEF BuffersBounded, sender, recver
  <2> QED BY <2>1, <2>3, <2>4
<1>11. ASSUME S_Send PROVE TypeOK' /\ BuffersBounded'
  <2> DEFINE i == threadS.sock
             m == Head(send_buffer[i])
             p == [type |-> "DATA", msg |-> m, from |-> i]
  <2>1. i \in Sockets /\ dest_addr[i] \in Sockets
    BY DEF SlotType, ThreadType
  <2>2. send_buffer[i] \in Seq(Msg) /\ send_buffer[i] # <<>> /\ swnd[i] \in Seq(Msg)
    BY <1>11, <2>1 DEF SendType, S_Send
  <2>3. /\ m \in Msg
        /\ Tail(send_buffer[i]) \in Seq(Msg)
        /\ Len(Tail(send_buffer[i])) <= Len(send_buffer[i])
    BY <2>2
  <2>4. NetType'
    <3>1. p \in Packet
      BY <2>1, <2>3 DEF Packet
    <3>2. net' = [net EXCEPT ![dest_addr[i]] = Enqueue(@, p)]
      BY <1>11 DEF S_Send
    <3> HIDE DEF i, p
    <3> QED BY <2>1, <3>1, <3>2, EnqueueType DEF NetType
  <2>5. /\ swnd' = [swnd EXCEPT ![i] = Append(@, m)]
        /\ send_buffer' = [send_buffer EXCEPT ![i] = Tail(@)]
    BY <1>11 DEF S_Send
  <2>6. Append(swnd[i], m) \in Seq(Msg)
        /\ Len(Append(swnd[i], m)) = Len(swnd[i]) + 1
    <3> HIDE DEF i, m
    <3> QED BY <2>2, <2>3
  <2>7. SendType'
    <3>1. UNCHANGED <<swnd_base, next_seq>>
      BY <1>11 DEF S_Send
    <3> HIDE DEF i, m
    <3> QED BY <2>1, <2>3, <2>5, <2>6, <3>1 DEF SendType
  <2>8. ThreadType'
    BY SMTT(30), <1>11 DEF ThreadType, S_Send
  <2>9. SlotType' /\ RecvType' /\ UserType'
    BY <1>11, SameSlots, SameRecver, SameUsers DEF S_Send
  <2>10. BuffersBounded'
    <3>1. Len(swnd[i]) < WINDOW_SIZE /\ UNCHANGED recv_buffer
      BY <1>11 DEF S_Send, recver
    <3> HIDE DEF i, m
    <3>2. /\ Len(swnd'[i]) <= WINDOW_SIZE
          /\ Len(send_buffer'[i]) <= WINDOW_SIZE
      BY SMTT(30), <2>1, <2>2, <2>3, <2>5, <2>6, <3>1 DEF BuffersBounded, SendType
    <3>3. \A k \in Sockets \ {i} : /\ swnd'[k] = swnd[k]
                                   /\ send_buffer'[k] = send_buffer[k]
      BY <2>5 DEF SendType
    <3> QED BY <3>1, <3>2, <3>3 DEF BuffersBounded
  <2> QED BY <2>4, <2>7, <2>8, <2>9, <2>10
<1>12. ASSUME S_Resend PROVE TypeOK' /\ BuffersBounded'
  <2> DEFINE i == threadS.sock
             m == swnd[i][threadS.j + 1]
             p == [type |-> "DATA", msg |-> m, from |-> i]
  <2>1. i \in Sockets /\ dest_addr[i] \in Sockets
    BY DEF SlotType, ThreadType
  <2>2. m \in Msg
    <3>1. swnd[i] \in Seq(Msg) /\ threadS.j \in Nat /\ threadS.new \in Nat
      BY <2>1 DEF SendType, ThreadType
    <3>2. threadS.j + threadS.new < Len(swnd[i])
      BY <1>12 DEF S_Resend
    <3>3. threadS.j + 1 \in 1 .. Len(swnd[i])
      BY <3>1, <3>2
    <3> QED BY <3>1, <3>3
  <2>3. NetType'
    <3>1. p \in Packet
      BY <2>1, <2>2 DEF Packet
    <3>2. net' = [net EXCEPT ![dest_addr[i]] = Enqueue(@, p)]
      BY <1>12 DEF S_Resend
    <3> HIDE DEF i, p
    <3> QED BY <2>1, <3>1, <3>2, EnqueueType DEF NetType
  <2>4. ThreadType'
    BY SMTT(30), <1>12 DEF ThreadType, S_Resend
  <2>5. SlotType' /\ SendType' /\ RecvType' /\ UserType'
    BY <1>12, SameSlots, SameSender, SameRecver, SameUsers DEF S_Resend
  <2>6. BuffersBounded'
    BY <1>12 DEF BuffersBounded, S_Resend, sender, recver
  <2> QED BY <2>3, <2>4, <2>5, <2>6
<1>13. CASE UNCHANGED vars
  <2>1. TypeOK'
    BY <1>13, SameSlots, SameSender, SameRecver, SameThread, SameUsers, SameNet
    DEF vars
  <2>2. BuffersBounded'
    BY <1>13 DEF BuffersBounded, vars, sender, recver
  <2> QED BY <2>1, <2>2
<1> QED
  BY <1>1, <1>2, <1>3, <1>4, <1>5, <1>6, <1>7, <1>8, <1>9, <1>10, <1>11,
     <1>12, <1>13 DEF Next, thread_s, thread_r

(* Every reachable state has the types the code gives its fields, and no   *)
(* array of the segment is ever indexed past its WINDOW_SIZE elements,     *)
(* whatever packets are lost, repeated or left over from earlier sessions. *)
THEOREM TypeCorrect == Spec => [](TypeOK /\ BuffersBounded)
<1>1. Init => TypeOK /\ BuffersBounded
  BY InitTypeOK, InitBounded
<1>2. TypeOK /\ BuffersBounded /\ [Next]_vars => (TypeOK /\ BuffersBounded)'
  BY NextTypeOK
<1> QED
  BY <1>1, <1>2, PTL DEF Spec
-----------------------------------------------------------------------------
(* Arithmetic of sequence numbers: reducing before adding changes nothing. *)
LEMMA Distributes ==
  ASSUME NEW a \in Int, NEW x \in Int, NEW y \in Int
  PROVE  a * (x + y) = a * x + a * y
BY Z3

LEMMA DivMod ==
  ASSUME NEW M \in Nat \ {0}, NEW a \in Int
  PROVE  a = M * (a \div M) + (a % M) /\ a % M \in 0 .. M - 1 /\ a \div M \in Int
BY Z3

LEMMA UniqueRemainder ==
  ASSUME NEW M \in Nat \ {0}, NEW q \in Int, NEW r \in 0 .. M - 1,
         NEW p \in Int, NEW s \in 0 .. M - 1, M * q + r = M * p + s
  PROVE  r = s
<1>1. M * (q - p) = s - r
  BY Z3
<1>2. CASE q - p >= 1
  <2>1. M * (q - p) >= M
    BY <1>2, Z3
  <2> QED BY <1>1, <2>1
<1>3. CASE q - p <= -1
  <2>1. M * (q - p) <= -M
    BY <1>3, Z3
  <2> QED BY <1>1, <2>1
<1>4. CASE q - p = 0
  BY <1>1, <1>4
<1> QED
  BY <1>2, <1>3, <1>4

LEMMA ZeroMod == ASSUME NEW M \in Nat \ {0} PROVE 0 % M = 0
<1>1. 0 = M * (0 \div M) + (0 % M) /\ 0 % M \in 0 .. M - 1 /\ 0 \div M \in Int
  BY DivMod
<1>2. M * 0 + 0 = 0 /\ 0 \in 0 .. M - 1
  BY Z3
<1> QED
  BY <1>1, <1>2, UniqueRemainder

LEMMA ModAdd ==
  ASSUME NEW M \in Nat \ {0}, NEW a \in Int, NEW n \in Int
  PROVE  ((a % M) + n) % M = (a + n) % M
<1> DEFINE q == a \div M
           b == (a % M) + n
<1>1. a = M * q + (a % M) /\ q \in Int /\ a % M \in Int
  BY DivMod
<1>2. b = M * (b \div M) + (b % M) /\ b \div M \in Int /\ b % M \in 0 .. M - 1
  <2>1. b \in Int
    BY <1>1
  <2> HIDE DEF b
  <2> QED BY DivMod, <2>1
<1>3. /\ a + n = M * ((a + n) \div M) + ((a + n) % M)
      /\ (a + n) \div M \in Int
      /\ (a + n) % M \in 0 .. M - 1
  BY SMTT(30), DivMod
<1>4. a + n = M * q + b
  BY <1>1
<1> HIDE DEF q, b
<1>5. a + n = M * (q + (b \div M)) + (b % M)
  <2> DEFINE x == M * q
             y == M * (b \div M)
             z == M * (q + (b \div M))
             r == b % M
  <2>1. z = x + y
    BY <1>1, <1>2, Distributes
  <2>2. /\ x \in Int /\ y \in Int /\ r \in Int
        /\ b = y + r /\ a + n = x + b
    BY <1>1, <1>2, <1>4
  <2> HIDE DEF x, y, z, r
  <2>3. a + n = z + r
    BY <2>1, <2>2
  <2> QED BY <2>3 DEF z, r
<1>6. q + (b \div M) \in Int
  BY <1>1, <1>2
<1>7. b % M = (a + n) % M
  BY <1>2, <1>3, <1>5, <1>6, UniqueRemainder
<1> QED
  BY <1>7 DEF b
-----------------------------------------------------------------------------
(* The send side of a user whose slot and counters a step leaves alone.    *)
LEMMA SendSideSame ==
  ASSUME NEW u \in Users, SendSideOf(u),
         fd'[u] = fd[u], queued'[u] = queued[u], sessions'[u] = sessions[u],
         swnd'[fd[u]] = swnd[fd[u]], send_buffer'[fd[u]] = send_buffer[fd[u]],
         swnd_base'[fd[u]] = swnd_base[fd[u]], next_seq'[fd[u]] = next_seq[fd[u]]
  PROVE  SendSideOf(u)'
<1>1. Acked(u)' = Acked(u)
  BY DEF Acked
<1>2. \A n : Nth(u, n)' = Nth(u, n)
  BY DEF Nth
<1> QED
  BY <1>1, <1>2 DEF SendSideOf

SendInv == OneOwner /\ FreeSlotsEmpty /\ SendSideExact

LEMMA InitSendInv == ASSUME Init PROVE SendInv
BY DEF Init, SendInv, OneOwner, FreeSlotsEmpty, SendSideExact

(* An acknowledgement of any number removes a front part of swnd.          *)
LEMMA AckSendSide ==
  ASSUME TypeOK, SendInv, NEW i \in Sockets, R_Ack(i)
  PROVE  SendSideExact'
<1> USE KTPAssumption
<1> DEFINE s == sender_sockfd(Head(net[i]))
<1>1. s \in Sockets
  BY DEF sender_sockfd
<1>2. PICK n \in 0 .. Len(swnd[s]) :
        /\ swnd' = [swnd EXCEPT ![s] = SubSeq(@, n + 1, Len(@))]
        /\ swnd_base' = [swnd_base EXCEPT ![s] = (@ + n) % SEQ_MOD]
  BY DEF R_Ack, SlidBase
<1>3. UNCHANGED <<fd, queued, sessions, send_buffer, next_seq>>
  BY DEF R_Ack, users
<1> HIDE DEF s
<1> SUFFICES ASSUME NEW u \in Users, fd'[u] # NoSock
             PROVE  SendSideOf(u)'
  BY DEF SendSideExact
<1>4. SendSideOf(u) /\ fd[u] \in Sockets
  BY <1>3 DEF SendInv, SendSideExact, TypeOK, UserType
<1>5. CASE fd[u] # s
  BY <1>2, <1>3, <1>4, <1>5, SendSideSame DEF TypeOK, SendType
<1>6. CASE fd[u] = s
  <2> DEFINE w  == swnd[s]
             w1 == SubSeq(w, n + 1, Len(w))
  <2>1. w \in Seq(Msg) /\ n \in 0 .. Len(w) /\ send_buffer[s] \in Seq(Msg)
    BY <1>1, <1>2 DEF TypeOK, SendType
  <2>2. swnd'[s] = w1 /\ swnd_base'[s] = (swnd_base[s] + n) % SEQ_MOD
    BY <1>1, <1>2 DEF TypeOK, SendType
  <2> HIDE DEF w
  <2>3. Len(w1) = Len(w) - n /\ \A k \in 1 .. Len(w1) : w1[k] = w[n + k]
    BY <2>1
  <2> HIDE DEF w1
  <2>4. Acked(u) \in Int /\ Acked(u)' = Acked(u) + n
    <3>1. Acked(u) = queued[u] - Len(w) - Len(send_buffer[s])
      BY <1>6 DEF Acked, w
    <3>2. Acked(u)' = queued[u] - Len(w1) - Len(send_buffer[s])
      BY <1>3, <1>6, <2>2 DEF Acked
    <3>3. /\ queued[u] \in Nat /\ Len(send_buffer[s]) \in Nat
          /\ Len(w) \in Nat /\ n \in Nat
      BY SMTT(30), <2>1 DEF TypeOK, UserType
    <3>4. Len(w1) = Len(w) - n
      BY <2>3
    <3>5. Acked(u) \in Int
      BY <3>1, <3>3
    <3>6. Acked(u)' = queued[u] - (Len(w) - n) - Len(send_buffer[s])
      BY <3>2, <3>4
    <3>7. queued[u] - (Len(w) - n) - Len(send_buffer[s])
            = (queued[u] - Len(w) - Len(send_buffer[s])) + n
      BY <3>3
    <3> QED BY <3>1, <3>5, <3>6, <3>7
  <2>5. Acked(u)' >= 0
    BY <1>4, <2>1, <2>4 DEF SendSideOf
  <2>6. swnd_base'[s] = Acked(u)' % SEQ_MOD
    <3>1. swnd_base[s] = Acked(u) % SEQ_MOD
      BY <1>4, <1>6 DEF SendSideOf
    <3>2. n \in Int
      BY <2>1
    <3>3. ((Acked(u) % SEQ_MOD) + n) % SEQ_MOD = (Acked(u) + n) % SEQ_MOD
      BY <2>4, <3>2, ModAdd
    <3> QED BY <2>2, <2>4, <3>1, <3>3
  <2>7. \A k : Nth(u, k)' = Nth(u, k)
    BY <1>3 DEF Nth
  <2>8. \A k \in 1 .. Len(w1) : w1[k] = Nth(u, Acked(u)' + k)
    <3> SUFFICES ASSUME NEW k \in 1 .. Len(w1)
                 PROVE  w1[k] = Nth(u, Acked(u)' + k)
      OBVIOUS
    <3>1. n + k \in 1 .. Len(w) /\ w1[k] = w[n + k]
      BY <2>1, <2>3
    <3>2. w[n + k] = Nth(u, Acked(u) + (n + k))
      BY <1>4, <1>6, <3>1 DEF SendSideOf, w
    <3>3. Acked(u) + (n + k) = Acked(u)' + k
      BY <2>1, <2>4
    <3> QED BY <3>1, <3>2, <3>3
  <2>9. \A k \in 1 .. Len(send_buffer[s]) :
          send_buffer[s][k] = Nth(u, Acked(u)' + Len(w1) + k)
    <3> SUFFICES ASSUME NEW k \in 1 .. Len(send_buffer[s])
                 PROVE  send_buffer[s][k] = Nth(u, Acked(u)' + Len(w1) + k)
      OBVIOUS
    <3>1. send_buffer[s][k] = Nth(u, Acked(u) + Len(w) + k)
      BY <1>4, <1>6 DEF SendSideOf, w
    <3>2. Acked(u) + Len(w) + k = Acked(u)' + Len(w1) + k
      BY <2>1, <2>3, <2>4
    <3> QED BY <3>1, <3>2
  <2> QED
    BY <1>3, <1>4, <1>6, <2>2, <2>5, <2>6, <2>7, <2>8, <2>9 DEF SendSideOf
<1> QED
  BY <1>5, <1>6

(* One message more in the queue and one more sent cancel out.             *)
LEMMA OneMore ==
  ASSUME NEW x \in Nat, NEW a \in Nat, NEW b \in Nat
  PROVE  x - a - b \in Int /\ (x + 1) - a - (b + 1) = x - a - b
OBVIOUS

LEMMA OneMoved ==
  ASSUME NEW x \in Nat, NEW a \in Nat, NEW b \in Nat \ {0}
  PROVE  x - a - b \in Int /\ x - (a + 1) - (b - 1) = x - a - b
OBVIOUS

(* k_sendto puts the next message behind all the others.                   *)
LEMMA SendtoSendSide ==
  ASSUME TypeOK, SendInv, NEW v \in Users, k_sendto(v)
  PROVE  SendSideExact'
<1> USE KTPAssumption
<1> DEFINE i == fd[v]
           q == send_buffer[i]
           m == Nth(v, queued[v] + 1)
<1>1. i \in Sockets /\ SendSideOf(v) /\ queued[v] \in Nat
  BY DEF k_sendto, TypeOK, UserType, SendInv, SendSideExact
<1>2. q \in Seq(Msg) /\ swnd[i] \in Seq(Msg)
  BY <1>1 DEF TypeOK, SendType
<1>3. send_buffer' = [send_buffer EXCEPT ![i] = Append(@, m)]
  <2>1. next_seq[i] = queued[v] % SEQ_MOD
    BY <1>1 DEF SendSideOf
  <2>2. queued[v] + 1 - 1 = queued[v]
    BY <1>1
  <2>3. m = [seq |-> next_seq[i], data |-> <<v, sessions[v], queued[v] + 1>>]
    BY <1>1, <2>1, <2>2 DEF Nth
  <2> HIDE DEF m
  <2> QED BY <2>3 DEF k_sendto
<1>4. /\ next_seq' = [next_seq EXCEPT ![i] = (@ + 1) % SEQ_MOD]
      /\ queued' = [queued EXCEPT ![v] = @ + 1]
      /\ UNCHANGED <<fd, sessions, swnd, swnd_base>>
  BY DEF k_sendto
<1> HIDE DEF m
<1> SUFFICES ASSUME NEW u \in Users, fd'[u] # NoSock
             PROVE  SendSideOf(u)'
  BY DEF SendSideExact
<1>5. SendSideOf(u) /\ fd[u] \in Sockets
  BY <1>4 DEF SendInv, SendSideExact, TypeOK, UserType
<1>6. CASE u # v
  <2>1. fd[u] # i
    BY <1>1, <1>5, <1>6 DEF SendInv, OneOwner
  <2> HIDE DEF i
  <2>2. send_buffer'[fd[u]] = send_buffer[fd[u]] /\ next_seq'[fd[u]] = next_seq[fd[u]]
    BY <1>3, <1>4, <1>5, <2>1 DEF TypeOK, SendType
  <2>3. queued'[u] = queued[u]
    BY <1>4, <1>6 DEF TypeOK, UserType
  <2> QED BY <1>4, <1>5, <2>2, <2>3, SendSideSame
<1>7. CASE u = v
  <2>1. /\ send_buffer'[i] = Append(q, m)
        /\ next_seq'[i] = (next_seq[i] + 1) % SEQ_MOD
        /\ queued'[v] = queued[v] + 1
    BY <1>1, <1>3, <1>4 DEF TypeOK, SendType, UserType
  <2> DEFINE q1 == Append(q, m)
  <2> HIDE DEF q
  <2>2. /\ Len(q1) = Len(q) + 1
        /\ \A k \in 1 .. Len(q) : q1[k] = q[k]
        /\ q1[Len(q) + 1] = m
    BY <1>2
  <2>3. send_buffer'[i] = q1
    BY <2>1
  <2> HIDE DEF q1
  <2>4. Acked(v) \in Int /\ Acked(v)' = Acked(v)
    <3>1. Acked(v) = queued[v] - Len(swnd[i]) - Len(q)
      BY DEF Acked, q
    <3>2. Acked(v)' = queued'[v] - Len(swnd[i]) - Len(q1)
      BY <1>4, <2>3 DEF Acked
    <3>3. Len(swnd[i]) \in Nat /\ Len(q) \in Nat
      BY <1>2
    <3>4. queued[v] \in Nat /\ queued'[v] = queued[v] + 1 /\ Len(q1) = Len(q) + 1
      BY <1>1, <2>1, <2>2
    <3> HIDE DEF i
    <3>5. /\ queued[v] - Len(swnd[i]) - Len(q) \in Int
          /\ (queued[v] + 1) - Len(swnd[i]) - (Len(q) + 1)
               = queued[v] - Len(swnd[i]) - Len(q)
      BY SMTT(30), <1>1, <3>3, OneMore
    <3>6. Acked(v)' = (queued[v] + 1) - Len(swnd[i]) - (Len(q) + 1)
      BY ONLY <3>2, <3>4, Zenon
    <3> QED BY ONLY <3>1, <3>5, <3>6, Zenon
  <2>5. next_seq'[i] = queued'[v] % SEQ_MOD
    <3>1. next_seq[i] = queued[v] % SEQ_MOD
      BY <1>1 DEF SendSideOf
    <3>2. ((queued[v] % SEQ_MOD) + 1) % SEQ_MOD = (queued[v] + 1) % SEQ_MOD
      BY <1>1, ModAdd
    <3> QED BY <2>1, <3>1, <3>2
  <2>6. \A k : Nth(v, k)' = Nth(v, k)
    BY <1>4 DEF Nth
  <2>7. \A k \in 1 .. Len(q1) :
          q1[k] = Nth(v, Acked(v) + Len(swnd[i]) + k)
    <3> SUFFICES ASSUME NEW k \in 1 .. Len(q1)
                 PROVE  q1[k] = Nth(v, Acked(v) + Len(swnd[i]) + k)
      OBVIOUS
    <3>1. CASE k \in 1 .. Len(q)
      BY <1>1, <2>2, <3>1 DEF SendSideOf, q
    <3>2. CASE k = Len(q) + 1
      <4>1. Acked(v) + Len(swnd[i]) + k = queued[v] + 1
        <5>1. Acked(v) = queued[v] - Len(swnd[i]) - Len(q)
          BY DEF Acked, q
        <5>2. Len(swnd[i]) \in Nat /\ Len(q) \in Nat
          BY <1>2
        <5> QED BY SMTT(30), <1>1, <3>2, <5>1, <5>2
      <4> QED BY <2>2, <3>2, <4>1 DEF m
    <3> QED BY <1>2, <2>2, <3>1, <3>2
  <2>8. swnd'[i] = swnd[i] /\ swnd_base'[i] = swnd_base[i] /\ fd'[v] = fd[v]
    BY <1>4
  <2>9. /\ Acked(v) >= 0
        /\ swnd_base[i] = Acked(v) % SEQ_MOD
        /\ \A k \in 1 .. Len(swnd[i]) : swnd[i][k] = Nth(v, Acked(v) + k)
    BY <1>1 DEF SendSideOf
  <2>10. SendSideOf(v)'
    <3>1. fd'[v] = i /\ fd[v] = i
      BY <2>8
    <3> HIDE DEF i
    <3>2. /\ Acked(v)' >= 0
          /\ swnd_base'[i] = Acked(v)' % SEQ_MOD
      BY <2>4, <2>8, <2>9
    <3>3. \A k \in 1 .. Len(swnd'[i]) : swnd'[i][k] = Nth(v, Acked(v)' + k)
      BY <2>4, <2>6, <2>8, <2>9
    <3>4. \A k \in 1 .. Len(send_buffer'[i]) :
            send_buffer'[i][k] = Nth(v, Acked(v)' + Len(swnd'[i]) + k)
      BY <2>3, <2>4, <2>6, <2>7, <2>8
    <3> QED BY <2>5, <2>6, <3>1, <3>2, <3>3, <3>4 DEF SendSideOf
  <2> QED BY <1>7, <2>10
<1> QED
  BY <1>6, <1>7
(* thread_s moves the first queued message behind the sent ones.           *)
LEMMA TransmitSendSide ==
  ASSUME TypeOK, SendInv, S_Send
  PROVE  SendSideExact'
<1> USE KTPAssumption
<1> DEFINE s  == threadS.sock
           w  == swnd[s]
           q  == send_buffer[s]
           w1 == Append(w, Head(q))
           q1 == Tail(q)
<1>1. s \in Sockets
  BY DEF TypeOK, ThreadType
<1>2. w \in Seq(Msg) /\ q \in Seq(Msg) /\ q # <<>>
  BY <1>1 DEF TypeOK, SendType, S_Send
<1>3. /\ swnd' = [swnd EXCEPT ![s] = w1]
      /\ send_buffer' = [send_buffer EXCEPT ![s] = q1]
      /\ UNCHANGED <<fd, queued, sessions, swnd_base, next_seq>>
  BY DEF S_Send, users
<1>4. swnd'[s] = w1 /\ send_buffer'[s] = q1
  BY <1>1, <1>3 DEF TypeOK, SendType
<1> HIDE DEF s
<1> SUFFICES ASSUME NEW u \in Users, fd'[u] # NoSock
             PROVE  SendSideOf(u)'
  BY DEF SendSideExact
<1>5. SendSideOf(u) /\ fd[u] \in Sockets /\ queued[u] \in Nat
  BY <1>3 DEF SendInv, SendSideExact, TypeOK, UserType
<1>6. CASE fd[u] # s
  BY <1>3, <1>5, <1>6, SendSideSame DEF TypeOK, SendType
<1>7. CASE fd[u] = s
  <2> HIDE DEF w, q
  <2>1. /\ Len(w) \in Nat /\ Len(q) \in Nat \ {0}
        /\ Len(w1) = Len(w) + 1 /\ Len(q1) = Len(q) - 1
        /\ \A k \in 1 .. Len(w) : w1[k] = w[k]
        /\ w1[Len(w) + 1] = q[1]
        /\ \A k \in 1 .. Len(q1) : q1[k] = q[k + 1] /\ k + 1 \in 1 .. Len(q)
    BY <1>2
  <2> HIDE DEF w1, q1
  <2>2. Acked(u) = queued[u] - Len(w) - Len(q)
    BY <1>7 DEF Acked, w, q
  <2>3. Acked(u)' = queued[u] - Len(w1) - Len(q1)
    BY <1>3, <1>4, <1>7 DEF Acked
  <2>4. Acked(u) \in Int /\ Acked(u)' = Acked(u)
    <3>1. Len(w1) = Len(w) + 1 /\ Len(q1) = Len(q) - 1
      BY <2>1
    <3>2. Acked(u)' = queued[u] - (Len(w) + 1) - (Len(q) - 1)
      BY ONLY <2>3, <3>1, Zenon
    <3>3. queued[u] \in Nat /\ Len(w) \in Nat /\ Len(q) \in Nat \ {0}
      BY ONLY <1>5, <2>1
    <3>4. /\ queued[u] - Len(w) - Len(q) \in Int
          /\ queued[u] - (Len(w) + 1) - (Len(q) - 1) = queued[u] - Len(w) - Len(q)
      BY ONLY <3>3, OneMoved
    <3> QED BY ONLY <2>2, <3>2, <3>4, Zenon
  <2>5. \A k : Nth(u, k)' = Nth(u, k)
    BY <1>3 DEF Nth
  <2>6. /\ Acked(u) >= 0
        /\ swnd_base[s] = Acked(u) % SEQ_MOD
        /\ next_seq[s] = queued[u] % SEQ_MOD
        /\ \A k \in 1 .. Len(w) : w[k] = Nth(u, Acked(u) + k)
        /\ \A k \in 1 .. Len(q) : q[k] = Nth(u, Acked(u) + Len(w) + k)
    BY <1>5, <1>7 DEF SendSideOf, w, q
  <2>7. \A k \in 1 .. Len(w1) : w1[k] = Nth(u, Acked(u) + k)
    <3> SUFFICES ASSUME NEW k \in 1 .. Len(w1)
                 PROVE  w1[k] = Nth(u, Acked(u) + k)
      OBVIOUS
    <3>1. CASE k \in 1 .. Len(w)
      BY <2>1, <2>6, <3>1
    <3>2. CASE k = Len(w) + 1
      <4>1. q[1] = Nth(u, Acked(u) + Len(w) + 1)
        BY <2>1, <2>6
      <4>2. Acked(u) + Len(w) + 1 = Acked(u) + k
        BY <2>1, <2>4, <3>2
      <4> QED BY <2>1, <3>2, <4>1, <4>2
    <3> QED BY <2>1, <3>1, <3>2
  <2>8. \A k \in 1 .. Len(q1) : q1[k] = Nth(u, Acked(u) + Len(w1) + k)
    <3> SUFFICES ASSUME NEW k \in 1 .. Len(q1)
                 PROVE  q1[k] = Nth(u, Acked(u) + Len(w1) + k)
      OBVIOUS
    <3>1. q[k + 1] = Nth(u, Acked(u) + Len(w) + (k + 1))
      BY <2>1, <2>6
    <3>2. Acked(u) + Len(w) + (k + 1) = Acked(u) + Len(w1) + k
      BY <2>1, <2>4
    <3> QED BY <2>1, <3>1, <3>2
  <2> QED
    BY SMTT(30), <1>3, <1>4, <1>7, <2>4, <2>5, <2>6, <2>7, <2>8 DEF SendSideOf
<1> QED
  BY <1>6, <1>7

(* A new socket starts from nothing: its slot was free, hence empty.       *)
LEMMA OpenSendSide ==
  ASSUME TypeOK, SendInv, NEW v \in Users, Open(v)
  PROVE  SendSideExact'
<1> USE KTPAssumption
<1>1. PICK i \in Sockets : k_socket(i) /\ fd' = [fd EXCEPT ![v] = i]
  BY DEF Open
<1>2. /\ swnd' = [swnd EXCEPT ![i] = <<>>]
      /\ swnd_base' = [swnd_base EXCEPT ![i] = 0]
      /\ next_seq' = [next_seq EXCEPT ![i] = 0]
      /\ queued' = [queued EXCEPT ![v] = 0]
      /\ sessions' = [sessions EXCEPT ![v] = @ + 1]
      /\ send_buffer' = send_buffer
  BY <1>1 DEF Open, k_socket
<1>3. is_free[i] /\ send_buffer[i] = <<>>
  BY <1>1 DEF k_socket, FirstFree, SendInv, FreeSlotsEmpty
<1> SUFFICES ASSUME NEW u \in Users, fd'[u] # NoSock
             PROVE  SendSideOf(u)'
  BY DEF SendSideExact
<1>4. CASE u # v
  <2>1. fd'[u] = fd[u] /\ queued'[u] = queued[u] /\ sessions'[u] = sessions[u]
    BY <1>1, <1>2, <1>4 DEF TypeOK, UserType
  <2>2. SendSideOf(u) /\ fd[u] \in Sockets /\ fd[u] # i
    BY <1>3, <2>1 DEF SendInv, SendSideExact, OneOwner, TypeOK, UserType
  <2>3. /\ swnd'[fd[u]] = swnd[fd[u]]
        /\ swnd_base'[fd[u]] = swnd_base[fd[u]]
        /\ next_seq'[fd[u]] = next_seq[fd[u]]
    BY <1>2, <2>2 DEF TypeOK, SendType
  <2> QED BY <1>2, <2>1, <2>2, <2>3, SendSideSame
<1>5. CASE u = v
  <2>1. /\ fd'[u] = i /\ queued'[u] = 0
        /\ swnd'[i] = <<>> /\ send_buffer'[i] = <<>>
        /\ swnd_base'[i] = 0 /\ next_seq'[i] = 0
    BY <1>1, <1>2, <1>3, <1>5 DEF TypeOK, SendType, UserType
  <2>2. Acked(u)' = 0
    <3>1. Acked(u)' = 0 - Len(<<>>) - Len(<<>>)
      BY <2>1 DEF Acked
    <3>2. Len(<<>>) = 0 /\ 0 - 0 - 0 = 0
      OBVIOUS
    <3> QED BY ONLY <3>1, <3>2, Zenon
  <2>3. 0 % SEQ_MOD = 0
    BY ZeroMod
  <2> QED BY <2>1, <2>2, <2>3 DEF SendSideOf
<1> QED
  BY <1>4, <1>5
(* The other users keep their slots when one goes or a slot is collected.  *)
LEMMA LeaveSendSide ==
  ASSUME TypeOK, SendInv,
         \/ \E v \in Users : Close(v) \/ Crash(v)
         \/ \E i \in Sockets : Collect(i)
  PROVE  SendSideExact'
<1> SUFFICES ASSUME NEW u \in Users, fd'[u] # NoSock
             PROVE  SendSideOf(u)'
  BY DEF SendSideExact
<1>1. CASE \E v \in Users : Close(v)
  <2>1. PICK v \in Users : Close(v)
    BY <1>1
  <2> DEFINE i == fd[v]
  <2>2. i \in Sockets /\ k_close(i) /\ fd' = [fd EXCEPT ![v] = NoSock]
    BY <2>1 DEF Close, TypeOK, UserType
  <2>3. u # v /\ fd'[u] = fd[u]
    BY <2>2 DEF TypeOK, UserType
  <2>4. SendSideOf(u) /\ fd[u] \in Sockets /\ fd[u] # i
    BY <2>2, <2>3 DEF SendInv, SendSideExact, OneOwner, TypeOK, UserType
  <2>5. UNCHANGED <<queued, sessions, swnd_base, next_seq>>
    BY <2>1 DEF Close, k_close
  <2>6. swnd'[fd[u]] = swnd[fd[u]] /\ send_buffer'[fd[u]] = send_buffer[fd[u]]
    BY <2>2, <2>4 DEF k_close, TypeOK, SendType
  <2> QED BY <2>3, <2>4, <2>5, <2>6, SendSideSame
<1>2. CASE \E v \in Users : Crash(v)
  <2>1. PICK v \in Users : Crash(v)
    BY <1>2
  <2>2. fd'[u] = fd[u] /\ UNCHANGED <<queued, sessions, sender>>
    BY <2>1 DEF Crash, TypeOK, UserType
  <2> QED BY <2>2, SendSideSame DEF SendInv, SendSideExact, sender
<1>3. CASE \E i \in Sockets : Collect(i)
  <2>1. PICK i \in Sockets : Collect(i)
    BY <1>3
  <2>2. UNCHANGED <<fd, queued, sessions>> /\ fd[u] # i
    BY <2>1 DEF Collect, users
  <2>3. SendSideOf(u) /\ fd[u] \in Sockets
    BY <2>2 DEF SendInv, SendSideExact, TypeOK, UserType
  <2>4. /\ swnd'[fd[u]] = swnd[fd[u]]
        /\ send_buffer'[fd[u]] = send_buffer[fd[u]]
        /\ swnd_base'[fd[u]] = swnd_base[fd[u]]
        /\ next_seq'[fd[u]] = next_seq[fd[u]]
    BY <2>1, <2>2, <2>3 DEF Collect, TypeOK, SendType
  <2> QED BY <2>2, <2>3, <2>4, SendSideSame
<1> QED
  BY <1>1, <1>2, <1>3

(* Every step keeps slots and users paired.                                *)
LEMMA NextOneOwner ==
  ASSUME TypeOK, SendInv, [Next]_vars
  PROVE  OneOwner'
<1>1. CASE UNCHANGED <<fd, is_free>>
  BY <1>1 DEF SendInv, OneOwner
<1>2. ASSUME NEW v \in Users, Open(v) PROVE OneOwner'
  <2>1. PICK i \in Sockets : k_socket(i) /\ fd' = [fd EXCEPT ![v] = i]
    BY <1>2 DEF Open
  <2>2. is_free[i] /\ is_free' = [is_free EXCEPT ![i] = FALSE]
    BY <2>1 DEF k_socket, FirstFree
  <2> QED BY <2>1, <2>2 DEF SendInv, OneOwner, TypeOK, UserType, SlotType
<1>3. ASSUME NEW v \in Users, Close(v) PROVE OneOwner'
  <2>1. /\ fd' = [fd EXCEPT ![v] = NoSock]
        /\ is_free' = [is_free EXCEPT ![fd[v]] = TRUE]
        /\ fd[v] # NoSock
    BY <1>3 DEF Close, k_close
  <2> QED BY <2>1 DEF SendInv, OneOwner, TypeOK, UserType, SlotType
<1>4. ASSUME NEW v \in Users, Crash(v) PROVE OneOwner'
  <2>1. fd' = [fd EXCEPT ![v] = NoSock] /\ is_free' = is_free
    BY <1>4 DEF Crash, slots
  <2> QED BY <2>1 DEF SendInv, OneOwner, TypeOK, UserType
<1>5. ASSUME NEW i \in Sockets, Collect(i) PROVE OneOwner'
  <2>1. fd' = fd /\ is_free' = [is_free EXCEPT ![i] = TRUE]
    BY <1>5 DEF Collect, users
  <2>2. \A u \in Users : fd[u] # i
    BY <1>5 DEF Collect
  <2> QED BY <2>1, <2>2 DEF SendInv, OneOwner, TypeOK, UserType, SlotType
<1>6. CASE \E u \in Users : k_sendto(u) \/ k_recvfrom(u)
  BY <1>1, <1>6 DEF k_sendto, k_recvfrom, slots
<1>7. CASE \E i \in Sockets : thread_r(i) \/ dropMessage(i)
  BY <1>1, <1>7 DEF thread_r, R_Data, R_Ack, dropMessage, slots, users
<1>8. CASE thread_s
  BY <1>1, <1>8 DEF thread_s, S_Visit, S_Send, S_SendDone, S_Resend,
       S_NotDue, S_PassDone, slots, users
<1>9. CASE UNCHANGED vars
  BY <1>1, <1>9 DEF vars, slots, users
<1> QED
  BY <1>2, <1>3, <1>4, <1>5, <1>6, <1>7, <1>8, <1>9 DEF Next

(* Every step leaves nothing to send in a free slot.                       *)
LEMMA NextFreeSlotsEmpty ==
  ASSUME TypeOK, SendInv, [Next]_vars
  PROVE  FreeSlotsEmpty'
<1> USE DEF SendInv, FreeSlotsEmpty, TypeOK, SlotType, SendType
<1>1. CASE UNCHANGED <<swnd, send_buffer, is_free>>
  BY <1>1
<1>2. ASSUME NEW v \in Users, Open(v) PROVE FreeSlotsEmpty'
  <2>1. PICK i \in Sockets : k_socket(i)
    BY <1>2 DEF Open
  <2> QED BY <2>1 DEF k_socket
<1>3. ASSUME NEW v \in Users, Close(v) PROVE FreeSlotsEmpty'
  BY <1>3 DEF Close, k_close
<1>4. ASSUME NEW i \in Sockets, Collect(i) PROVE FreeSlotsEmpty'
  BY <1>4 DEF Collect
<1>5. ASSUME NEW v \in Users, k_sendto(v) PROVE FreeSlotsEmpty'
  <2>1. /\ ~is_free[fd[v]]
        /\ UNCHANGED <<is_free, swnd>>
        /\ \A i \in Sockets \ {fd[v]} : send_buffer'[i] = send_buffer[i]
    BY <1>5 DEF k_sendto, slots
  <2> QED BY <2>1
<1>6. ASSUME NEW i \in Sockets, R_Ack(i) PROVE FreeSlotsEmpty'
  <2> DEFINE s == sender_sockfd(Head(net[i]))
  <2>1. PICK n \in 0 .. Len(swnd[s]) :
          swnd' = [swnd EXCEPT ![s] = SubSeq(@, n + 1, Len(@))]
    BY <1>6 DEF R_Ack
  <2>2. s \in Sockets /\ UNCHANGED <<is_free, send_buffer>>
    BY <1>6 DEF R_Ack, slots, sender_sockfd
  <2> HIDE DEF s
  <2>3. is_free[s] => swnd'[s] = <<>>
    <3>1. swnd'[s] = SubSeq(swnd[s], n + 1, Len(swnd[s])) /\ swnd[s] \in Seq(Msg)
      BY <2>1, <2>2
    <3>2. CASE swnd[s] = <<>>
      <4>1. n = 0 /\ Len(swnd[s]) = 0
        BY <3>2
      <4>2. SubSeq(<<>>, 1, 0) = <<>> /\ 0 + 1 = 1
        OBVIOUS
      <4> QED BY <3>1, <3>2, <4>1, <4>2
    <3> QED BY <2>2, <3>2
  <2> QED BY <2>1, <2>2, <2>3
<1>7. CASE S_Send
  <2> DEFINE s == threadS.sock
  <2>1. /\ send_buffer[s] # <<>>
        /\ is_free' = is_free
        /\ \A i \in Sockets \ {s} :
             swnd'[i] = swnd[i] /\ send_buffer'[i] = send_buffer[i]
    BY <1>7 DEF S_Send, slots
  <2> HIDE DEF s
  <2> QED BY <2>1
<1>8. CASE \E u \in Users : Crash(u) \/ k_recvfrom(u)
  BY <1>1, <1>8 DEF Crash, k_recvfrom, slots, sender
<1>9. CASE \E i \in Sockets : R_Data(i) \/ dropMessage(i)
  BY <1>1, <1>9 DEF R_Data, dropMessage, slots, sender
<1>10. CASE S_Visit \/ S_SendDone \/ S_Resend \/ S_NotDue \/ S_PassDone
  BY <1>1, <1>10 DEF S_Visit, S_SendDone, S_Resend, S_NotDue, S_PassDone,
       slots, sender
<1>11. CASE UNCHANGED vars
  BY <1>1, <1>11 DEF vars, slots, sender
<1> QED
  BY <1>2, <1>3, <1>4, <1>5, <1>6, <1>7, <1>8, <1>9, <1>10, <1>11
     DEF Next, thread_s, thread_r

(* Every step keeps the send sides exact.                                  *)
LEMMA NextSendSide ==
  ASSUME TypeOK, SendInv, [Next]_vars
  PROVE  SendSideExact'
<1>1. CASE UNCHANGED <<fd, queued, sessions, sender>>
  BY <1>1, SendSideSame DEF SendInv, SendSideExact, sender
<1>2. CASE \E u \in Users : k_recvfrom(u)
  BY <1>1, <1>2 DEF k_recvfrom
<1>3. CASE \E i \in Sockets : R_Data(i) \/ dropMessage(i)
  BY <1>1, <1>3 DEF R_Data, dropMessage, users
<1>4. CASE S_Visit \/ S_SendDone \/ S_Resend \/ S_NotDue \/ S_PassDone
  BY <1>1, <1>4 DEF S_Visit, S_SendDone, S_Resend, S_NotDue, S_PassDone, users
<1>5. CASE UNCHANGED vars
  BY <1>1, <1>5 DEF vars, users
<1> QED
  BY <1>2, <1>3, <1>4, <1>5, OpenSendSide, SendtoSendSide, LeaveSendSide,
     AckSendSide, TransmitSendSide DEF Next, thread_s, thread_r

(* What swnd and send_buffer hold together is at every moment exactly the  *)
(* last messages that k_sendto accepted from the owner of the slot; free   *)
(* slots hold nothing and no slot has two owners: whatever is lost or      *)
(* resent, whichever stale acknowledgements arrive, and in whatever order  *)
(* the programs start, crash and restart.                                  *)
THEOREM SendSide == Spec => [](OneOwner /\ FreeSlotsEmpty /\ SendSideExact)
<1>1. Init => TypeOK /\ BuffersBounded /\ SendInv
  BY InitTypeOK, InitBounded, InitSendInv
<1>2. TypeOK /\ BuffersBounded /\ SendInv /\ [Next]_vars
        => (TypeOK /\ BuffersBounded /\ SendInv)'
  BY NextTypeOK, NextOneOwner, NextFreeSlotsEmpty, NextSendSide DEF SendInv
<1>3. SendInv <=> OneOwner /\ FreeSlotsEmpty /\ SendSideExact
  BY DEF SendInv
<1> QED
  BY <1>1, <1>2, <1>3, PTL DEF Spec
-----------------------------------------------------------------------------
(* The receiving side, in the documented use: user2 is started first, each *)
(* program once, and a file has fewer than SEQ_MOD messages.  Then user2   *)
(* has slot 0 and user1 slot 1 for good, and what is on its way from a slot*)
(* is what its owner queued.                                               *)
Documented ==
  /\ DocumentedOrder
  /\ MaxSessions = 1
  /\ \A u \in Users : Quota[u] < SEQ_MOD

Home(u)  == IF u = "user2" THEN 0 ELSE 1
Owner(i) == IF i = 0 THEN "user2" ELSE "user1"
Far(i)   == IF i = 0 THEN 1 ELSE 0

Homes ==
  /\ \A u \in Users :
       /\ fd[u] \in {Home(u), NoSock}
       /\ sessions[u] \in {0, 1}
       /\ queued[u] <= Quota[u]
       /\ sessions[u] = 0 => is_free[Home(u)] /\ fd[u] = NoSock /\ queued[u] = 0
  /\ sessions["user2"] = 0 => sessions["user1"] = 0
  /\ dest_addr[0] = 0
  /\ sessions["user1"] = 1 => dest_addr[1] = 1

(* The messages that the owner of slot i has queued, and what can lie in   *)
(* the arrays of the receiver for want of them.                            *)
Numbered(u, n) == [seq |-> n - 1, data |-> <<u, 1, n>>]
Own(i)     == {Numbered(Owner(i), n) : n \in 1 .. queued[Owner(i)]}
Lying(i)   == Own(i) \cup {Zeroed}
Fitting(i) == {p \in Packet : p.from = i /\ (p.type = "DATA" => p.msg \in Own(i))}
Flow(i) ==
  /\ swnd[i] \in Seq(Own(i)) /\ send_buffer[i] \in Seq(Own(i))
  /\ net[i] \in Seq(Fitting(i))
  /\ rmsgs[Far(i)] \in [0 .. WINDOW_SIZE - 1 -> Lying(i)]
  /\ recv_buffer[Far(i)] \in Seq(Lying(i))
  /\ rbase[i] + rsize[i] < SEQ_MOD

(* Before user1 is started nothing has come to user2.                      *)
Untouched ==
  sessions["user1"] = 0 =>
    net[1] = <<>> /\ recv_buffer[0] = <<>> /\ rbase[0] = 0 /\ rmsgs[0][0].seq = 0

(* An acknowledgement on its way names a message that the receiver window  *)
(* has passed, a message is not ahead of the sender's window; and the first*)
(* position of a fresh receiver window holds number 0, received or not.    *)
Timely == {p \in Packet : IF p.type = "ACK" THEN p.msg.seq < rbase[0]
                          ELSE p.msg.seq < swnd_base[1] + WINDOW_SIZE}
AcksRight ==
  fd["user1"] # NoSock /\ fd["user2"] # NoSock =>
    /\ swnd_base[1] <= rbase[0]
    /\ net[1] \in Seq(Timely)
    /\ rbase[0] = 0 => rmsgs[0][0].seq = 0

StreamInv ==
  Homes /\ (\A i \in Sockets : Flow(i)) /\ Untouched /\ AcksRight /\ DeliveryExact

KTPInv == TypeOK /\ BuffersBounded /\ SendInv /\ StreamInv

LEMMA InitStream == ASSUME Documented, Init PROVE StreamInv
<1> USE KTPAssumption DEF Init
<1>1. Homes
  BY DEF Homes, Home
<1>2. \A i \in Sockets : Flow(i)
  BY DEF Flow, Lying, Far
<1>3. Untouched
  BY DEF Untouched, Zeroed
<1>4. AcksRight /\ DeliveryExact
  BY DEF AcksRight, DeliveryExact
<1> QED BY <1>1, <1>2, <1>3, <1>4 DEF StreamInv

(* What a step leaves alone.                                               *)
LEMMA SameFlow ==
  ASSUME NEW i \in Sockets, Flow(i), queued'[Owner(i)] = queued[Owner(i)],
         swnd'[i] = swnd[i], send_buffer'[i] = send_buffer[i], net'[i] = net[i],
         rmsgs'[Far(i)] = rmsgs[Far(i)], recv_buffer'[Far(i)] = recv_buffer[Far(i)],
         rbase'[i] = rbase[i], rsize'[i] = rsize[i]
  PROVE  Flow(i)'
<1>1. Own(i)' = Own(i)
  BY DEF Own
<1>2. Lying(i)' = Lying(i) /\ Fitting(i)' = Fitting(i)
  BY <1>1 DEF Lying, Fitting
<1> QED BY <1>1, <1>2 DEF Flow

LEMMA SameHomes ==
  ASSUME Homes, UNCHANGED <<sessions, queued, dest_addr>>,
         \A u \in Users : fd'[u] \in {fd[u], NoSock},
         \A i \in Sockets : is_free[i] => is_free'[i]
  PROVE  Homes'
BY DEF Homes, Home

LEMMA SameAcks ==
  ASSUME AcksRight, \A u \in Users : fd'[u] \in {fd[u], NoSock},
         fd'["user1"] # NoSock /\ fd'["user2"] # NoSock =>
           /\ swnd_base'[1] = swnd_base[1] /\ net'[1] = net[1]
           /\ rbase'[0] = rbase[0] /\ rmsgs'[0] = rmsgs[0]
  PROVE  AcksRight'
<1> SUFFICES ASSUME fd'["user1"] # NoSock, fd'["user2"] # NoSock PROVE AcksRight'
  BY DEF AcksRight
<1>1. /\ swnd_base'[1] = swnd_base[1] /\ net'[1] = net[1]
      /\ rbase'[0] = rbase[0] /\ rmsgs'[0] = rmsgs[0]
  OBVIOUS
<1>2. Timely' = Timely
  BY <1>1 DEF Timely
<1> QED BY <1>1, <1>2 DEF AcksRight

LEMMA SameDelivery ==
  ASSUME Homes, DeliveryExact, fd'["user2"] \in {fd["user2"], NoSock},
         fd'["user2"] # NoSock =>
           /\ got'["user2"] = got["user2"] /\ recv_buffer'[0] = recv_buffer[0]
           /\ rbase'[0] = rbase[0] /\ discarded'[0] = discarded[0]
  PROVE  DeliveryExact'
<1> SUFFICES ASSUME fd'["user2"] # NoSock PROVE DeliveryExact'
  BY DEF DeliveryExact
<1>1. fd["user2"] = 0 /\ fd'["user2"] = 0
  BY DEF Homes, Home
<1>2. Handed("user2")' = Handed("user2")
  BY <1>1 DEF Handed
<1> QED BY <1>1, <1>2 DEF DeliveryExact

(* A step of the threads that does not touch the receiving side.           *)
LEMMA OnlySending ==
  ASSUME KTPInv, UNCHANGED <<slots, recver, users>>,
         \A i \in Sockets : /\ swnd'[i] \in Seq(Own(i)) /\ send_buffer'[i] \in Seq(Own(i))
                            /\ net'[i] \in Seq(Fitting(i)),
         sessions["user1"] = 0 => net'[1] = <<>>,
         AcksRight'
  PROVE  StreamInv'
<1>1. /\ Homes /\ Untouched /\ DeliveryExact /\ \A i \in Sockets : Flow(i)
  BY DEF KTPInv, StreamInv
<1>2. Homes' /\ DeliveryExact'
  BY <1>1, SameHomes, SameDelivery DEF slots, recver, users
<1>3. Untouched'
  BY <1>1 DEF Untouched, recver, users
<1>4. ASSUME NEW i \in Sockets PROVE Flow(i)'
  <2>1. Own(i)' = Own(i)
    BY DEF Own, users
  <2>2. Lying(i)' = Lying(i) /\ Fitting(i)' = Fitting(i)
    BY <2>1 DEF Lying, Fitting
  <2> QED BY <1>1, <2>1, <2>2 DEF Flow, recver
<1> QED BY <1>2, <1>3, <1>4 DEF StreamInv

LEMMA SendFacts ==
  ASSUME KTPInv
  PROVE  \A i \in Sockets : /\ swnd[i] \in Seq(Own(i)) /\ send_buffer[i] \in Seq(Own(i))
                            /\ net[i] \in Seq(Fitting(i))
BY DEF KTPInv, StreamInv, Flow

LEMMA QuietStep ==
  ASSUME KTPInv, UNCHANGED <<slots, sender, recver, net, users>>
  PROVE  StreamInv'
<1>1. AcksRight'
  BY SameAcks DEF KTPInv, StreamInv, users, sender, recver
<1>2. sessions["user1"] = 0 => net'[1] = <<>>
  BY DEF KTPInv, StreamInv, Untouched
<1> QED BY <1>1, <1>2, SendFacts, OnlySending DEF sender

(* What the queues of the network hold after a packet is added or taken.   *)
LEMMA EnqueueOne ==
  ASSUME NEW S, NEW q \in Seq(S), NEW p \in S
  PROVE  Enqueue(q, p) \in Seq(S)
BY DEF Enqueue

LEMMA TailOf ==
  ASSUME NEW S, NEW q \in Seq(S), q # <<>>
  PROVE  Tail(q) \in Seq(S) /\ Head(q) \in S
OBVIOUS

LEMMA DropStep ==
  ASSUME KTPInv, NEW i \in Sockets, dropMessage(i)
  PROVE  StreamInv'
<1>1. /\ net[i] # <<>> /\ net' = [net EXCEPT ![i] = Tail(@)]
      /\ UNCHANGED <<slots, sender, recver, users>>
  BY DEF dropMessage, Readable
<1>2. net \in [Sockets -> Seq(Packet)]
  BY DEF KTPInv, TypeOK, NetType
<1>3. net'[i] = Tail(net[i]) /\ \A k \in Sockets \ {i} : net'[k] = net[k]
  BY <1>1, <1>2
<1>4. \A k \in Sockets : net'[k] \in Seq(Fitting(k))
  BY <1>1, <1>3, SendFacts, TailOf
<1>5. sessions["user1"] = 0 => net'[1] = <<>>
  BY <1>1, <1>3 DEF KTPInv, StreamInv, Untouched
<1>6. AcksRight'
  <2> SUFFICES ASSUME fd'["user1"] # NoSock, fd'["user2"] # NoSock PROVE AcksRight'
    BY DEF AcksRight
  <2>1. /\ swnd_base[1] <= rbase[0] /\ net[1] \in Seq(Timely)
        /\ rbase[0] = 0 => rmsgs[0][0].seq = 0
    BY <1>1 DEF KTPInv, StreamInv, AcksRight, users
  <2>2. net'[1] \in Seq(Timely)
    BY <1>1, <1>3, <2>1, TailOf
  <2>3. Timely' = Timely
    BY <1>1 DEF Timely, sender, recver
  <2> QED BY <1>1, <2>1, <2>2, <2>3 DEF AcksRight, sender, recver
<1> QED BY <1>1, <1>4, <1>5, <1>6, SendFacts, OnlySending DEF sender

(* What thread_s sends from slot i goes to the queue of slot i, and when   *)
(* both programs run it is within the sender's window.                     *)
LEMMA SentFits ==
  ASSUME KTPInv, Documented, NEW i \in Sockets, swnd[i] # <<>> \/ send_buffer[i] # <<>>,
         NEW m \in Own(i), NEW p, p = [type |-> "DATA", msg |-> m, from |-> i],
         fd["user1"] # NoSock /\ fd["user2"] # NoSock /\ i = 1 => m.seq < swnd_base[1] + WINDOW_SIZE,
         UNCHANGED <<slots, swnd_base, recver, users>>,
         net' = [net EXCEPT ![dest_addr[i]] = Enqueue(@, p)]
  PROVE  /\ \A k \in Sockets : net'[k] \in Seq(Fitting(k))
         /\ sessions["user1"] = 0 => net'[1] = <<>>
         /\ AcksRight'
<1>1. /\ Homes /\ Untouched /\ AcksRight /\ FreeSlotsEmpty
      /\ net \in [Sockets -> Seq(Packet)] /\ sessions \in [Users -> Nat] /\ m \in Msg
  <2>1. queued \in [Users -> Nat] /\ Quota \in [Users -> Nat]
    BY KTPAssumption DEF KTPInv, TypeOK, UserType
  <2>2. m \in Msg
    <3>1. PICK n \in 1 .. queued[Owner(i)] : m = Numbered(Owner(i), n)
      BY DEF Own
    <3>2. Owner(i) \in Users /\ queued[Owner(i)] <= Quota[Owner(i)] /\ Quota[Owner(i)] < SEQ_MOD
      BY DEF KTPInv, StreamInv, Homes, Owner, Documented
    <3>3. n - 1 \in Seqs
      BY <2>1, <3>1, <3>2, KTPAssumption DEF Seqs
    <3> QED BY <3>1, <3>2, <3>3 DEF Numbered, Msg, Data
  <2> QED BY <2>2 DEF KTPInv, StreamInv, SendInv, TypeOK, NetType, UserType
<1>2. ~is_free[i]
  BY <1>1 DEF FreeSlotsEmpty
<1>3. dest_addr[i] = i /\ (sessions["user1"] = 0 => i = 0)
  BY <1>1, <1>2 DEF Homes, Home
<1>4. net'[i] = Enqueue(net[i], p) /\ \A k \in Sockets \ {i} : net'[k] = net[k]
  BY <1>1, <1>3
<1>5. p \in Packet /\ p \in Fitting(i) /\ p.type = "DATA" /\ p.msg = m
  BY <1>1 DEF Packet, Fitting
<1>6. \A k \in Sockets : net'[k] \in Seq(Fitting(k))
  <2> SUFFICES ASSUME NEW k \in Sockets PROVE net'[k] \in Seq(Fitting(k))
    OBVIOUS
  <2>1. net[k] \in Seq(Fitting(k))
    BY SendFacts
  <2> QED BY <1>4, <1>5, <2>1, EnqueueOne
<1>7. sessions["user1"] = 0 => net'[1] = <<>>
  BY <1>1, <1>3, <1>4 DEF Untouched
<1>8. AcksRight'
  <2> SUFFICES ASSUME fd'["user1"] # NoSock, fd'["user2"] # NoSock PROVE AcksRight'
    BY DEF AcksRight
  <2>1. /\ swnd_base[1] <= rbase[0] /\ net[1] \in Seq(Timely)
        /\ rbase[0] = 0 => rmsgs[0][0].seq = 0
    BY <1>1 DEF AcksRight, users
  <2>2. i = 1 => p \in Timely
    BY <1>5 DEF Timely, users
  <2>3. net'[1] \in Seq(Timely)
    BY <1>4, <2>1, <2>2, EnqueueOne
  <2>4. Timely' = Timely
    BY DEF Timely, recver
  <2> QED BY <2>1, <2>3, <2>4 DEF AcksRight, recver
<1> QED BY <1>6, <1>7, <1>8

LEMMA SmallMod ==
  ASSUME NEW M \in Nat \ {0}, NEW a \in 0 .. M - 1
  PROVE  a % M = a
<1>1. a = M * (a \div M) + (a % M) /\ a % M \in 0 .. M - 1 /\ a \div M \in Int
  BY DivMod
<1>2. M * 0 + a = a /\ 0 \in Int
  OBVIOUS
<1> QED BY <1>1, <1>2, UniqueRemainder

LEMMA SumBack ==
  ASSUME NEW t \in Nat, NEW l \in Nat, NEW m \in Nat, NEW a, a = t - l - m, a >= 0
  PROVE  a \in Nat /\ a + l + m = t
OBVIOUS

LEMMA NthNumber ==
  ASSUME NEW u, NEW n \in Nat, NEW m, m = Nth(u, n)
  PROVE  m.seq = (n - 1) % SEQ_MOD
BY DEF Nth

(* The numbers in the sender's window of user1: no number is used twice.   *)
LEMMA WindowNumbers ==
  ASSUME KTPInv, Documented, fd["user1"] # NoSock
  PROVE  /\ fd["user1"] = 1 /\ swnd_base[1] \in Nat /\ swnd_base[1] = Acked("user1")
         /\ swnd_base[1] + Len(swnd[1]) + Len(send_buffer[1]) = queued["user1"]
         /\ queued["user1"] < SEQ_MOD
         /\ \A k \in 1 .. Len(swnd[1]) : swnd[1][k].seq = swnd_base[1] + k - 1
         /\ send_buffer[1] # <<>> => Head(send_buffer[1]).seq = swnd_base[1] + Len(swnd[1])
         /\ Len(swnd[1]) \in 0 .. WINDOW_SIZE
<1> USE KTPAssumption
<1>1. /\ fd["user1"] = 1 /\ SendSideOf("user1")
      /\ queued["user1"] <= Quota["user1"] /\ Quota["user1"] < SEQ_MOD
      /\ swnd[1] \in Seq(Msg) /\ send_buffer[1] \in Seq(Msg)
      /\ Len(swnd[1]) <= WINDOW_SIZE
      /\ queued["user1"] \in Nat /\ Quota["user1"] \in Nat /\ SEQ_MOD \in Nat \ {0}
  BY DEF KTPInv, StreamInv, Homes, Home, SendInv, SendSideExact, Documented, TypeOK, UserType,
         SendType, BuffersBounded
<1> DEFINE a == Acked("user1")
           w == swnd[1]
           q == send_buffer[1]
<1>2. /\ a = queued["user1"] - Len(w) - Len(q) /\ a >= 0
      /\ swnd_base[1] = a % SEQ_MOD
      /\ \A k \in 1 .. Len(w) : w[k] = Nth("user1", a + k)
      /\ \A k \in 1 .. Len(q) : q[k] = Nth("user1", a + Len(w) + k)
  BY <1>1 DEF SendSideOf, Acked
<1>3. Len(w) \in Nat /\ Len(q) \in Nat
  BY <1>1
<1> HIDE DEF a, w, q
<1>4. a \in Nat /\ a + Len(w) + Len(q) = queued["user1"] /\ queued["user1"] < SEQ_MOD
  <2>1. a \in Nat /\ a + Len(w) + Len(q) = queued["user1"]
    BY ONLY <1>1, <1>2, <1>3, SumBack
  <2> QED BY <1>1, <2>1
<1>5. a \in 0 .. SEQ_MOD - 1
  BY <1>1, <1>3, <1>4
<1>6. swnd_base[1] = a
  BY <1>1, <1>2, <1>5, SmallMod
<1>7. ASSUME NEW k \in 1 .. Len(w) PROVE w[k].seq = a + k - 1
  <2>1. w[k].seq = (a + k - 1) % SEQ_MOD
    <3>1. PICK x : x = a + k
      OBVIOUS
    <3>2. w[k] = Nth("user1", x)
      BY <1>2, <3>1, Zenon
    <3>3. x \in Nat
      BY ONLY <1>3, <1>4, <3>1, k \in 1 .. Len(w)
    <3>4. PICK m : m = w[k]
      OBVIOUS
    <3>5. m.seq = (x - 1) % SEQ_MOD
      BY <3>2, <3>3, <3>4, NthNumber
    <3> QED BY ONLY <1>1, <1>3, <1>4, k \in 1 .. Len(w), <3>1, <3>3, <3>4, <3>5
  <2>2. a + k - 1 \in 0 .. SEQ_MOD - 1
    BY <1>1, <1>3, <1>4
  <2> QED BY <1>1, <2>1, <2>2, SmallMod
<1>8. ASSUME q # <<>> PROVE Head(q).seq = a + Len(w)
  <2>1. Len(q) > 0 /\ Head(q) = q[1] /\ 1 \in 1 .. Len(q)
    BY <1>1, <1>8 DEF q
  <2>2. Head(q) = Nth("user1", a + Len(w) + 1)
    BY <1>2, <2>1, Zenon
  <2>3. Head(q).seq = (a + Len(w) + 1 - 1) % SEQ_MOD
    <3>1. PICK x : x = a + Len(w) + 1
      OBVIOUS
    <3>2. x \in Nat /\ Head(q) = Nth("user1", x)
      BY <1>3, <1>4, <2>2, <3>1
    <3>3. Head(q).seq = (x - 1) % SEQ_MOD
      BY <3>2, NthNumber
    <3> QED BY ONLY <1>1, <1>3, <1>4, <3>1, <3>2, <3>3
  <2>4. a + Len(w) + 1 - 1 = a + Len(w) /\ a + Len(w) \in 0 .. SEQ_MOD - 1
    BY <1>1, <1>3, <1>4, <2>1
  <2> QED BY <1>1, <2>3, <2>4, SmallMod
<1> QED BY <1>1, <1>3, <1>4, <1>6, <1>7, <1>8 DEF a, w, q

LEMMA TransmitStep == ASSUME KTPInv, Documented, S_Send PROVE StreamInv'
<1>0. PICK i \in Sockets : i = threadS.sock
  BY DEF KTPInv, TypeOK, ThreadType
<1>1. PICK m : m = Head(send_buffer[i])
  OBVIOUS
<1>2. PICK p : p = [type |-> "DATA", msg |-> m, from |-> i]
  OBVIOUS
<1>3. /\ send_buffer[i] # <<>> /\ Len(swnd[i]) < WINDOW_SIZE
      /\ net' = [net EXCEPT ![dest_addr[i]] = Enqueue(@, p)]
      /\ swnd' = [swnd EXCEPT ![i] = Append(@, m)]
      /\ send_buffer' = [send_buffer EXCEPT ![i] = Tail(@)]
      /\ UNCHANGED <<slots, swnd_base, next_seq, recver, users>>
  BY <1>0, <1>1, <1>2 DEF S_Send
<1>4. m \in Own(i) /\ Tail(send_buffer[i]) \in Seq(Own(i)) /\ swnd[i] \in Seq(Own(i))
  BY <1>1, <1>3, SendFacts, TailOf
<1>5. ASSUME fd["user1"] # NoSock, i = 1 PROVE m.seq < swnd_base[1] + WINDOW_SIZE
  <2>1. m.seq = swnd_base[1] + Len(swnd[1]) /\ swnd_base[1] \in Nat /\ Len(swnd[1]) \in Nat
    BY <1>1, <1>3, <1>5, WindowNumbers
  <2> QED BY <1>3, <1>5, <2>1, KTPAssumption
<1>6. /\ \A k \in Sockets : net'[k] \in Seq(Fitting(k))
      /\ sessions["user1"] = 0 => net'[1] = <<>>
      /\ AcksRight'
  BY <1>2, <1>3, <1>4, <1>5, SentFits
<1>7. \A k \in Sockets : swnd'[k] \in Seq(Own(k)) /\ send_buffer'[k] \in Seq(Own(k))
  <2>1. Append(swnd[i], m) \in Seq(Own(i))
    BY <1>4
  <2> QED BY <1>3, <1>4, <2>1, SendFacts DEF KTPInv, TypeOK, SendType
<1> QED BY <1>3, <1>6, <1>7, OnlySending

LEMMA ResendStep == ASSUME KTPInv, Documented, S_Resend PROVE StreamInv'
<1>0. PICK i \in Sockets : i = threadS.sock
  BY DEF KTPInv, TypeOK, ThreadType
<1>1. PICK m : m = swnd[i][threadS.j + 1]
  OBVIOUS
<1>2. PICK p : p = [type |-> "DATA", msg |-> m, from |-> i]
  OBVIOUS
<1>3. /\ threadS.j + threadS.new < Len(swnd[i])
      /\ net' = [net EXCEPT ![dest_addr[i]] = Enqueue(@, p)]
      /\ UNCHANGED <<slots, sender, recver, users>>
  BY <1>0, <1>1, <1>2 DEF S_Resend
<1>4. threadS.j + 1 \in 1 .. Len(swnd[i]) /\ swnd[i] \in Seq(Own(i))
  <2>1. threadS.j \in Nat /\ threadS.new \in Nat
    BY DEF KTPInv, TypeOK, ThreadType
  <2>2. swnd[i] \in Seq(Own(i)) /\ Len(swnd[i]) \in Nat
    BY SendFacts
  <2> QED BY <1>3, <2>1, <2>2
<1>5. m \in Own(i) /\ swnd[i] # <<>>
  BY <1>1, <1>4
<1>6. ASSUME fd["user1"] # NoSock, i = 1 PROVE m.seq < swnd_base[1] + WINDOW_SIZE
  <2>1. PICK k \in 1 .. Len(swnd[1]) : m = swnd[1][k]
    BY <1>1, <1>4, <1>6
  <2>2. m.seq = swnd_base[1] + k - 1 /\ swnd_base[1] \in Nat /\ Len(swnd[1]) \in 0 .. WINDOW_SIZE
    BY <1>6, <2>1, WindowNumbers
  <2> QED BY <2>1, <2>2, KTPAssumption
<1>7. /\ \A k \in Sockets : net'[k] \in Seq(Fitting(k))
      /\ sessions["user1"] = 0 => net'[1] = <<>>
      /\ AcksRight'
  BY <1>2, <1>3, <1>5, <1>6, SentFits DEF sender
<1> QED BY <1>3, <1>7, SendFacts, OnlySending DEF sender

(* k_sendto puts the next number behind the others of its owner.           *)
LEMMA WiderSeq ==
  ASSUME NEW S, NEW T, S \subseteq T, NEW q \in Seq(S)
  PROVE  q \in Seq(T)
OBVIOUS

LEMMA OneLonger ==
  ASSUME NEW S, NEW q \in Seq(S), NEW x \in S
  PROVE  Append(q, x) \in Seq(S)
OBVIOUS

LEMMA FlowGrows ==
  ASSUME NEW i \in Sockets, Flow(i), queued[Owner(i)] \in Nat,
         queued'[Owner(i)] = queued[Owner(i)] + 1,
         send_buffer'[i] = send_buffer[i] \/
           send_buffer'[i] = Append(send_buffer[i], Numbered(Owner(i), queued[Owner(i)] + 1)),
         swnd'[i] = swnd[i], net'[i] = net[i],
         rmsgs'[Far(i)] = rmsgs[Far(i)], recv_buffer'[Far(i)] = recv_buffer[Far(i)],
         rbase'[i] = rbase[i], rsize'[i] = rsize[i]
  PROVE  Flow(i)'
<1>0. PICK x : x = Numbered(Owner(i), queued[Owner(i)] + 1)
  OBVIOUS
<1>1. Own(i) \subseteq Own(i)' /\ x \in Own(i)'
  BY <1>0 DEF Own
<1>2. Lying(i) \subseteq Lying(i)' /\ Fitting(i) \subseteq Fitting(i)'
  BY <1>1 DEF Lying, Fitting
<1>3. /\ swnd'[i] \in Seq(Own(i)') /\ send_buffer[i] \in Seq(Own(i)')
      /\ net'[i] \in Seq(Fitting(i)') /\ recv_buffer'[Far(i)] \in Seq(Lying(i)')
  BY <1>1, <1>2, WiderSeq DEF Flow
<1>4. send_buffer'[i] \in Seq(Own(i)')
  <2>1. Append(send_buffer[i], x) \in Seq(Own(i)')
    BY <1>1, <1>3, OneLonger
  <2> QED BY <1>0, <1>3, <2>1
<1>5. rmsgs'[Far(i)] \in [0 .. WINDOW_SIZE - 1 -> Lying(i)']
  BY <1>2 DEF Flow
<1> QED BY <1>3, <1>4, <1>5 DEF Flow

LEMMA SendtoStep ==
  ASSUME KTPInv, Documented, NEW v \in Users, k_sendto(v)
  PROVE  StreamInv'
<1> USE KTPAssumption
<1>0. PICK i \in Sockets : i = fd[v]
  BY DEF KTPInv, TypeOK, UserType, k_sendto
<1>1. /\ Homes /\ Untouched /\ AcksRight /\ DeliveryExact /\ \A k \in Sockets : Flow(k)
      /\ SendSideOf(v) /\ queued \in [Users -> Nat] /\ Quota \in [Users -> Nat]
      /\ send_buffer \in [Sockets -> Seq(Msg)]
  BY <1>0 DEF KTPInv, StreamInv, SendInv, SendSideExact, TypeOK, UserType, SendType
<1>2. i = Home(v) /\ Owner(i) = v /\ sessions[v] = 1
  BY <1>0, <1>1 DEF Homes, Home, Owner
<1>3. /\ queued[v] < Quota[v] /\ Quota[v] < SEQ_MOD
      /\ send_buffer' = [send_buffer EXCEPT ![i] =
           Append(@, [seq |-> next_seq[i], data |-> <<v, sessions[v], queued[v] + 1>>])]
      /\ queued' = [queued EXCEPT ![v] = @ + 1]
      /\ UNCHANGED <<slots, swnd, swnd_base, recver, net, threadS, fd, got, sessions, crashes>>
  BY <1>0 DEF k_sendto, Documented
<1>4. next_seq[i] = queued[v] /\ (queued[v] + 1) - 1 = queued[v]
  <2>1. queued[v] \in 0 .. SEQ_MOD - 1 /\ SEQ_MOD \in Nat \ {0}
    BY <1>1, <1>3
  <2>2. next_seq[i] = queued[v] % SEQ_MOD
    BY <1>0, <1>1 DEF SendSideOf
  <2> QED BY <2>1, <2>2, SmallMod
<1>5. send_buffer'[i] = Append(send_buffer[i], Numbered(v, queued[v] + 1))
  BY <1>1, <1>2, <1>3, <1>4 DEF Numbered
<1>6. ASSUME NEW k \in Sockets PROVE Flow(k)'
  <2>1. CASE k = i
    <3>1. queued'[v] = queued[v] + 1 /\ queued[v] \in Nat
      BY <1>1, <1>3
    <3> QED BY <1>1, <1>2, <1>3, <1>5, <2>1, <3>1, FlowGrows DEF recver
  <2>2. CASE k # i
    <3>1. queued'[Owner(k)] = queued[Owner(k)] /\ send_buffer'[k] = send_buffer[k]
      BY <1>1, <1>2, <1>3, <2>2 DEF Owner
    <3> QED BY <1>1, <1>3, <3>1, SameFlow DEF recver
  <2> QED BY <2>1, <2>2
<1>7. Homes'
  <2>1. \A u \in Users : queued'[u] <= Quota[u] /\ (u # v => queued'[u] = queued[u])
    BY <1>1, <1>3 DEF Homes
  <2>2. /\ \A u \in Users : fd'[u] = fd[u] /\ sessions'[u] = sessions[u]
        /\ is_free' = is_free /\ dest_addr' = dest_addr
    BY <1>3 DEF slots
  <2>3. \A u \in Users : Home(u)' = Home(u)
    BY DEF Home
  <2> QED BY <1>1, <1>2, <2>1, <2>2 DEF Homes, Home
<1>8. Untouched' /\ AcksRight' /\ DeliveryExact'
  BY <1>1, <1>3, SameAcks, SameDelivery DEF Untouched, recver
<1> QED BY <1>6, <1>7, <1>8 DEF StreamInv

(* What k_recvfrom takes from the buffer was handed out before.            *)
RestOf(t, f) ==
  /\ Len(f) > 0
  /\ Len(t) = Len(f) - 1
  /\ \A k \in 1 .. Len(t) : t[k] = f[k + 1]

LEMMA HandOver ==
  ASSUME NEW D, NEW g \in Seq(D), NEW f \in Seq(D), NEW t \in Seq(D), RestOf(t, f),
         NEW x, x = f[1]
  PROVE  Append(g, x) \o t = g \o f
<1> USE DEF RestOf
<1>1. x \in D /\ Append(g, x) \in Seq(D) /\ Len(Append(g, x)) = Len(g) + 1
  OBVIOUS
<1>2. PICK h \in Seq(D) : h = Append(g, x) /\ Len(h) = Len(g) + 1
  BY <1>1
<1>3. PICK l : l = h \o t
  OBVIOUS
<1>4. PICK r : r = g \o f
  OBVIOUS
<1>5. l \in Seq(D) /\ Len(l) = Len(h) + Len(t)
  BY <1>3, ConcatProperties
<1>6. r \in Seq(D) /\ Len(r) = Len(g) + Len(f)
  BY <1>4, ConcatProperties
<1>7. Len(l) = Len(g) + Len(f) /\ Len(g) \in Nat /\ Len(f) \in Nat
  BY <1>2, <1>5
<1>8. ASSUME NEW k \in 1 .. Len(g) + Len(f)
      PROVE  l[k] = r[k]
  <2>1. CASE k <= Len(g)
    BY <1>2, <1>3, <1>4, <2>1
  <2>2. CASE k = Len(g) + 1
    BY <1>2, <1>3, <1>4, <2>2
  <2>3. CASE k > Len(g) + 1
    <3>1. r[k] = f[k - Len(g)]
      BY <1>4, <2>3
    <3>2. l[k] = t[k - (Len(g) + 1)]
      BY <1>2, <1>3, <2>3
    <3>3. k - (Len(g) + 1) \in 1 .. Len(t) /\ (k - (Len(g) + 1)) + 1 = k - Len(g)
      BY <2>3
    <3> QED BY <3>1, <3>2, <3>3
  <2> QED BY <1>7, <2>1, <2>2, <2>3
<1>9. l = r
  BY <1>8, <1>5, <1>6, <1>7, SeqEqual
<1> QED BY <1>2, <1>3, <1>4, <1>9

DataOf(b) == [k \in 1 .. Len(b) |-> b[k].data]

(* DeliveryExact, said of user2 in its slot 0.                             *)
DeliveredAs(h, lost, n) ==
  /\ \A k \in DOMAIN h : h[k] = NoData \/ h[k][1] = "user1"
  /\ \A k \in DOMAIN h : \A l \in 1 .. k - 1 : Position(h[l]) < Position(h[k])
  /\ {Position(h[k]) : k \in DOMAIN h} \cup {Position(x) : x \in lost} = 1 .. n

LEMMA DeliveryAt0 ==
  /\ fd["user2"] = 0 =>
       (DeliveryExact <=> DeliveredAs(Handed("user2"), discarded[0], rbase[0]))
  /\ fd'["user2"] = 0 =>
       (DeliveryExact' <=> DeliveredAs(Handed("user2")', discarded'[0], rbase'[0]))
BY DEF DeliveryExact, DeliveredAs

LEMMA DataOfType ==
  ASSUME NEW b \in Seq(Msg)
  PROVE  DataOf(b) \in Seq(Data) /\ Len(DataOf(b)) = Len(b)
<1>1. Len(b) \in Nat /\ \A k \in 1 .. Len(b) : b[k] \in Msg
  OBVIOUS
<1>2. \A k \in 1 .. Len(b) : b[k].data \in Data
  BY <1>1 DEF Msg
<1> QED BY <1>1, <1>2, IsASeq DEF DataOf

LEMMA RecvfromStep ==
  ASSUME KTPInv, Documented, NEW v \in Users, k_recvfrom(v)
  PROVE  StreamInv'
<1>0. PICK i \in Sockets : i = fd[v]
  BY DEF KTPInv, TypeOK, UserType, k_recvfrom
<1>1. /\ Homes /\ Untouched /\ AcksRight /\ DeliveryExact /\ \A k \in Sockets : Flow(k)
      /\ recv_buffer \in [Sockets -> Seq(Msg)] /\ got \in [Users -> Seq(Data)]
  BY DEF KTPInv, StreamInv, TypeOK, UserType, RecvType
<1>2. i = Home(v)
  BY <1>0, <1>1 DEF Homes, Home
<1>3. /\ recv_buffer[i] # <<>>
      /\ got' = [got EXCEPT ![v] = Append(@, Head(recv_buffer[i]).data)]
      /\ recv_buffer' = [recv_buffer EXCEPT ![i] = Tail(@)]
      /\ UNCHANGED <<slots, sender, rmsgs, rsize, rbase, discarded, net, threadS,
                     fd, queued, sessions, crashes>>
  BY <1>0 DEF k_recvfrom
<1>4. \A k \in Sockets : recv_buffer'[k] = IF k = i THEN Tail(recv_buffer[k]) ELSE recv_buffer[k]
  BY <1>1, <1>3
<1>5. ASSUME NEW k \in Sockets PROVE Flow(k)'
  <2>1. Own(k)' = Own(k)
    BY <1>3 DEF Own
  <2>2. Lying(k)' = Lying(k) /\ Fitting(k)' = Fitting(k)
    BY <2>1 DEF Lying, Fitting
  <2>3. recv_buffer[Far(k)] \in Seq(Lying(k)) /\ Far(k) \in Sockets
    BY <1>1 DEF Flow, Far
  <2>4. recv_buffer'[Far(k)] \in Seq(Lying(k))
    BY <1>3, <1>4, <2>3, TailOf
  <2> QED BY <1>1, <1>3, <2>1, <2>2, <2>4 DEF Flow, sender
<1>6. Homes' /\ AcksRight'
  BY <1>1, <1>3, SameHomes, SameAcks DEF slots, sender
<1>7. Untouched'
  BY <1>1, <1>3, <1>4 DEF Untouched
<1>8. DeliveryExact'
  <2>1. CASE v = "user1"
    BY <1>1, <1>2, <1>3, <1>4, <2>1, SameDelivery DEF Home
  <2>2. CASE v = "user2"
    <3>1. i = 0 /\ fd'["user2"] = 0 /\ fd["user2"] = 0
      BY <1>0, <1>2, <1>3, <2>2 DEF Home
    <3>2. PICK b \in Seq(Msg) : b = recv_buffer[0]
      BY <1>1
    <3>3. b # <<>> /\ Tail(b) \in Seq(Msg) /\ Len(b) > 0 /\ Len(Tail(b)) = Len(b) - 1
          /\ Head(b) = b[1]
      BY <1>3, <3>1, <3>2
    <3>4. got'["user2"] = Append(got["user2"], Head(b).data) /\ recv_buffer'[0] = Tail(b)
      BY <1>1, <1>3, <1>4, <2>2, <3>1, <3>2
    <3>5. Handed("user2") = got["user2"] \o DataOf(b)
      BY <3>1, <3>2 DEF Handed, DataOf
    <3>6. Handed("user2")' = Append(got["user2"], Head(b).data) \o DataOf(Tail(b))
      BY <3>1, <3>4 DEF Handed, DataOf
    <3>7. /\ DataOf(b) \in Seq(Data) /\ DataOf(Tail(b)) \in Seq(Data)
          /\ Len(DataOf(b)) = Len(b) /\ Len(DataOf(Tail(b))) = Len(b) - 1
          /\ Head(b).data = DataOf(b)[1]
      BY <3>3, DataOfType DEF DataOf
    <3>8. \A k \in 1 .. Len(DataOf(Tail(b))) : DataOf(Tail(b))[k] = DataOf(b)[k + 1]
      <4> SUFFICES ASSUME NEW k \in 1 .. Len(b) - 1
                   PROVE  DataOf(Tail(b))[k] = DataOf(b)[k + 1]
        BY <3>7
      <4>1. Tail(b)[k] = b[k + 1] /\ k \in 1 .. Len(Tail(b)) /\ k + 1 \in 1 .. Len(b)
        BY <3>3, HeadTailProperties
      <4>2. DataOf(b)[k + 1] = b[k + 1].data
        BY <4>1 DEF DataOf
      <4>3. DataOf(Tail(b))[k] = Tail(b)[k].data
        BY <4>1 DEF DataOf
      <4> QED BY <4>1, <4>2, <4>3
    <3>9. Append(got["user2"], Head(b).data) \o DataOf(Tail(b)) = got["user2"] \o DataOf(b)
      <4>1. PICK f : f = DataOf(b)
        OBVIOUS
      <4>2. PICK t : t = DataOf(Tail(b))
        OBVIOUS
      <4>3. f \in Seq(Data) /\ t \in Seq(Data) /\ Len(f) > 0 /\ Len(t) = Len(f) - 1
        BY <3>3, <3>7, <4>1, <4>2
      <4>4. \A k \in 1 .. Len(t) : t[k] = f[k + 1]
        BY <3>8, <4>1, <4>2
      <4>5. PICK x : x = Head(b).data
        OBVIOUS
      <4>6. x = f[1]
        BY <3>7, <4>1, <4>5
      <4>7. PICK g \in Seq(Data) : g = got["user2"]
        BY <1>1
      <4>8. Append(g, x) \o t = g \o f
        <5>1. RestOf(t, f)
          BY <4>3, <4>4 DEF RestOf
        <5>2. f \in Seq(Data) /\ t \in Seq(Data)
          BY <4>3
        <5> QED BY ONLY <5>1, <5>2, <4>6, g \in Seq(Data), HandOver
      <4> QED BY <4>1, <4>2, <4>5, <4>7, <4>8
    <3>10. Handed("user2")' = Handed("user2")
      BY <3>5, <3>6, <3>9
    <3>11. rbase'[0] = rbase[0] /\ discarded'[0] = discarded[0]
      BY <1>3
    <3> QED BY <1>1, <3>1, <3>10, <3>11, DeliveryAt0
  <2> QED BY <2>1, <2>2
<1> QED BY <1>5, <1>6, <1>7, <1>8 DEF StreamInv

(* A program that ends, and thread_g after it, only empties and resets.    *)
Lessens(k) ==
  /\ swnd'[k] = swnd[k] \/ swnd'[k] = <<>>
  /\ send_buffer'[k] = send_buffer[k] \/ send_buffer'[k] = <<>>
  /\ recv_buffer'[k] = recv_buffer[k] \/ recv_buffer'[k] = <<>>
  /\ (rbase'[k] = rbase[k] /\ rsize'[k] = rsize[k]) \/ (rbase'[k] = 0 /\ rsize'[k] = 0)

LEMMA EmptyOrSame ==
  ASSUME NEW S, NEW q \in Seq(S), NEW r, r = q \/ r = <<>>
  PROVE  r \in Seq(S)
BY EmptySeq

LEMMA FlowLessens ==
  ASSUME NEW k \in Sockets, Flow(k), UNCHANGED <<net, rmsgs>>,
         queued'[Owner(k)] = queued[Owner(k)], Lessens(k), Lessens(Far(k))
  PROVE  Flow(k)'
<1>1. Own(k)' = Own(k)
  BY DEF Own
<1>2. Lying(k)' = Lying(k) /\ Fitting(k)' = Fitting(k)
  BY <1>1 DEF Lying, Fitting
<1>3. swnd'[k] \in Seq(Own(k)) /\ send_buffer'[k] \in Seq(Own(k))
  BY EmptyOrSame DEF Flow, Lessens
<1>4. recv_buffer'[Far(k)] \in Seq(Lying(k))
  BY EmptyOrSame DEF Flow, Lessens
<1>5. rbase'[k] + rsize'[k] < SEQ_MOD
  BY KTPAssumption DEF Flow, Lessens
<1> QED BY <1>1, <1>2, <1>3, <1>4, <1>5 DEF Flow

LEMMA LeaveFlow ==
  ASSUME KTPInv, UNCHANGED <<dest_addr, net, rmsgs, queued, sessions>>,
         \A u \in Users : fd'[u] \in {fd[u], NoSock},
         \A k \in Sockets : (is_free[k] => is_free'[k]) /\ Lessens(k)
  PROVE  Homes' /\ Untouched' /\ \A k \in Sockets : Flow(k)'
<1>1. Homes /\ Untouched /\ \A k \in Sockets : Flow(k)
  BY DEF KTPInv, StreamInv
<1>2. Homes'
  BY <1>1, SameHomes
<1>3. Untouched'
  BY <1>1 DEF Untouched, Lessens
<1>4. ASSUME NEW k \in Sockets PROVE Flow(k)'
  BY <1>1, FlowLessens DEF Far
<1> QED BY <1>2, <1>3, <1>4

LEMMA CloseStep ==
  ASSUME KTPInv, Documented, NEW v \in Users, Close(v)
  PROVE  StreamInv'
<1>0. PICK i \in Sockets : i = fd[v]
  BY DEF KTPInv, TypeOK, UserType, Close
<1>1. /\ Homes /\ DeliveryExact
      /\ recv_buffer \in [Sockets -> Seq(Msg)] /\ swnd \in [Sockets -> Seq(Msg)]
      /\ send_buffer \in [Sockets -> Seq(Msg)] /\ is_free \in [Sockets -> BOOLEAN]
      /\ fd \in [Users -> Sockets \cup {NoSock}]
  BY DEF KTPInv, StreamInv, TypeOK, UserType, RecvType, SendType, SlotType
<1>2. i = Home(v)
  BY <1>0, <1>1 DEF Homes, Home
<1>3. /\ is_free'     = [is_free     EXCEPT ![i] = TRUE]
      /\ send_buffer' = [send_buffer EXCEPT ![i] = <<>>]
      /\ recv_buffer' = [recv_buffer EXCEPT ![i] = <<>>]
      /\ swnd'        = [swnd        EXCEPT ![i] = <<>>]
      /\ fd' = [fd EXCEPT ![v] = NoSock]
      /\ UNCHANGED <<swnd_base, next_seq, rmsgs, rsize, rbase, dest_addr, net, threadS,
                     queued, got, sessions, crashes, discarded>>
  BY <1>0 DEF Close, k_close
<1>4. \A u \in Users : fd'[u] = IF u = v THEN NoSock ELSE fd[u]
  BY <1>1, <1>3
<1>5. Homes' /\ Untouched' /\ \A k \in Sockets : Flow(k)'
  <2>1. \A k \in Sockets : (is_free[k] => is_free'[k]) /\ Lessens(k)
    BY <1>1, <1>3, <1>4 DEF Lessens
  <2>2. \A u \in Users : fd'[u] \in {fd[u], NoSock}
    BY <1>1, <1>3, <1>4 DEF users
  <2>3. UNCHANGED <<dest_addr, net, rmsgs, queued, sessions>>
    BY <1>1, <1>3, <1>4 DEF slots, sender, recver, users
  <2> QED BY <2>1, <2>2, <2>3, LeaveFlow
<1>6. AcksRight'
  BY <1>4 DEF AcksRight
<1>7. DeliveryExact'
  <2>1. CASE v = "user2"
    BY <1>4, <2>1 DEF DeliveryExact
  <2>2. CASE v = "user1"
    BY <1>1, <1>2, <1>3, <1>4, <2>2, SameDelivery DEF Home
  <2> QED BY <2>1, <2>2
<1> QED BY <1>5, <1>6, <1>7 DEF StreamInv

LEMMA CrashStep ==
  ASSUME KTPInv, Documented, NEW v \in Users, Crash(v)
  PROVE  StreamInv'
<1>1. /\ Homes /\ DeliveryExact /\ fd \in [Users -> Sockets \cup {NoSock}]
  BY DEF KTPInv, StreamInv, TypeOK, UserType
<1>2. /\ fd' = [fd EXCEPT ![v] = NoSock]
      /\ UNCHANGED <<slots, sender, recver, net, queued, got, sessions>>
  BY DEF Crash
<1>3. \A u \in Users : fd'[u] = IF u = v THEN NoSock ELSE fd[u]
  BY <1>1, <1>2
<1>4. Homes' /\ Untouched' /\ \A k \in Sockets : Flow(k)'
  <2>1. \A k \in Sockets : (is_free[k] => is_free'[k]) /\ Lessens(k)
    BY <1>2, <1>3 DEF Lessens, slots, sender, recver
  <2>2. \A u \in Users : fd'[u] \in {fd[u], NoSock}
    BY <1>2, <1>3 DEF users
  <2>3. UNCHANGED <<dest_addr, net, rmsgs, queued, sessions>>
    BY <1>2, <1>3 DEF slots, sender, recver, users
  <2> QED BY <2>1, <2>2, <2>3, LeaveFlow
<1>5. AcksRight'
  BY <1>3 DEF AcksRight
<1>6. DeliveryExact'
  BY <1>1, <1>2, <1>3, SameDelivery DEF recver
<1> QED BY <1>4, <1>5, <1>6 DEF StreamInv

LEMMA CollectStep ==
  ASSUME KTPInv, Documented, NEW i \in Sockets, Collect(i)
  PROVE  StreamInv'
<1>1. /\ Homes /\ DeliveryExact
      /\ recv_buffer \in [Sockets -> Seq(Msg)] /\ swnd \in [Sockets -> Seq(Msg)]
      /\ send_buffer \in [Sockets -> Seq(Msg)] /\ is_free \in [Sockets -> BOOLEAN]
      /\ rbase \in [Sockets -> Seqs] /\ rsize \in [Sockets -> 0 .. WINDOW_SIZE]
  BY DEF KTPInv, StreamInv, TypeOK, RecvType, SendType, SlotType
<1>2. /\ is_free'     = [is_free     EXCEPT ![i] = TRUE]
      /\ send_buffer' = [send_buffer EXCEPT ![i] = <<>>]
      /\ recv_buffer' = [recv_buffer EXCEPT ![i] = <<>>]
      /\ swnd'        = [swnd        EXCEPT ![i] = <<>>]
      /\ rsize'       = [rsize       EXCEPT ![i] = 0]
      /\ rbase'       = [rbase       EXCEPT ![i] = 0]
      /\ \A u \in Users : fd[u] # i
      /\ UNCHANGED <<dest_addr, rmsgs, discarded, net, users>>
  BY DEF Collect
<1>3. Homes' /\ Untouched' /\ \A k \in Sockets : Flow(k)'
  <2>1. \A k \in Sockets : (is_free[k] => is_free'[k]) /\ Lessens(k)
    BY <1>1, <1>2 DEF Lessens, users
  <2>2. \A u \in Users : fd'[u] \in {fd[u], NoSock}
    BY <1>1, <1>2 DEF users
  <2>3. UNCHANGED <<dest_addr, net, rmsgs, queued, sessions>>
    BY <1>1, <1>2 DEF slots, sender, recver, users
  <2> QED BY <2>1, <2>2, <2>3, LeaveFlow
<1>4. AcksRight'
  BY <1>1, <1>2 DEF AcksRight, Homes, Home, users
<1>5. DeliveryExact'
  <2>1. CASE fd["user2"] = NoSock
    BY <1>2, <2>1 DEF DeliveryExact, users
  <2>2. CASE fd["user2"] # NoSock
    <3>1. i # 0
      BY <1>1, <1>2, <2>2 DEF Homes, Home
    <3> QED BY <1>1, <1>2, <3>1, SameDelivery DEF users
  <2> QED BY <2>1, <2>2
<1> QED BY <1>3, <1>4, <1>5 DEF StreamInv

(* user2 gets slot 0, which nothing has come to, and user1 slot 1.         *)
LEMMA OpenStep ==
  ASSUME KTPInv, Documented, NEW v \in Users, Open(v)
  PROVE  StreamInv'
<1> USE KTPAssumption
<1>1. /\ Homes /\ Untouched /\ DeliveryExact /\ \A k \in Sockets : Flow(k)
      /\ OneOwner
      /\ recv_buffer \in [Sockets -> Seq(Msg)] /\ swnd \in [Sockets -> Seq(Msg)]
      /\ swnd_base \in [Sockets -> Seqs]
      /\ is_free \in [Sockets -> BOOLEAN] /\ dest_addr \in [Sockets -> Sockets]
      /\ rbase \in [Sockets -> Seqs] /\ rsize \in [Sockets -> 0 .. WINDOW_SIZE]
      /\ fd \in [Users -> Sockets \cup {NoSock}] /\ queued \in [Users -> Nat]
      /\ got \in [Users -> Seq(Data)] /\ sessions \in [Users -> Nat]
      /\ discarded \in [Sockets -> SUBSET Data] /\ Quota \in [Users -> Nat]
  BY DEF KTPInv, StreamInv, SendInv, TypeOK, UserType, RecvType, SendType, SlotType
<1>2. PICK i \in Sockets :
        /\ FirstFree(i)
        /\ is_free'   = [is_free   EXCEPT ![i] = FALSE]
        /\ swnd_base' = [swnd_base EXCEPT ![i] = 0]
        /\ swnd'      = [swnd      EXCEPT ![i] = <<>>]
        /\ rbase'     = [rbase     EXCEPT ![i] = 0]
        /\ rsize'     = [rsize     EXCEPT ![i] = 0]
        /\ dest_addr' = [dest_addr EXCEPT ![i] = IF v = "user1" THEN 1 ELSE 0]
        /\ fd'        = [fd        EXCEPT ![v] = i]
        /\ discarded' = [discarded EXCEPT ![i] = {}]
        /\ UNCHANGED <<send_buffer, recv_buffer, rmsgs>>
  BY DEF Open, k_socket, k_bind
<1>3. /\ queued'   = [queued EXCEPT ![v] = 0]
      /\ got'      = [got EXCEPT ![v] = <<>>]
      /\ sessions' = [sessions EXCEPT ![v] = @ + 1]
      /\ fd[v] = NoSock /\ sessions[v] < 1
      /\ fd["user2"] = NoSock <=> v = "user2"
      /\ v = "user2" => fd["user1"] = NoSock
      /\ net' = net
  BY DEF Open, Documented
<1>4. sessions[v] = 0 /\ queued[v] = 0 /\ is_free[Home(v)]
  BY SMTT(30), <1>1, <1>3 DEF Homes
<1>5. i = Home(v) /\ Owner(i) = v
  <2>1. CASE v = "user2"
    BY <1>2, <1>4, <2>1 DEF Home, FirstFree, Owner
  <2>2. CASE v = "user1"
    <3>1. ~is_free[0]
      BY <1>1, <1>3, <2>2 DEF OneOwner, Homes, Home
    <3> QED BY <1>2, <1>4, <2>2, <3>1 DEF Home, FirstFree, Owner
  <2> QED BY <2>1, <2>2
<1>6. ASSUME NEW k \in Sockets PROVE Flow(k)'
  <2>1. queued'[Owner(k)] = queued[Owner(k)]
    BY <1>1, <1>3, <1>4 DEF Owner
  <2>2. \A n \in Sockets : Lessens(n)
    BY <1>1, <1>2 DEF Lessens
  <2> QED BY <1>1, <1>2, <1>3, <2>1, <2>2, FlowLessens DEF Far
<1>7. Homes'
  <2>1. \A u \in Users : /\ fd'[u] = IF u = v THEN Home(u) ELSE fd[u]
                         /\ sessions'[u] = IF u = v THEN 1 ELSE sessions[u]
                         /\ queued'[u] = queued[u]
    BY SMTT(30), <1>1, <1>3, <1>2, <1>4, <1>5
  <2>2. \A k \in Sockets : k # Home(v) => is_free'[k] = is_free[k] /\ dest_addr'[k] = dest_addr[k]
    BY <1>1, <1>2, <1>5
  <2>3. dest_addr'[Home(v)] = IF v = "user1" THEN 1 ELSE 0
    BY <1>1, <1>2, <1>5
  <2>4. CASE v = "user2"
    BY <1>1, <1>4, <2>1, <2>2, <2>3, <2>4 DEF Homes, Home
  <2>5. CASE v = "user1"
    BY <1>1, <1>3, <1>4, <2>1, <2>2, <2>3, <2>5 DEF Homes, Home
  <2> QED BY <2>4, <2>5
<1>8. Untouched'
  <2>1. CASE v = "user2"
    BY <1>1, <1>2, <1>3, <1>5, <2>1 DEF Untouched, Home
  <2>2. CASE v = "user1"
    BY <1>1, <1>3, <1>4, <2>2 DEF Untouched
  <2> QED BY <2>1, <2>2
<1>9. AcksRight'
  <2>1. CASE v = "user2"
    BY <1>1, <1>2, <1>3, <2>1 DEF AcksRight
  <2>2. CASE v = "user1"
    <3>1. swnd_base'[1] = 0 /\ rbase'[0] = 0 /\ net'[1] = <<>> /\ rmsgs'[0][0].seq = 0
      BY <1>1, <1>2, <1>3, <1>4, <1>5, <2>2 DEF Untouched, Home
    <3> QED BY <3>1, EmptySeq DEF AcksRight
  <2> QED BY <2>1, <2>2
<1>10. DeliveryExact'
  <2>1. CASE v = "user2"
    <3>1. fd'["user2"] = 0 /\ got'["user2"] = <<>> /\ recv_buffer'[0] = <<>>
          /\ rbase'[0] = 0 /\ discarded'[0] = {}
      <4>1. sessions["user1"] = 0
        BY <1>1, <1>4, <2>1 DEF Homes
      <4> QED BY <1>1, <1>2, <1>3, <1>5, <2>1, <4>1 DEF Untouched, Home
    <3>2. Handed("user2")' = <<>>
      <4>1. Handed("user2")' = <<>> \o DataOf(<<>>)
        BY <3>1 DEF Handed, DataOf
      <4>2. DataOf(<<>>) \in Seq(Data) /\ Len(DataOf(<<>>)) = 0
        BY DataOfType, EmptySeq
      <4>3. DataOf(<<>>) = <<>>
        BY <4>2, EmptySeq
      <4> QED BY <4>1, <4>3
    <3>3. DeliveredAs(<<>>, {}, 0)
      BY DEF DeliveredAs
    <3> QED BY <3>1, <3>2, <3>3, DeliveryAt0
  <2>2. CASE v = "user1"
    <3>1. i = 1 /\ fd'["user2"] = fd["user2"] /\ got'["user2"] = got["user2"]
      BY <1>1, <1>2, <1>3, <1>5, <2>2 DEF Home
    <3> QED BY <1>1, <1>2, <3>1, SameDelivery
  <2> QED BY <2>1, <2>2
<1> QED BY <1>6, <1>7, <1>8, <1>9, <1>10 DEF StreamInv

LEMMA RestOfSeq ==
  ASSUME NEW S, NEW q \in Seq(S), NEW n \in 0 .. Len(q)
  PROVE  SubSeq(q, n + 1, Len(q)) \in Seq(S)
OBVIOUS

(* An acknowledgement moves the sender's window no further than the number *)
(* it names, which the receiver window has passed.                         *)
LEMMA AckStep ==
  ASSUME KTPInv, Documented, NEW i \in Sockets, R_Ack(i)
  PROVE  StreamInv'
<1> USE KTPAssumption
<1>1. PICK p : p = Head(net[i])
  OBVIOUS
<1>2. /\ net[i] # <<>> /\ p.type = "ACK"
      /\ net' = [net EXCEPT ![i] = Tail(@)]
      /\ UNCHANGED <<slots, send_buffer, next_seq, recver, threadS, users>>
  BY <1>1 DEF R_Ack, Readable
<1>3. p \in Fitting(i) /\ p \in Packet /\ Tail(net[i]) \in Seq(Fitting(i))
  <2>1. p \in Fitting(i) /\ Tail(net[i]) \in Seq(Fitting(i))
    BY <1>1, <1>2, SendFacts, TailOf
  <2> QED BY <2>1 DEF Fitting
<1>4. sender_sockfd(p) = i
  BY <1>3 DEF Fitting, sender_sockfd
<1>5. PICK n \in 0 .. Len(swnd[i]) :
        /\ IsSlide(swnd[i], p.msg.seq, n)
        /\ swnd' = [swnd EXCEPT ![i] = SubSeq(@, n + 1, Len(@))]
        /\ swnd_base' = [swnd_base EXCEPT ![i] = (@ + n) % SEQ_MOD]
  BY <1>1, <1>4 DEF R_Ack, SlidBase
<1>6. /\ net \in [Sockets -> Seq(Packet)] /\ swnd \in [Sockets -> Seq(Msg)]
      /\ swnd_base \in [Sockets -> Seqs] /\ rbase \in [Sockets -> Seqs]
      /\ Untouched /\ AcksRight
  BY DEF KTPInv, TypeOK, NetType, SendType, RecvType, StreamInv
<1>7. net'[i] = Tail(net[i]) /\ \A k \in Sockets \ {i} : net'[k] = net[k]
  BY <1>2, <1>6
<1>8. \A k \in Sockets : /\ net'[k] \in Seq(Fitting(k))
                         /\ swnd'[k] \in Seq(Own(k)) /\ send_buffer'[k] \in Seq(Own(k))
  <2> SUFFICES ASSUME NEW k \in Sockets
               PROVE  /\ net'[k] \in Seq(Fitting(k))
                      /\ swnd'[k] \in Seq(Own(k)) /\ send_buffer'[k] \in Seq(Own(k))
    OBVIOUS
  <2>1. CASE k = i
    <3>1. swnd'[i] = SubSeq(swnd[i], n + 1, Len(swnd[i]))
      BY <1>5, <1>6
    <3> QED BY SMTT(30), <1>2, <1>3, <1>5, <1>7, <2>1, <3>1, SendFacts, RestOfSeq
  <2>2. CASE k # i
    BY <1>2, <1>5, <1>6, <1>7, <2>2, SendFacts
  <2> QED BY <2>1, <2>2
<1>9. sessions["user1"] = 0 => net'[1] = <<>>
  <2>1. sessions["user1"] = 0 => net[1] = <<>> /\ i # 1
    BY <1>2, <1>6 DEF Untouched
  <2> QED BY <1>7, <2>1
<1>10. AcksRight'
  <2> SUFFICES ASSUME fd'["user1"] # NoSock, fd'["user2"] # NoSock PROVE AcksRight'
    BY DEF AcksRight
  <2>1. /\ swnd_base[1] <= rbase[0] /\ net[1] \in Seq(Timely) /\ fd["user1"] # NoSock
        /\ rbase[0] = 0 => rmsgs[0][0].seq = 0
    BY <1>2, <1>6 DEF AcksRight, users
  <2>2. CASE i = 0
    <3>1. swnd_base'[1] = swnd_base[1] /\ net'[1] = net[1]
      BY <1>5, <1>6, <1>7, <2>2
    <3>2. Timely' = Timely
      BY <1>2, <3>1 DEF Timely, recver
    <3> QED BY <1>2, <2>1, <3>1, <3>2 DEF AcksRight, recver
  <2>3. CASE i = 1
    <3>1. /\ swnd_base[1] \in Nat /\ rbase[0] \in Nat /\ n \in Nat /\ rbase[0] < SEQ_MOD
          /\ p.msg.seq \in Nat /\ SEQ_MOD \in Nat \ {0}
      BY SMTT(30), <1>3, <1>5, <1>6 DEF Seqs, Packet, Msg
    <3>2. p.msg.seq < rbase[0]
      <4>1. p \in Timely
        BY <1>1, <1>2, <2>1, <2>3, TailOf
      <4> QED BY <1>2, <4>1 DEF Timely
    <3>3. swnd_base[1] + n <= rbase[0]
      <4>1. CASE n = 0
        BY <2>1, <3>1, <4>1
      <4>2. CASE n # 0
        <5>1. n \in 1 .. Len(swnd[1]) /\ n \in 1 .. n
          BY <1>5, <2>3, <4>2
        <5>2. swnd[1][n].seq = swnd_base[1] + n - 1
          BY <2>1, <5>1, WindowNumbers
        <5>3. swnd[1][n].seq <= p.msg.seq
          BY <1>5, <2>3, <5>1 DEF IsSlide
        <5> QED BY <3>1, <3>2, <5>2, <5>3
      <4> QED BY <4>1, <4>2
    <3>4. swnd_base'[1] = swnd_base[1] + n
      <4>1. swnd_base'[1] = (swnd_base[1] + n) % SEQ_MOD
        BY <1>5, <1>6, <2>3
      <4>2. swnd_base[1] + n \in 0 .. SEQ_MOD - 1
        BY <3>1, <3>3
      <4> QED BY <3>1, <4>1, <4>2, SmallMod
    <3>5. Timely \subseteq Timely'
      <4>1. \A x \in Packet : x.msg.seq \in Nat
        BY DEF Packet, Msg, Seqs
      <4>2. rbase' = rbase
        BY <1>2 DEF recver
      <4> QED BY SMTT(30), <3>1, <3>4, <4>1, <4>2 DEF Timely
    <3>6. net'[1] \in Seq(Timely')
      BY <1>2, <1>7, <2>1, <2>3, <3>5, TailOf, WiderSeq
    <3> QED BY <1>2, <2>1, <3>3, <3>4, <3>6 DEF AcksRight, recver
  <2> QED BY <2>2, <2>3
<1> QED BY <1>2, <1>8, <1>9, <1>10, OnlySending

(* What thread_r stores and delivers: a run of messages under the numbers  *)
(* that the receiver window expects.                                       *)
LEMMA OwnNumber ==
  ASSUME KTPInv, Documented, NEW i \in Sockets, NEW m \in Own(i)
  PROVE  m \in Msg /\ m.seq \in Nat /\ m.seq + 1 < SEQ_MOD
<1>1. PICK k \in 1 .. queued[Owner(i)] : m = Numbered(Owner(i), k)
  BY DEF Own
<1>2. Owner(i) \in Users /\ queued[Owner(i)] \in Nat /\ Quota[Owner(i)] \in Nat
      /\ queued[Owner(i)] <= Quota[Owner(i)] /\ Quota[Owner(i)] < SEQ_MOD
  BY KTPAssumption DEF KTPInv, StreamInv, Homes, Owner, Documented, TypeOK, UserType
<1>3. k - 1 \in Seqs /\ k - 1 \in Nat /\ (k - 1) + 1 < SEQ_MOD /\ k \in Nat
  BY <1>1, <1>2, KTPAssumption DEF Seqs
<1> QED BY <1>1, <1>2, <1>3 DEF Numbered, Msg, Data

LEMMA KeptBound ==
  ASSUME NEW d \in Sockets, NEW n \in Nat, Len(recv_buffer[d]) \in 0 .. WINDOW_SIZE
  PROVE  Kept(d, n) \in 0 .. n
<1>1. PICK room : room = WINDOW_SIZE - Len(recv_buffer[d])
  OBVIOUS
<1>2. room \in Nat
  BY <1>1, KTPAssumption
<1>3. Kept(d, n) = IF n <= room THEN n ELSE room
  BY <1>1 DEF Kept
<1> QED BY <1>3, <1>2

LostOf(run, kept, n) == {run[k].data : k \in kept + 1 .. n}

Takes(S, d, n, run, kept) ==
  /\ run \in Seq(S) /\ Len(run) = n /\ kept \in 0 .. n
  /\ \A k \in 1 .. n : run[k].seq = rbase[d] + k - 1
  /\ rmsgs'[d] \in [0 .. WINDOW_SIZE - 1 -> S]
  /\ rbase'[d] = rbase[d] + n
  /\ rbase'[d] + rsize'[d] < SEQ_MOD
  /\ recv_buffer'[d] = recv_buffer[d] \o SubSeq(run, 1, kept)
  /\ discarded'[d] = discarded[d] \cup LostOf(run, kept, n)
  /\ rbase[d] = 0 /\ rmsgs[d][0].seq = 0 => n # 0

LEMMA RunTaken ==
  ASSUME KTPInv, Documented, NEW i \in Sockets, NEW d, d = Far(i), NEW m \in Own(i),
         InWindow(d, m), NEW n \in 0 .. StoredSize(d, m),
         IsRun(Stored(d, m), StoredSize(d, m), rbase[d], n),
         Deliver(d, Stored(d, m), StoredSize(d, m), n)
  PROVE  \E run, kept : Takes(Lying(i), d, n, run, kept)
<1> USE KTPAssumption
<1>1. PICK S : S = Lying(i)
  OBVIOUS
<1>2. /\ d \in Sockets /\ m \in S /\ m.seq \in Nat /\ m.seq + 1 < SEQ_MOD
      /\ rmsgs[d] \in [0 .. WINDOW_SIZE - 1 -> S]
  BY <1>1, OwnNumber DEF KTPInv, StreamInv, Flow, Far, Lying
<1>3. /\ rbase[d] \in Nat /\ rsize[d] \in 0 .. WINDOW_SIZE
      /\ rbase[d] + rsize[d] < SEQ_MOD /\ SEQ_MOD \in Nat \ {0} /\ WINDOW_SIZE \in Nat \ {0}
      /\ recv_buffer[d] \in Seq(Msg) /\ Len(recv_buffer[d]) \in 0 .. WINDOW_SIZE
      /\ rmsgs \in [Sockets -> [0 .. WINDOW_SIZE - 1 -> Msg]]
      /\ rsize \in [Sockets -> 0 .. WINDOW_SIZE] /\ rbase \in [Sockets -> Seqs]
      /\ recv_buffer \in [Sockets -> Seq(Msg)] /\ discarded \in [Sockets -> SUBSET Data]
  <2>1. RecvType /\ BuffersBounded /\ Flow(d)
    BY <1>2 DEF KTPInv, StreamInv, TypeOK
  <2>2. rbase[d] \in Nat
    BY SMTT(30), <1>2, <2>1 DEF RecvType, Seqs
  <2>3. Len(recv_buffer[d]) \in 0 .. WINDOW_SIZE
    BY SMTT(30), <1>2, <2>1 DEF RecvType, BuffersBounded
  <2> QED BY <1>2, <2>1, <2>2, <2>3 DEF RecvType, Flow
<1>4. PICK ms : ms = Stored(d, m)
  OBVIOUS
<1>5. PICK size : size = StoredSize(d, m)
  OBVIOUS
<1>6. PICK base : base = rbase[d]
  OBVIOUS
<1>7. /\ ms \in [0 .. WINDOW_SIZE - 1 -> S] /\ size \in 1 .. WINDOW_SIZE
      /\ size = rsize[d] \/ size = m.seq - base + 1
      /\ ms[0] = rmsgs[d][0] \/ (ms[0] = m /\ m.seq = base)
  <2>1. m.seq - rbase[d] \in 0 .. WINDOW_SIZE - 1
    <3>1. rbase[d] <= m.seq /\ m.seq < rbase[d] + WINDOW_SIZE
      BY DEF InWindow
    <3>2. m.seq \in Nat /\ rbase[d] \in Nat /\ WINDOW_SIZE \in Nat
      BY <1>2, <1>3
    <3> QED BY ONLY <3>1, <3>2
  <2>2. Stored(d, m) \in [0 .. WINDOW_SIZE - 1 -> S]
    BY <1>2, <2>1 DEF Stored
  <2>3. /\ StoredSize(d, m) \in 1 .. WINDOW_SIZE
        /\ StoredSize(d, m) = rsize[d] \/ StoredSize(d, m) = m.seq - rbase[d] + 1
    <3>1. m.seq \in Nat /\ rbase[d] \in Nat /\ rsize[d] \in 0 .. WINDOW_SIZE
          /\ WINDOW_SIZE \in Nat \ {0}
      BY <1>2, <1>3
    <3> QED BY ONLY <2>1, <3>1 DEF StoredSize
  <2>4. Stored(d, m)[0] = rmsgs[d][0] \/ (Stored(d, m)[0] = m /\ m.seq = rbase[d])
    <3>1. m.seq \in Nat /\ rbase[d] \in Nat
          /\ rmsgs[d] \in [0 .. WINDOW_SIZE - 1 -> S]
      BY <1>2, <1>3
    <3> QED BY ONLY <2>1, <3>1, KTPAssumption DEF Stored
  <2> QED BY <1>4, <1>5, <1>6, <2>2, <2>3, <2>4
<1>8. base \in Nat /\ n \in 0 .. size /\ base + size < SEQ_MOD /\ size \in Nat
  <2>1. base \in Nat /\ n \in 0 .. size
    BY <1>3, <1>5, <1>6
  <2>2. CASE size = rsize[d]
    BY <1>3, <1>6, <1>7, <2>1, <2>2
  <2>3. CASE size = m.seq - base + 1
    <3>1. base + size = m.seq + 1
      BY <1>2, <2>1, <2>3
    <3> QED BY <1>2, <1>7, <2>1, <3>1
  <2> QED BY <1>7, <2>1, <2>2, <2>3
<1>9. IsRun(ms, size, base, n) /\ Deliver(d, ms, size, n)
  BY <1>4, <1>5, <1>6
<1> DEFINE run == [k \in 1 .. n |-> ms[k - 1]]
           kept == Kept(d, n)
<1>10. /\ rmsgs' = [rmsgs EXCEPT ![d] = Shifted(ms, size, n)]
       /\ rsize' = [rsize EXCEPT ![d] = size - n]
       /\ rbase' = [rbase EXCEPT ![d] = (@ + n) % SEQ_MOD]
       /\ recv_buffer' = [recv_buffer EXCEPT ![d] = @ \o SubSeq(run, 1, kept)]
       /\ discarded' = [discarded EXCEPT ![d] = @ \cup {run[k].data : k \in kept + 1 .. n}]
  BY <1>9 DEF Deliver
<1>11. run \in Seq(S) /\ Len(run) = n
  <2>1. run \in [1 .. n -> S]
    BY <1>7, <1>8
  <2> QED BY <1>8, <2>1
<1>12. \A k \in 1 .. n : run[k] = ms[k - 1]
  OBVIOUS
<1>13. kept \in 0 .. n
  BY SMTT(30), <1>2, <1>3, <1>8, KeptBound
<1> HIDE DEF run, kept
<1>14. \A k \in 0 .. n - 1 : ms[k].seq = base + k
  <2> SUFFICES ASSUME NEW k \in 0 .. n - 1 PROVE ms[k].seq = base + k
    OBVIOUS
  <2>1. ms[k].seq = (base + k) % SEQ_MOD
    BY <1>9 DEF IsRun
  <2>2. base + k \in 0 .. SEQ_MOD - 1
    BY <1>8
  <2> QED BY <1>3, <2>1, <2>2, SmallMod
<1>15. \A k \in 1 .. n : run[k].seq = rbase[d] + k - 1
  <2> SUFFICES ASSUME NEW k \in 1 .. n PROVE run[k].seq = base + k - 1
    BY <1>6
  <2>1. k - 1 \in 0 .. n - 1 /\ base + (k - 1) = base + k - 1
    BY <1>8
  <2>2. run[k] = ms[k - 1]
    BY <1>12
  <2> QED BY <1>14, <2>1, <2>2
<1>16. rmsgs'[d] \in [0 .. WINDOW_SIZE - 1 -> S]
  <2>1. Shifted(ms, size, n) \in [0 .. WINDOW_SIZE - 1 -> S]
    BY <1>7, <1>8 DEF Shifted
  <2> QED BY <1>2, <1>3, <1>10, <2>1
<1>17. rbase'[d] = rbase[d] + n /\ rbase'[d] + rsize'[d] < SEQ_MOD
  <2>1. base + n \in 0 .. SEQ_MOD - 1
    BY <1>3, <1>8
  <2>2. rbase'[d] = (base + n) % SEQ_MOD /\ rsize'[d] = size - n
    BY <1>2, <1>3, <1>6, <1>10
  <2>3. rbase'[d] = base + n
    BY <1>3, <2>1, <2>2, SmallMod
  <2> QED BY <1>6, <1>8, <2>2, <2>3
<1>18. rbase[d] = 0 /\ rmsgs[d][0].seq = 0 => n # 0
  <2> SUFFICES ASSUME base = 0, rmsgs[d][0].seq = 0, n = 0 PROVE FALSE
    BY <1>6
  <2>1. ms[0].seq = 0
    BY <1>7
  <2>2. ms[0].seq # 0 % SEQ_MOD
    <3>1. n < size /\ n = 0 /\ base + n = 0
      BY <1>7, <1>8
    <3>2. ms[n].seq # (base + n) % SEQ_MOD
      BY <1>9, <3>1 DEF IsRun
    <3> QED BY <3>1, <3>2
  <2> QED BY <1>3, <2>1, <2>2, ZeroMod
<1>19. Takes(S, d, n, run, kept)
  BY <1>2, <1>3, <1>10, <1>11, <1>13, <1>15, <1>16, <1>17, <1>18 DEF Takes, LostOf
<1> QED BY <1>1, <1>19

LEMMA DataOfConcat ==
  ASSUME NEW a \in Seq(Msg), NEW b \in Seq(Msg)
  PROVE  DataOf(a \o b) = DataOf(a) \o DataOf(b)
<1>1. PICK c : c = a \o b
  OBVIOUS
<1>2. c \in Seq(Msg) /\ Len(c) = Len(a) + Len(b) /\ Len(a) \in Nat /\ Len(b) \in Nat
  BY <1>1, ConcatProperties
<1>3. PICK l : l = DataOf(c)
  OBVIOUS
<1>4. PICK x : x = DataOf(a)
  OBVIOUS
<1>5. PICK y : y = DataOf(b)
  OBVIOUS
<1>6. /\ l \in Seq(Data) /\ Len(l) = Len(a) + Len(b)
      /\ x \in Seq(Data) /\ Len(x) = Len(a)
      /\ y \in Seq(Data) /\ Len(y) = Len(b)
  BY <1>2, <1>3, <1>4, <1>5, DataOfType
<1>7. PICK r : r = x \o y
  OBVIOUS
<1>8. r \in Seq(Data) /\ Len(r) = Len(a) + Len(b)
  <2>1. r \in Seq(Data) /\ Len(r) = Len(x) + Len(y)
    BY <1>6, <1>7, ConcatProperties
  <2> QED BY <1>6, <2>1
<1>9. ASSUME NEW k \in 1 .. Len(a) + Len(b) PROVE l[k] = r[k]
  <2>1. l[k] = c[k].data
    BY <1>2, <1>3 DEF DataOf
  <2>2. CASE k <= Len(a)
    <3>1. c[k] = a[k] /\ r[k] = x[k] /\ k \in 1 .. Len(a)
      BY <1>1, <1>2, <1>6, <1>7, <2>2
    <3>2. x[k] = a[k].data
      BY <1>4, <3>1 DEF DataOf
    <3> QED BY <2>1, <3>1, <3>2
  <2>3. CASE k > Len(a)
    <3>1. PICK j : j = k - Len(a)
      OBVIOUS
    <3>2. j \in 1 .. Len(b)
      BY <1>2, <2>3, <3>1
    <3>3. c[k] = b[j] /\ r[k] = y[j]
      BY <1>1, <1>2, <1>6, <1>7, <2>3, <3>1
    <3>4. y[j] = b[j].data
      BY <1>5, <3>2 DEF DataOf
    <3> QED BY <2>1, <3>3, <3>4
  <2> QED BY <1>2, <2>2, <2>3
<1>10. l = r
  BY <1>6, <1>8, <1>9, SeqEqual
<1> QED BY <1>1, <1>3, <1>4, <1>5, <1>7, <1>10

(* The next n numbers, of which the front part is handed out and the rest  *)
(* lost, continue an exact delivery.                                       *)
Expected(run, n, b) ==
  \A k \in 1 .. n : /\ Position(run[k].data) = b + k
                    /\ run[k].data = NoData \/ run[k].data[1] = "user1"
FrontOf(t, run, kept) == Len(t) = kept /\ \A k \in 1 .. kept : t[k] = run[k].data

LEMMA MoreDelivered ==
  ASSUME NEW h \in Seq(Data), NEW lost, NEW b \in Nat, DeliveredAs(h, lost, b),
         NEW n \in Nat, NEW kept \in 0 .. n, NEW run, Expected(run, n, b),
         NEW t \in Seq(Data), FrontOf(t, run, kept)
  PROVE  DeliveredAs(h \o t, lost \cup LostOf(run, kept, n), b + n)
<1>1. PICK g : g = h \o t
  OBVIOUS
<1>2. PICK L \in Nat : L = Len(h)
  OBVIOUS
<1>3. g \in Seq(Data) /\ Len(g) = L + kept /\ DOMAIN h = 1 .. L
  <2>1. g \in Seq(Data) /\ Len(g) = Len(h) + Len(t)
    BY <1>1, ConcatProperties
  <2>2. Len(t) = kept
    BY DEF FrontOf
  <2> QED BY <1>2, <2>1, <2>2, LenProperties
<1>4. DOMAIN g = 1 .. L + kept
  BY <1>3
<1>5. \A k \in 1 .. L : g[k] = h[k]
  BY <1>1, <1>2
<1>6. \A j \in 1 .. kept : g[L + j] = run[j].data
  <2> SUFFICES ASSUME NEW j \in 1 .. kept PROVE g[L + j] = run[j].data
    OBVIOUS
  <2>1. t[j] = run[j].data /\ Len(t) = kept
    BY DEF FrontOf
  <2>2. g[L + j] = t[j]
    BY <1>1, <1>2, <2>1
  <2> QED BY <2>1, <2>2
<1>7. \A j \in 1 .. n : /\ Position(run[j].data) = b + j
                        /\ run[j].data = NoData \/ run[j].data[1] = "user1"
  BY DEF Expected
<1>8. /\ \A k \in 1 .. L : h[k] = NoData \/ h[k][1] = "user1"
      /\ \A k \in 1 .. L : \A l \in 1 .. k - 1 : Position(h[l]) < Position(h[k])
      /\ {Position(h[k]) : k \in 1 .. L} \cup {Position(x) : x \in lost} = 1 .. b
  BY <1>3 DEF DeliveredAs
<1>9. \A k \in 1 .. L + kept :
        \/ k \in 1 .. L /\ g[k] = h[k] /\ Position(g[k]) \in 1 .. b
        \/ \E j \in 1 .. kept : k = L + j /\ g[k] = run[j].data /\ Position(g[k]) = b + j
  <2> SUFFICES ASSUME NEW k \in 1 .. L + kept
               PROVE \/ k \in 1 .. L /\ g[k] = h[k] /\ Position(g[k]) \in 1 .. b
                     \/ \E j \in 1 .. kept : /\ k = L + j /\ g[k] = run[j].data
                                             /\ Position(g[k]) = b + j
    OBVIOUS
  <2>1. CASE k \in 1 .. L
    <3>1. g[k] = h[k]
      BY <1>5, <2>1
    <3>2. Position(h[k]) \in 1 .. b
      BY <1>8, <2>1
    <3> QED BY <2>1, <3>1, <3>2
  <2>2. CASE k \notin 1 .. L
    <3>1. PICK j : j = k - L
      OBVIOUS
    <3>2. j \in 1 .. kept /\ k = L + j /\ j \in 1 .. n
      BY <2>2, <3>1
    <3> QED BY <1>6, <1>7, <3>2
  <2> QED BY <2>1, <2>2
<1>10. \A k \in 1 .. L + kept : g[k] = NoData \/ g[k][1] = "user1"
  <2> SUFFICES ASSUME NEW k \in 1 .. L + kept PROVE g[k] = NoData \/ g[k][1] = "user1"
    OBVIOUS
  <2>1. CASE k \in 1 .. L /\ g[k] = h[k]
    BY <1>8, <2>1
  <2>2. CASE \E j \in 1 .. kept : g[k] = run[j].data
    BY <1>7, <2>2
  <2> QED BY <1>9, <2>1, <2>2
<1>11. \A k \in 1 .. L + kept : \A l \in 1 .. k - 1 : Position(g[l]) < Position(g[k])
  <2> SUFFICES ASSUME NEW k \in 1 .. L + kept, NEW l \in 1 .. k - 1
               PROVE  Position(g[l]) < Position(g[k])
    OBVIOUS
  <2>0. l \in 1 .. L + kept
    OBVIOUS
  <2>1. CASE k \in 1 .. L
    <3>1. l \in 1 .. L
      BY <2>1
    <3> QED BY <1>5, <1>8, <2>1, <3>1
  <2>2. CASE k \notin 1 .. L
    <3>1. PICK j \in 1 .. kept : k = L + j /\ Position(g[k]) = b + j
      BY <1>9, <2>2
    <3>2. CASE l \in 1 .. L /\ Position(g[l]) \in 1 .. b
      BY <3>1, <3>2
    <3>3. CASE \E j2 \in 1 .. kept : l = L + j2 /\ Position(g[l]) = b + j2
      <4>1. PICK j2 \in 1 .. kept : l = L + j2 /\ Position(g[l]) = b + j2
        BY <3>3
      <4> QED BY <3>1, <4>1
    <3> QED BY <1>9, <2>0, <3>2, <3>3
  <2> QED BY <2>1, <2>2
<1>12. PICK gone : gone = {run[k].data : k \in kept + 1 .. n}
  OBVIOUS
<1>13. PICK P : P = {Position(g[k]) : k \in 1 .. L + kept}
  OBVIOUS
<1>14. PICK Q : Q = {Position(x) : x \in lost \cup gone}
  OBVIOUS
<1>15. P \cup Q \subseteq 1 .. b + n
  <2>1. ASSUME NEW y \in P PROVE y \in 1 .. b + n
    <3>1. PICK k \in 1 .. L + kept : y = Position(g[k])
      BY <1>13
    <3>2. CASE Position(g[k]) \in 1 .. b
      BY <3>1, <3>2
    <3>3. CASE \E j \in 1 .. kept : Position(g[k]) = b + j
      BY <3>1, <3>3
    <3> QED BY <1>9, <3>1, <3>2, <3>3
  <2>2. ASSUME NEW y \in Q PROVE y \in 1 .. b + n
    <3>1. PICK x \in lost \cup gone : y = Position(x)
      BY <1>14
    <3>2. CASE x \in lost
      <4>1. Position(x) \in 1 .. b
        BY <1>8, <3>2
      <4> QED BY <3>1, <4>1
    <3>3. CASE x \in gone
      <4>1. PICK k \in kept + 1 .. n : x = run[k].data
        BY <1>12, <3>3
      <4>2. k \in 1 .. n
        OBVIOUS
      <4>3. Position(x) = b + k
        BY <1>7, <4>1, <4>2
      <4> QED BY <3>1, <4>2, <4>3
    <3> QED BY <3>2, <3>3
  <2> QED BY <2>1, <2>2
<1>16. 1 .. b + n \subseteq P \cup Q
  <2> SUFFICES ASSUME NEW y \in 1 .. b + n PROVE y \in P \cup Q
    OBVIOUS
  <2>1. CASE y \in 1 .. b
    <3>1. CASE \E k \in 1 .. L : y = Position(h[k])
      <4>1. PICK k \in 1 .. L : y = Position(h[k])
        BY <3>1
      <4>2. k \in 1 .. L + kept /\ g[k] = h[k]
        BY <1>5
      <4> QED BY <1>13, <4>1, <4>2
    <3>2. CASE \E x \in lost : y = Position(x)
      BY <1>14, <3>2
    <3> QED BY <1>8, <2>1, <3>1, <3>2
  <2>2. CASE y \notin 1 .. b
    <3>1. PICK j : j = y - b
      OBVIOUS
    <3>2. j \in 1 .. n /\ y = b + j
      BY <2>2, <3>1
    <3>3. Position(run[j].data) = y
      BY <1>7, <3>2
    <3>4. CASE j <= kept
      <4>1. j \in 1 .. kept /\ L + j \in 1 .. L + kept
        BY <3>2, <3>4
      <4>2. g[L + j] = run[j].data
        BY <1>6, <4>1
      <4> QED BY <1>13, <3>3, <4>1, <4>2
    <3>5. CASE j > kept
      <4>1. run[j].data \in gone
        BY <1>12, <3>2, <3>5
      <4> QED BY <1>14, <3>3, <4>1
    <3> QED BY <3>2, <3>4, <3>5
  <2> QED BY <2>1, <2>2
<1>17. DeliveredAs(g, lost \cup gone, b + n)
  <2>1. P \cup Q = 1 .. b + n
    BY <1>15, <1>16
  <2> QED BY <1>4, <1>10, <1>11, <1>13, <1>14, <2>1 DEF DeliveredAs
<1> QED BY <1>1, <1>12, <1>17 DEF LostOf

LEMMA OneBefore ==
  ASSUME NEW M \in Nat \ {0}, NEW x \in 1 .. M - 1
  PROVE  (x + M - 1) % M = x - 1
<1>1. PICK y : y = x + M - 1
  OBVIOUS
<1>2. y \in Int /\ x - 1 \in 0 .. M - 1 /\ M * 1 + (x - 1) = y
  BY <1>1
<1>3. y = M * (y \div M) + (y % M) /\ y % M \in 0 .. M - 1 /\ y \div M \in Int
  BY <1>2, DivMod
<1>4. 1 \in Int /\ M * 1 + (x - 1) = M * (y \div M) + (y % M)
  BY <1>2, <1>3
<1>5. x - 1 = y % M
  BY <1>2, <1>3, <1>4, UniqueRemainder
<1> QED BY <1>1, <1>5

(* The messages of the run stand for the expected numbers: its elements    *)
(* are what user1 queued, or zeroed memory in the place of the first.      *)
LEMMA RunExpected ==
  ASSUME KTPInv, NEW b \in Nat, NEW n \in Nat, NEW run,
         \A k \in 1 .. n : run[k] \in Lying(1) /\ run[k].seq = b + k - 1
  PROVE  Expected(run, n, b)
<1> SUFFICES ASSUME NEW k \in 1 .. n
             PROVE  /\ Position(run[k].data) = b + k
                    /\ run[k].data = NoData \/ run[k].data[1] = "user1"
  BY DEF Expected
<1>1. PICK m : m = run[k]
  OBVIOUS
<1>2. m \in Lying(1) /\ m.seq = b + k - 1
  BY <1>1
<1>3. CASE m = Zeroed
  <2>1. m.seq = 0 /\ m.data = NoData
    BY <1>3 DEF Zeroed
  <2>2. b + k = 1
    BY <1>2, <2>1
  <2> QED BY <1>1, <2>1, <2>2 DEF Position
<1>4. CASE m \in Own(1)
  <2>1. PICK j \in 1 .. queued["user1"] : m = Numbered("user1", j)
    BY <1>4 DEF Own, Owner
  <2>2. queued["user1"] \in Nat
    BY DEF KTPInv, TypeOK, UserType
  <2>3. m.seq = j - 1 /\ m.data = <<"user1", 1, j>>
    BY <2>1 DEF Numbered
  <2>4. j = b + k
    BY <1>2, <2>1, <2>2, <2>3
  <2>5. m.data # NoData /\ m.data[1] = "user1" /\ m.data[3] = j
    BY <2>3 DEF NoData
  <2> QED BY <1>1, <2>4, <2>5 DEF Position
<1> QED BY <1>2, <1>3, <1>4 DEF Lying

LEMMA LyingMsg ==
  ASSUME KTPInv, Documented, NEW i \in Sockets
  PROVE  Lying(i) \subseteq Msg
<1>1. Zeroed \in Msg
  BY KTPAssumption DEF Zeroed, Msg, Data, Seqs
<1> QED BY <1>1, OwnNumber DEF Lying

LEMMA TakenExact ==
  ASSUME KTPInv, Documented, DeliveryExact, fd["user2"] # NoSock,
         NEW n \in Nat, NEW run, NEW kept, Takes(Lying(1), 0, n, run, kept),
         fd'["user2"] = fd["user2"], got'["user2"] = got["user2"]
  PROVE  DeliveryExact'
<1>1. fd["user2"] = 0
  BY DEF KTPInv, StreamInv, Homes, Home
<1>2. /\ got["user2"] \in Seq(Data) /\ recv_buffer[0] \in Seq(Msg) /\ rbase[0] \in Nat
  BY DEF KTPInv, TypeOK, UserType, RecvType, Seqs
<1>3. /\ run \in Seq(Lying(1)) /\ Len(run) = n /\ kept \in 0 .. n
      /\ \A k \in 1 .. n : run[k].seq = rbase[0] + k - 1
      /\ rbase'[0] = rbase[0] + n
      /\ recv_buffer'[0] = recv_buffer[0] \o SubSeq(run, 1, kept)
      /\ discarded'[0] = discarded[0] \cup LostOf(run, kept, n)
  BY DEF Takes
<1>4. PICK front : front = SubSeq(run, 1, kept)
  OBVIOUS
<1>5. /\ front \in Seq(Lying(1)) /\ Len(front) = kept
      /\ \A k \in 1 .. kept : front[k] = run[k]
  BY <1>3, <1>4
<1>6. front \in Seq(Msg)
  BY <1>5, LyingMsg, WiderSeq
<1>7. PICK t : t = DataOf(front)
  OBVIOUS
<1>8. t \in Seq(Data) /\ FrontOf(t, run, kept)
  <2>1. t \in Seq(Data) /\ Len(t) = kept
    BY <1>5, <1>6, <1>7, DataOfType
  <2>2. \A k \in 1 .. kept : t[k] = run[k].data
    BY <1>5, <1>7 DEF DataOf
  <2> QED BY <2>1, <2>2 DEF FrontOf
<1>9. PICK x : x = DataOf(recv_buffer[0])
  OBVIOUS
<1>10. PICK g \in Seq(Data) : g = got["user2"]
  BY <1>2
<1>11. x \in Seq(Data)
  BY <1>2, <1>9, DataOfType
<1>12. PICK h : h = g \o x
  OBVIOUS
<1>13. h \in Seq(Data) /\ h = Handed("user2")
  BY <1>1, <1>9, <1>10, <1>11, <1>12, ConcatProperties DEF Handed, DataOf
<1>14. Handed("user2")' = h \o t
  <2>1. Handed("user2")' = got["user2"] \o DataOf(recv_buffer[0] \o front)
    BY <1>1, <1>3, <1>4 DEF Handed, DataOf
  <2>2. DataOf(recv_buffer[0] \o front) = x \o t
    BY <1>2, <1>6, <1>7, <1>9, DataOfConcat
  <2>3. (g \o x) \o t = g \o (x \o t)
    <3>1. t \in Seq(Data) /\ x \in Seq(Data) /\ g \in Seq(Data)
      BY <1>8, <1>11
    <3> QED BY ONLY SMTT(30), <3>1, ConcatAssociative
  <2> QED BY <1>10, <1>12, <2>1, <2>2, <2>3
<1>15. DeliveredAs(h, discarded[0], rbase[0])
  BY <1>1, <1>13, DeliveryAt0
<1>16. Expected(run, n, rbase[0])
  <2>1. \A k \in 1 .. n : run[k] \in Lying(1)
    BY <1>3
  <2> QED BY <1>2, <1>3, <2>1, RunExpected
<1>17. DeliveredAs(h \o t, discarded[0] \cup LostOf(run, kept, n), rbase[0] + n)
  <2>1. PICK lost : lost = discarded[0]
    OBVIOUS
  <2>2. PICK b \in Nat : b = rbase[0]
    BY <1>2
  <2>3. DeliveredAs(h, lost, b) /\ Expected(run, n, b)
    BY <1>15, <1>16, <2>1, <2>2
  <2>4. h \in Seq(Data) /\ t \in Seq(Data) /\ FrontOf(t, run, kept) /\ kept \in 0 .. n
    BY <1>3, <1>8, <1>13
  <2>5. DeliveredAs(h \o t, lost \cup LostOf(run, kept, n), b + n)
    BY ONLY <2>3, <2>4, b \in Nat, n \in Nat, MoreDelivered
  <2> QED BY <2>1, <2>2, <2>5
<1> QED BY <1>1, <1>3, <1>14, <1>17, DeliveryAt0

(* What thread_r answers: the number just below its window.                *)
LEMMA AnswerAcks ==
  ASSUME KTPInv, NEW a, a \in Packet, a.type = "ACK",
         fd'["user1"] # NoSock => fd["user1"] # NoSock,
         fd'["user2"] # NoSock => fd["user2"] # NoSock,
         swnd_base' = swnd_base, net[1] # <<>>, net'[1] = Enqueue(Tail(net[1]), a),
         rbase[0] <= rbase'[0], rbase'[0] \in 1 .. SEQ_MOD - 1,
         a.msg.seq = (rbase'[0] + SEQ_MOD - 1) % SEQ_MOD
  PROVE  AcksRight'
<1> USE KTPAssumption
<1> SUFFICES ASSUME fd'["user1"] # NoSock, fd'["user2"] # NoSock PROVE AcksRight'
  BY DEF AcksRight
<1>1. swnd_base[1] <= rbase[0] /\ net[1] \in Seq(Timely)
  BY DEF KTPInv, StreamInv, AcksRight
<1>2. swnd_base[1] \in Nat /\ rbase[0] \in Nat
  BY DEF KTPInv, TypeOK, SendType, RecvType, Seqs
<1>3. a.msg.seq = rbase'[0] - 1
  BY OneBefore
<1>4. \A x \in Packet : x.msg.seq \in Nat
  BY DEF Packet, Msg, Seqs
<1>5. Timely \subseteq Timely' /\ a \in Timely'
  BY SMTT(30), <1>2, <1>3, <1>4 DEF Timely
<1>6. Tail(net[1]) \in Seq(Timely)
  BY <1>1, TailOf
<1>7. net'[1] \in Seq(Timely')
  <2>1. PICK T : T = Timely'
    OBVIOUS
  <2>2. PICK q : q = Tail(net[1])
    OBVIOUS
  <2>3. q \in Seq(T) /\ a \in T
    BY <1>5, <1>6, <2>1, <2>2, WiderSeq
  <2>4. Enqueue(q, a) \in Seq(T)
    BY ONLY <2>3, EnqueueOne
  <2> QED BY <2>1, <2>2, <2>4
<1> QED BY <1>1, <1>2, <1>7 DEF AcksRight

LEMMA DataStep ==
  ASSUME KTPInv, Documented, NEW i \in Sockets, R_Data(i)
  PROVE  StreamInv'
<1> USE KTPAssumption
<1>1. PICK p : p = Head(net[i])
  OBVIOUS
<1>2. PICK d : d = dest_sockfd(p)
  OBVIOUS
<1>3. PICK m : m = p.msg
  OBVIOUS
<1>4. /\ net[i] # <<>> /\ p.type = "DATA"
      /\ Acknowledge(i, p, rbase'[d])
      /\ UNCHANGED <<slots, sender, threadS, users>>
  BY <1>1, <1>2 DEF R_Data, Readable
<1>5. p \in Fitting(i) /\ Tail(net[i]) \in Seq(Fitting(i))
  BY <1>1, <1>4, SendFacts, TailOf
<1>6. p.from = i /\ d = Far(i) /\ d \in Sockets /\ d # i /\ m \in Own(i) /\ p \in Packet
  BY <1>2, <1>3, <1>4, <1>5 DEF Fitting, dest_sockfd, Far
<1>7. /\ Homes /\ Untouched /\ AcksRight /\ DeliveryExact /\ \A k \in Sockets : Flow(k)
      /\ net \in [Sockets -> Seq(Packet)]
      /\ \A k \in Sockets : rbase[k] \in Nat
      /\ swnd_base[1] \in Nat /\ m.seq \in Nat
  <2>1. m.seq \in Nat
    BY <1>6, OwnNumber
  <2>2. \A k \in Sockets : rbase[k] \in Nat
    BY DEF KTPInv, TypeOK, RecvType, Seqs
  <2>3. swnd_base[1] \in Nat
    BY DEF KTPInv, TypeOK, SendType, Seqs
  <2> QED BY <2>1, <2>2, <2>3 DEF KTPInv, StreamInv, TypeOK, NetType
<1>8. rbase'[d] \in Seqs
  <2>1. TypeOK'
    <3>1. Next
      BY DEF Next, thread_r
    <3> QED BY <3>1, NextTypeOK DEF KTPInv
  <2> QED BY <1>6, <2>1 DEF TypeOK, RecvType
<1>9. PICK a : a = [type |-> "ACK", from |-> i,
                    msg  |-> [seq |-> (rbase'[d] + SEQ_MOD - 1) % SEQ_MOD, data |-> NoData]]
  OBVIOUS
<1>10. a \in Packet /\ a \in Fitting(i) /\ a.type = "ACK"
       /\ a.msg.seq = (rbase'[d] + SEQ_MOD - 1) % SEQ_MOD
  <2>1. (rbase'[d] + SEQ_MOD - 1) % SEQ_MOD \in Seqs
    BY <1>8 DEF Seqs
  <2>2. a \in Packet
    BY <1>9, <2>1 DEF Packet, Msg, Data
  <2> QED BY <1>9, <2>2 DEF Fitting
<1>11. net'[i] = Enqueue(Tail(net[i]), a) /\ \A k \in Sockets \ {i} : net'[k] = net[k]
  BY <1>4, <1>6, <1>7, <1>9 DEF Acknowledge
<1>12. \A k \in Sockets : net'[k] \in Seq(Fitting(k))
  <2> SUFFICES ASSUME NEW k \in Sockets PROVE net'[k] \in Seq(Fitting(k))
    OBVIOUS
  <2>1. CASE k = i
    <3>1. PICK q : q = Tail(net[i])
      OBVIOUS
    <3>2. PICK S : S = Fitting(i)
      OBVIOUS
    <3>3. q \in Seq(S) /\ a \in S
      BY <1>5, <1>10, <3>1, <3>2
    <3>4. Enqueue(q, a) \in Seq(S)
      BY ONLY <3>3, EnqueueOne
    <3> QED BY <1>11, <2>1, <3>1, <3>2, <3>4
  <2>2. CASE k # i
    BY <1>11, <2>2, SendFacts
  <2> QED BY <2>1, <2>2
<1>13. sessions["user1"] = 0 => net'[1] = <<>> /\ i # 1
  BY <1>4, <1>7, <1>11 DEF Untouched
<1>14. ASSUME i = 1, fd'["user1"] # NoSock, fd'["user2"] # NoSock
       PROVE  /\ swnd_base[1] <= rbase[0] /\ m.seq < swnd_base[1] + WINDOW_SIZE
              /\ rbase[0] = 0 => rmsgs[0][0].seq = 0
  <2>1. /\ swnd_base[1] <= rbase[0] /\ net[1] \in Seq(Timely)
        /\ rbase[0] = 0 => rmsgs[0][0].seq = 0
    BY <1>4, <1>7, <1>14 DEF AcksRight, users
  <2>2. p \in Timely
    BY <1>1, <1>4, <1>14, <2>1, TailOf
  <2> QED BY <1>3, <1>4, <2>1, <2>2 DEF Timely
<1>15. ASSUME i = 1, fd'["user1"] # NoSock, fd'["user2"] # NoSock,
              rbase[0] <= rbase'[0], rbase'[0] # 0
       PROVE  AcksRight'
  <2>1. d = 0 /\ net'[1] = Enqueue(Tail(net[1]), a) /\ net[1] # <<>>
    BY <1>4, <1>6, <1>11, <1>15 DEF Far
  <2>2. rbase'[0] \in 1 .. SEQ_MOD - 1
    BY <1>8, <1>15, <2>1 DEF Seqs
  <2>3. fd' = fd /\ swnd_base' = swnd_base
    BY <1>4 DEF users, sender
  <2> QED BY <1>10, <1>15, <2>1, <2>2, <2>3, AnswerAcks
<1>16. CASE ~InWindow(d, m)
  <2>1. UNCHANGED recver
    BY <1>1, <1>2, <1>3, <1>16 DEF R_Data
  <2>2. AcksRight'
    <3> SUFFICES ASSUME fd'["user1"] # NoSock, fd'["user2"] # NoSock PROVE AcksRight'
      BY DEF AcksRight
    <3>1. CASE i = 0
      BY <1>4, <1>7, <1>11, <2>1, <3>1, SameAcks DEF recver, sender, users
    <3>2. CASE i = 1
      <4>1. d = 0 /\ rbase' = rbase
        BY <1>6, <2>1, <3>2 DEF Far, recver
      <4>2. rbase[0] # 0
        BY <1>7, <1>14, <1>16, <3>2, <4>1 DEF InWindow
      <4> QED BY <1>7, <1>15, <3>2, <4>1, <4>2
    <3> QED BY <3>1, <3>2
  <2> QED BY <1>4, <1>12, <1>13, <2>1, <2>2, SendFacts, OnlySending DEF sender
<1>17. CASE InWindow(d, m)
  <2>1. PICK n \in 0 .. StoredSize(d, m) :
          /\ IsRun(Stored(d, m), StoredSize(d, m), rbase[d], n)
          /\ Deliver(d, Stored(d, m), StoredSize(d, m), n)
    BY <1>1, <1>2, <1>3, <1>17 DEF R_Data
  <2>2. PICK run, kept : Takes(Lying(i), d, n, run, kept)
    BY <1>6, <1>17, <2>1, RunTaken
  <2>3. \A k \in Sockets \ {d} :
          /\ rmsgs'[k] = rmsgs[k] /\ rsize'[k] = rsize[k] /\ rbase'[k] = rbase[k]
          /\ recv_buffer'[k] = recv_buffer[k] /\ discarded'[k] = discarded[k]
    BY <1>6, <2>1 DEF Deliver, KTPInv, TypeOK, RecvType
  <2>4. \A k \in Sockets : Own(k)' = Own(k) /\ Lying(k)' = Lying(k) /\ Fitting(k)' = Fitting(k)
    <3>1. queued' = queued
      BY <1>4 DEF users
    <3>2. \A k \in Sockets : Own(k)' = Own(k)
      BY <3>1 DEF Own
    <3> QED BY <3>2 DEF Lying, Fitting
  <2>5. Flow(i)'
    <3>1. recv_buffer'[d] \in Seq(Lying(i))
      <4>1. /\ run \in Seq(Lying(i)) /\ kept \in 0 .. Len(run)
            /\ recv_buffer'[d] = recv_buffer[d] \o SubSeq(run, 1, kept)
        BY <2>2 DEF Takes
      <4>2. SubSeq(run, 1, kept) \in Seq(Lying(i))
        BY <4>1
      <4>3. recv_buffer[d] \in Seq(Lying(i))
        BY <1>6, <1>7 DEF Flow
      <4> QED BY <4>1, <4>2, <4>3, ConcatProperties
    <3>2. rmsgs'[d] \in [0 .. WINDOW_SIZE - 1 -> Lying(i)]
      BY <2>2 DEF Takes
    <3>3. rbase'[i] + rsize'[i] < SEQ_MOD
      BY <1>6, <1>7, <2>3 DEF Flow
    <3> QED BY <1>4, <1>6, <1>12, <2>4, <3>1, <3>2, <3>3, SendFacts DEF Flow, sender
  <2>6. Flow(d)'
    <3>1. rbase'[d] + rsize'[d] < SEQ_MOD
      BY <2>2 DEF Takes
    <3>2. /\ rmsgs'[Far(d)] = rmsgs[Far(d)] /\ recv_buffer'[Far(d)] = recv_buffer[Far(d)]
      BY <1>6, <2>3 DEF Far
    <3>3. /\ rmsgs[Far(d)] \in [0 .. WINDOW_SIZE - 1 -> Lying(d)]
          /\ recv_buffer[Far(d)] \in Seq(Lying(d))
      BY <1>6, <1>7 DEF Flow
    <3> QED BY <1>4, <1>6, <1>12, <2>4, <3>1, <3>2, <3>3, SendFacts DEF Flow, sender
  <2>7. Homes'
    BY <1>4, <1>7, SameHomes DEF slots, users
  <2>8. Untouched'
    <3>1. CASE i = 1
      BY <1>4, <1>13, <3>1 DEF Untouched, users
    <3>2. CASE i = 0
      BY <1>4, <1>6, <1>7, <1>13, <2>3, <3>2 DEF Untouched, users, Far
    <3> QED BY <3>1, <3>2
  <2>9. AcksRight'
    <3> SUFFICES ASSUME fd'["user1"] # NoSock, fd'["user2"] # NoSock PROVE AcksRight'
      BY DEF AcksRight
    <3>1. CASE i = 0
      BY <1>4, <1>6, <1>7, <1>11, <2>3, <3>1, SameAcks DEF sender, users, Far
    <3>2. CASE i = 1
      <4>1. d = 0
        BY <1>6, <3>2 DEF Far
      <4>2. rbase'[0] = rbase[0] + n /\ (rbase[0] = 0 /\ rmsgs[0][0].seq = 0 => n # 0)
        BY <2>2, <4>1 DEF Takes
      <4>3. n \in Nat /\ rbase[0] \in Nat
        <5>1. run \in Seq(Lying(i)) /\ Len(run) = n
          BY <2>2 DEF Takes
        <5> QED BY <1>7, <5>1
      <4>4. rbase[0] <= rbase'[0] /\ rbase'[0] # 0
        BY <1>14, <3>2, <4>2, <4>3
      <4> QED BY <1>15, <3>2, <4>4
    <3> QED BY <3>1, <3>2
  <2>10. DeliveryExact'
    <3> SUFFICES ASSUME fd'["user2"] # NoSock PROVE DeliveryExact'
      BY DEF DeliveryExact
    <3>1. CASE i = 0
      BY <1>4, <1>6, <1>7, <2>3, <3>1, SameDelivery DEF users, Far
    <3>2. CASE i = 1
      <4>1. d = 0 /\ fd' = fd /\ got' = got
        BY <1>4, <1>6, <3>2 DEF Far, users
      <4>2. n \in Nat
        <5>1. run \in Seq(Lying(i)) /\ Len(run) = n
          BY <2>2 DEF Takes
        <5> QED BY <5>1
      <4>3. Takes(Lying(1), 0, n, run, kept)
        BY <2>2, <3>2, <4>1
      <4> QED BY <1>7, <4>1, <4>2, <4>3, TakenExact
    <3> QED BY <3>1, <3>2
  <2>11. \A k \in Sockets : Flow(k)'
    BY <1>6, <2>5, <2>6 DEF Far
  <2> QED BY <2>7, <2>8, <2>9, <2>10, <2>11 DEF StreamInv
<1> QED BY <1>16, <1>17

(* Every step keeps the whole invariant.                                   *)
LEMMA NextStream ==
  ASSUME Documented, KTPInv, [Next]_vars
  PROVE  KTPInv'
<1>1. TypeOK' /\ BuffersBounded' /\ SendInv'
  BY NextTypeOK, NextOneOwner, NextFreeSlotsEmpty, NextSendSide DEF KTPInv, SendInv
<1> SUFFICES StreamInv'
  BY <1>1 DEF KTPInv
<1>2. CASE UNCHANGED vars
  BY <1>2, QuietStep DEF vars
<1>3. CASE S_Visit \/ S_SendDone \/ S_NotDue \/ S_PassDone
  <2>1. UNCHANGED <<slots, sender, recver, net, users>>
    BY <1>3 DEF S_Visit, S_SendDone, S_NotDue, S_PassDone
  <2> QED BY <2>1, QuietStep
<1>4. CASE S_Send \/ S_Resend
  BY <1>4, TransmitStep, ResendStep
<1>5. CASE \E u \in Users : Open(u) \/ k_sendto(u) \/ k_recvfrom(u) \/ Close(u) \/ Crash(u)
  BY <1>5, OpenStep, SendtoStep, RecvfromStep, CloseStep, CrashStep
<1>6. CASE \E i \in Sockets : Collect(i) \/ thread_r(i) \/ dropMessage(i)
  BY <1>6, CollectStep, DropStep, AckStep, DataStep DEF thread_r
<1> QED BY <1>2, <1>3, <1>4, <1>5, <1>6 DEF Next, thread_s

LEMMA StreamInvariant == ASSUME Documented PROVE Spec => []KTPInv
<1>1. Init => KTPInv
  BY InitTypeOK, InitBounded, InitSendInv, InitStream DEF KTPInv
<1>2. KTPInv /\ [Next]_vars => KTPInv'
  BY NextStream
<1> QED BY <1>1, <1>2, PTL DEF Spec

(* What the receiving program is handed is exactly what its peer sent, in  *)
(* order and none twice, but for the messages that found recv_buffer full. *)
THEOREM Delivery == ASSUME Documented PROVE Spec => []DeliveryExact
<1>1. KTPInv => DeliveryExact
  BY DEF KTPInv, StreamInv
<1> QED BY <1>1, StreamInvariant, PTL

(* The sender's window never moves past the receiver's: k_sendto and       *)
(* thread_r forget nothing that the peer's window has not taken.           *)
THEOREM AckedReceived == ASSUME Documented PROVE Spec => []AckedWasReceived
<1>1. KTPInv => AckedWasReceived
  <2> SUFFICES ASSUME KTPInv, Paired
               PROVE  swnd_base[fd["user1"]] <= rbase[fd["user2"]]
    BY DEF AckedWasReceived
  <2>1. fd["user1"] # NoSock /\ fd["user2"] # NoSock
    BY DEF Paired
  <2>2. fd["user1"] = 1 /\ fd["user2"] = 0
    BY <2>1 DEF KTPInv, StreamInv, Homes, Home
  <2> QED BY <2>1, <2>2 DEF KTPInv, StreamInv, AcksRight
<1> QED BY <1>1, StreamInvariant, PTL
-----------------------------------------------------------------------------
(* The two windows meet: the receiver's begins among the messages that the *)
(* sender keeps, or right behind them.  SentTop is how many messages of    *)
(* user1 were sent at least once; nothing above comes to user2 or lies in  *)
(* its window.                                                             *)
SentTop   == queued["user1"] - Len(send_buffer[1])
SentOnce  == {p \in Packet : p.type = "DATA" => p.msg.seq < SentTop}
BothOpen  == fd["user1"] # NoSock /\ fd["user2"] # NoSock
LiesBelow == \A k \in 0 .. WINDOW_SIZE - 1 : rmsgs[0][k] = Zeroed \/ rmsgs[0][k].seq < SentTop
ComesSent == BothOpen => rbase[0] <= SentTop /\ net[1] \in Seq(SentOnce) /\ LiesBelow

LEMMA InitComes == Init => ComesSent
BY DEF Init, ComesSent, BothOpen

LEMMA SentTypes ==
  ASSUME KTPInv
  PROVE  /\ SentTop \in Int /\ \A p \in Packet : p.msg.seq \in Nat
         /\ rbase[0] \in Nat /\ \A k \in 0 .. WINDOW_SIZE - 1 : rmsgs[0][k].seq \in Nat
         /\ net[1] \in Seq(Packet)
<1>1. send_buffer[1] \in Seq(Msg) /\ queued["user1"] \in Nat
  BY DEF KTPInv, TypeOK, SendType, UserType
<1>2. Len(send_buffer[1]) \in Nat
  BY <1>1
<1>3. \A m \in Msg : m.seq \in Nat
  BY KTPAssumption DEF Msg, Seqs
<1>4. rmsgs[0] \in [0 .. WINDOW_SIZE - 1 -> Msg] /\ rbase[0] \in Nat /\ net[1] \in Seq(Packet)
  BY KTPAssumption DEF KTPInv, TypeOK, RecvType, NetType, Seqs
<1>5. \A p \in Packet : p.msg.seq \in Nat
  BY <1>3 DEF Packet
<1>6. \A k \in 0 .. WINDOW_SIZE - 1 : rmsgs[0][k].seq \in Nat
  BY <1>3, <1>4
<1>7. SentTop \in Int
  BY <1>1, <1>2 DEF SentTop
<1>. QED BY <1>4, <1>5, <1>6, <1>7

(* A step that neither takes a message back nor brings one.                *)
LEMMA SameComes ==
  ASSUME KTPInv, ComesSent, BothOpen' => BothOpen, SentTop' \in Int, SentTop' >= SentTop,
         BothOpen' => /\ rbase'[0] = rbase[0] /\ rmsgs'[0] = rmsgs[0]
                      /\ net'[1] \in Seq(SentOnce')
  PROVE  ComesSent'
<1>. SUFFICES ASSUME BothOpen' PROVE rbase'[0] <= SentTop' /\ LiesBelow'
  BY DEF ComesSent
<1>1. rbase[0] <= SentTop /\ LiesBelow /\ rbase'[0] = rbase[0] /\ rmsgs'[0] = rmsgs[0]
  BY DEF ComesSent
<1>2. rbase'[0] <= SentTop'
  BY <1>1, SentTypes
<1>3. LiesBelow'
  BY <1>1, SentTypes DEF LiesBelow
<1>. QED BY <1>2, <1>3

LEMMA SentGrows ==
  ASSUME KTPInv, SentTop' \in Int, SentTop' >= SentTop
  PROVE  SentOnce \subseteq SentOnce'
BY SentTypes DEF SentOnce

(* Nothing is sent, nothing comes.                                         *)
LEMMA StillComes ==
  ASSUME KTPInv, ComesSent, fd' = fd, SentTop' = SentTop,
         rbase'[0] = rbase[0], rmsgs'[0] = rmsgs[0],
         net'[1] = net[1] \/ (net[1] # <<>> /\ net'[1] = Tail(net[1]))
  PROVE  ComesSent'
<1>. SUFFICES ASSUME BothOpen' PROVE ComesSent'
  BY DEF ComesSent
<1>1. BothOpen
  BY DEF BothOpen
<1>2. SentOnce' = SentOnce
  BY DEF SentOnce
<1>3. net[1] \in Seq(SentOnce)
  BY <1>1 DEF ComesSent
<1>4. net'[1] \in Seq(SentOnce')
  BY <1>2, <1>3, TailOf
<1>5. SentTop' >= SentTop /\ SentTop' \in Int
  BY SentTypes
<1>. QED BY <1>1, <1>4, <1>5, SameComes

(* What thread_s sends from slot 1 it has counted as sent.                 *)
LEMMA PutComes ==
  ASSUME KTPInv, ComesSent, NEW i \in Sockets, NEW m \in Own(i), Documented,
         NEW p, p = [type |-> "DATA", msg |-> m, from |-> i],
         UNCHANGED <<slots, recver, users>>, SentTop' \in Int, SentTop' >= SentTop,
         net' = [net EXCEPT ![dest_addr[i]] = Enqueue(@, p)],
         BothOpen /\ i = 1 => m.seq < SentTop'
  PROVE  ComesSent'
<1>. SUFFICES ASSUME BothOpen PROVE ComesSent'
  BY DEF ComesSent, BothOpen, users
<1>1. net[1] \in Seq(SentOnce)
  BY DEF ComesSent
<1>2. net[1] \in Seq(SentOnce')
  BY <1>1, SentGrows, WiderSeq
<1>3. dest_addr[0] = 0 /\ dest_addr[1] = 1
  BY DEF KTPInv, StreamInv, Homes, Home, BothOpen
<1>4. net'[1] \in Seq(SentOnce')
  <2>1. CASE i = 0
    BY <1>2, <1>3, <2>1 DEF KTPInv, TypeOK, NetType
  <2>2. CASE i = 1
    <3>1. net'[1] = Enqueue(net[1], p)
      BY <1>3, <2>2 DEF KTPInv, TypeOK, NetType
    <3>2. p \in Packet /\ p.msg = m
      BY OwnNumber DEF Packet
    <3>3. p \in SentOnce'
      BY <2>2, <3>2 DEF SentOnce
    <3>. QED BY <1>2, <3>1, <3>3, EnqueueOne
  <2>. QED BY <2>1, <2>2
<1>5. rbase'[0] = rbase[0] /\ rmsgs'[0] = rmsgs[0] /\ (BothOpen' => BothOpen)
  BY DEF recver, users, BothOpen
<1>. QED BY <1>4, <1>5, SameComes

LEMMA SendComes == ASSUME KTPInv, ComesSent, Documented, S_Send PROVE ComesSent'
<1>0. PICK i \in Sockets : i = threadS.sock
  BY DEF KTPInv, TypeOK, ThreadType
<1>1. PICK m : m = Head(send_buffer[i])
  OBVIOUS
<1>2. PICK p : p = [type |-> "DATA", msg |-> m, from |-> i]
  OBVIOUS
<1>3. /\ send_buffer[i] # <<>>
      /\ net' = [net EXCEPT ![dest_addr[i]] = Enqueue(@, p)]
      /\ send_buffer' = [send_buffer EXCEPT ![i] = Tail(@)]
      /\ UNCHANGED <<slots, recver, users>>
  BY <1>0, <1>1, <1>2 DEF S_Send
<1>4. m \in Own(i) /\ send_buffer \in [Sockets -> Seq(Msg)] /\ queued["user1"] \in Nat
  <2>1. m \in Own(i)
    BY <1>1, <1>3, SendFacts, TailOf
  <2>. QED BY <2>1 DEF KTPInv, TypeOK, SendType, UserType
<1>5. queued' = queued
  BY <1>3 DEF users
<1>6. CASE i = 0
  <2>1. send_buffer'[1] = send_buffer[1]
    BY <1>3, <1>4, <1>6
  <2>2. SentTop' = SentTop
    BY <1>5, <2>1 DEF SentTop
  <2>3. SentTop' \in Int /\ SentTop' >= SentTop
    BY <2>2, SentTypes
  <2>4. BothOpen /\ i = 1 => m.seq < SentTop'
    BY <1>6
  <2>. QED BY <1>2, <1>3, <1>4, <2>3, <2>4, PutComes
<1>7. CASE i = 1
  <2>1. PICK q \in Seq(Msg) : q = send_buffer[1]
    BY <1>4
  <2>2. send_buffer'[1] = Tail(q) /\ q # <<>>
    BY <1>3, <1>4, <1>7, <2>1
  <2>3. Len(Tail(q)) = Len(q) - 1 /\ Len(q) \in Nat
    BY <2>2
  <2>4. SentTop = queued["user1"] - Len(q) /\ SentTop' = queued["user1"] - (Len(q) - 1)
    BY <1>5, <2>1, <2>2, <2>3 DEF SentTop
  <2>5. SentTop' = SentTop + 1 /\ SentTop' \in Int /\ SentTop' >= SentTop
    BY <1>4, <2>3, <2>4
  <2>6. ASSUME BothOpen PROVE m.seq < SentTop'
    <3>1. /\ m.seq = swnd_base[1] + Len(swnd[1]) /\ swnd_base[1] \in Nat
          /\ Len(swnd[1]) \in Nat
          /\ swnd_base[1] + Len(swnd[1]) + Len(q) = queued["user1"]
      BY <1>1, <1>3, <1>7, <2>1, <2>6, WindowNumbers DEF BothOpen
    <3>. QED BY SMTT(30), <1>4, <2>3, <2>4, <3>1
  <2>. QED BY <1>2, <1>3, <1>4, <1>7, <2>5, <2>6, PutComes
<1>. QED BY <1>6, <1>7

LEMMA ResendComes == ASSUME KTPInv, ComesSent, Documented, S_Resend PROVE ComesSent'
<1>0. PICK i \in Sockets : i = threadS.sock
  BY DEF KTPInv, TypeOK, ThreadType
<1>1. PICK m : m = swnd[i][threadS.j + 1]
  OBVIOUS
<1>2. PICK p : p = [type |-> "DATA", msg |-> m, from |-> i]
  OBVIOUS
<1>3. /\ threadS.j + threadS.new < Len(swnd[i])
      /\ net' = [net EXCEPT ![dest_addr[i]] = Enqueue(@, p)]
      /\ UNCHANGED <<slots, sender, recver, users>>
  BY <1>0, <1>1, <1>2 DEF S_Resend
<1>4. threadS.j + 1 \in 1 .. Len(swnd[i]) /\ swnd[i] \in Seq(Own(i))
  <2>1. threadS.j \in Nat /\ threadS.new \in Nat
    BY DEF KTPInv, TypeOK, ThreadType
  <2>2. swnd[i] \in Seq(Own(i)) /\ Len(swnd[i]) \in Nat
    BY SendFacts
  <2>3. threadS.j < Len(swnd[i])
    BY <1>3, <2>1, <2>2
  <2>. QED BY ONLY <2>1, <2>2, <2>3
<1>5. m \in Own(i)
  BY <1>1, <1>4
<1>6. SentTop' = SentTop
  BY <1>3 DEF SentTop, sender, users
<1>7. SentTop' \in Int /\ SentTop' >= SentTop
  BY <1>6, SentTypes
<1>8. ASSUME BothOpen, i = 1 PROVE m.seq < SentTop'
  <2>1. PICK k \in 1 .. Len(swnd[1]) : m = swnd[1][k]
    BY <1>1, <1>4, <1>8
  <2>2. /\ m.seq = swnd_base[1] + k - 1 /\ swnd_base[1] \in Nat
        /\ Len(swnd[1]) \in Nat
        /\ swnd_base[1] + Len(swnd[1]) + Len(send_buffer[1]) = queued["user1"]
    BY <1>8, <2>1, WindowNumbers DEF BothOpen
  <2>3. Len(send_buffer[1]) \in Nat
    BY DEF KTPInv, TypeOK, SendType
  <2>4. SentTop = swnd_base[1] + Len(swnd[1])
    BY <2>2, <2>3 DEF SentTop
  <2>. QED BY <1>6, <2>1, <2>2, <2>4
<1>. QED BY <1>2, <1>3, <1>5, <1>7, <1>8, PutComes

(* One message more is queued, and it is not sent.                         *)
LEMMA SendtoComes ==
  ASSUME KTPInv, ComesSent, Documented, NEW v \in Users, k_sendto(v) PROVE ComesSent'
<1>0. PICK i \in Sockets : i = fd[v]
  BY DEF KTPInv, TypeOK, UserType, k_sendto
<1>1. PICK x : x = [seq |-> next_seq[i], data |-> <<v, sessions[v], queued[v] + 1>>]
  OBVIOUS
<1>2. /\ send_buffer' = [send_buffer EXCEPT ![i] = Append(@, x)]
      /\ queued' = [queued EXCEPT ![v] = @ + 1]
      /\ UNCHANGED <<recver, net, fd>>
  BY <1>0, <1>1 DEF k_sendto
<1>3. i = Home(v)
  BY <1>0 DEF KTPInv, StreamInv, Homes, Home
<1>4. send_buffer \in [Sockets -> Seq(Msg)] /\ queued \in [Users -> Nat]
  BY DEF KTPInv, TypeOK, SendType, UserType
<1>5. SentTop' = SentTop
  <2>1. CASE v = "user1"
    <3>1. PICK q \in Seq(Msg) : q = send_buffer[1]
      BY <1>4
    <3>2. send_buffer'[1] = Append(q, x) /\ queued'["user1"] = queued["user1"] + 1
      BY <1>2, <1>3, <1>4, <2>1, <3>1 DEF Home
    <3>3. Len(Append(q, x)) = Len(q) + 1 /\ Len(q) \in Nat
      OBVIOUS
    <3>. QED BY <1>4, <2>1, <3>1, <3>2, <3>3 DEF SentTop
  <2>2. CASE v = "user2"
    <3>1. send_buffer'[1] = send_buffer[1] /\ queued'["user1"] = queued["user1"]
      BY <1>2, <1>3, <1>4, <2>2 DEF Home
    <3>. QED BY <3>1 DEF SentTop
  <2>. QED BY <2>1, <2>2
<1>6. rbase'[0] = rbase[0] /\ rmsgs'[0] = rmsgs[0] /\ net'[1] = net[1] /\ fd' = fd
  BY <1>2 DEF recver
<1>7. net'[1] = net[1] \/ (net[1] # <<>> /\ net'[1] = Tail(net[1]))
  BY <1>6
<1>. QED BY <1>5, <1>6, <1>7, StillComes

(* user1 starts with nothing sent, and finds the window as it was zeroed.  *)
LEMMA OpenComes ==
  ASSUME KTPInv, ComesSent, Documented, NEW v \in Users, Open(v) PROVE ComesSent'
<1>1. /\ fd[v] = NoSock /\ sessions[v] < 1 /\ net' = net
      /\ v = "user2" => fd["user1"] = NoSock
      /\ queued' = [queued EXCEPT ![v] = 0]
      /\ \E i \in Sockets : /\ fd' = [fd EXCEPT ![v] = i]
                            /\ rbase' = [rbase EXCEPT ![i] = 0]
      /\ UNCHANGED <<send_buffer, rmsgs>>
  BY DEF Open, k_socket, Documented
<1>2. /\ Homes /\ Untouched /\ FreeSlotsEmpty /\ Flow(1)
      /\ fd \in [Users -> Sockets \cup {NoSock}] /\ sessions \in [Users -> Nat]
      /\ queued \in [Users -> Nat] /\ rbase \in [Sockets -> Seqs]
  BY DEF KTPInv, StreamInv, SendInv, TypeOK, UserType, RecvType
<1>3. CASE v = "user2"
  BY <1>1, <1>2, <1>3 DEF ComesSent, BothOpen
<1>4. CASE v = "user1"
  <2>1. sessions["user1"] = 0
    BY <1>1, <1>2, <1>4
  <2>2. /\ is_free[1] /\ queued["user1"] = 0 /\ queued'["user1"] = 0
        /\ net'[1] = <<>> /\ rbase[0] = 0
    BY <1>1, <1>2, <1>4, <2>1 DEF Homes, Home, Untouched
  <2>3. send_buffer'[1] = <<>>
    BY <1>1, <1>2, <2>2 DEF FreeSlotsEmpty
  <2>4. SentTop' = 0
    <3>1. Len(send_buffer'[1]) = 0
      BY <2>3
    <3>. QED BY <2>2, <3>1 DEF SentTop
  <2>5. rbase'[0] = 0
    BY <1>1, <1>2, <2>2
  <2>6. LiesBelow'
    <3>1. Own(1) = {}
      BY <2>2 DEF Own, Owner
    <3>2. rmsgs[0] \in [0 .. WINDOW_SIZE - 1 -> {Zeroed}]
      BY <1>2, <3>1 DEF Flow, Lying, Far
    <3>. QED BY <1>1, <3>2 DEF LiesBelow
  <2>7. net'[1] \in Seq(SentOnce')
    BY <2>2, EmptySeq
  <2>. QED BY <2>4, <2>5, <2>6, <2>7 DEF ComesSent
<1>. QED BY <1>3, <1>4

(* A receiver window that takes a message holds only what was sent, and    *)
(* moves on over what was sent, or over the zeroed first place of it.      *)
LEMMA TakenBelow ==
  ASSUME KTPInv, Documented, ComesSent, BothOpen, NEW m \in Own(1), m.seq < SentTop,
         InWindow(0, m), NEW n \in 0 .. StoredSize(0, m),
         IsRun(Stored(0, m), StoredSize(0, m), rbase[0], n),
         Deliver(0, Stored(0, m), StoredSize(0, m), n), SentTop' = SentTop
  PROVE  rbase'[0] <= SentTop' /\ LiesBelow'
<1>. USE KTPAssumption
<1>1. /\ rbase[0] \in Nat /\ rsize[0] \in 0 .. WINDOW_SIZE /\ WINDOW_SIZE \in Nat \ {0}
      /\ rmsgs \in [Sockets -> [0 .. WINDOW_SIZE - 1 -> Msg]]
      /\ rmsgs[0] \in [0 .. WINDOW_SIZE - 1 -> Msg]
      /\ m.seq \in Nat /\ m \in Msg /\ SEQ_MOD \in Nat \ {0} /\ SentTop \in Int
  BY OwnNumber, SentTypes DEF KTPInv, TypeOK, RecvType, Seqs
<1>2. PICK idx : idx = m.seq - rbase[0]
  OBVIOUS
<1>3. idx \in 0 .. WINDOW_SIZE - 1
  BY <1>1, <1>2 DEF InWindow
<1>4. PICK ms : ms = Stored(0, m)
  OBVIOUS
<1>5. PICK size : size = StoredSize(0, m)
  OBVIOUS
<1>6. /\ ms \in [0 .. WINDOW_SIZE - 1 -> Msg]
      /\ \A k \in 0 .. WINDOW_SIZE - 1 : ms[k] = Zeroed \/ ms[k].seq < SentTop
  <2>1. LiesBelow
    BY DEF ComesSent
  <2>2. ms = rmsgs[0] \/ ms = [rmsgs[0] EXCEPT ![idx] = m]
    BY <1>2, <1>4 DEF Stored
  <2>. QED BY <1>1, <1>3, <2>1, <2>2 DEF LiesBelow
<1>7. size \in 1 .. WINDOW_SIZE
  <2>1. size = IF idx >= rsize[0] THEN idx + 1 ELSE rsize[0]
    BY <1>2, <1>5 DEF StoredSize
  <2>. QED BY <1>1, <1>3, <2>1
<1>8. LiesBelow'
  <2>1. rmsgs'[0] = Shifted(ms, size, n)
    BY <1>1, <1>4, <1>5 DEF Deliver
  <2>2. ASSUME NEW k \in 0 .. WINDOW_SIZE - 1
        PROVE  \E j \in 0 .. WINDOW_SIZE - 1 : rmsgs'[0][k] = ms[j]
    <3>1. rmsgs'[0][k] = IF k >= size THEN ms[k]
                         ELSE IF k + n < size THEN ms[k + n] ELSE ms[size - 1]
      BY <2>1 DEF Shifted
    <3>2. size - 1 \in 0 .. WINDOW_SIZE - 1
      BY <1>1, <1>7
    <3>3. k + n < size => k + n \in 0 .. WINDOW_SIZE - 1
      BY <1>1, <1>5, <1>7
    <3>. QED BY <3>1, <3>2, <3>3
  <2>. QED BY <1>6, <2>2 DEF LiesBelow
<1>9. rbase'[0] <= SentTop'
  <2>1. PICK run, kept : Takes(Lying(1), 0, n, run, kept)
    <3>1. 0 = Far(1) /\ 1 \in Sockets
      BY DEF Far
    <3>. QED BY <3>1, RunTaken
  <2>2. rbase'[0] = rbase[0] + n /\ rbase'[0] \in Seqs
    <3>1. rbase'[0] = rbase[0] + n
      BY <2>1 DEF Takes
    <3>2. rbase'[0] = (rbase[0] + n) % SEQ_MOD
      BY DEF Deliver, KTPInv, TypeOK, RecvType
    <3>3. rbase[0] + n \in Int
      BY <1>1, <1>5, <1>7
    <3>4. (rbase[0] + n) % SEQ_MOD \in 0 .. SEQ_MOD - 1
      BY SMTT(30), <1>1, <3>3
    <3>. QED BY <3>1, <3>2, <3>4 DEF Seqs
  <2>3. CASE n = 0
    BY <1>1, <2>2, <2>3 DEF ComesSent
  <2>4. CASE n # 0
    <3>1. n - 1 \in 0 .. WINDOW_SIZE - 1 /\ n - 1 \in 0 .. n - 1 /\ n \in Nat
      BY <1>1, <1>5, <1>7, <2>4
    <3>2. ms[n - 1].seq = (rbase[0] + (n - 1)) % SEQ_MOD
      BY <1>4, <1>5, <3>1 DEF IsRun
    <3>3. rbase[0] + (n - 1) \in 0 .. SEQ_MOD - 1
      BY <1>1, <2>2, <3>1 DEF Seqs
    <3>4. ms[n - 1].seq = rbase[0] + (n - 1)
      BY <1>1, <3>2, <3>3, SmallMod
    <3>5. CASE ms[n - 1] = Zeroed
      <4>1. rbase[0] + (n - 1) = 0
        BY <3>4, <3>5 DEF Zeroed
      <4>. QED BY SMTT(30), <1>1, <2>2, <3>1, <4>1
    <3>6. CASE ms[n - 1].seq < SentTop
      BY <1>1, <2>2, <3>1, <3>4, <3>6
    <3>. QED BY <1>6, <3>1, <3>5, <3>6
  <2>. QED BY <2>3, <2>4
<1>. QED BY <1>8, <1>9

LEMMA DataComes ==
  ASSUME KTPInv, ComesSent, Documented, NEW i \in Sockets, R_Data(i) PROVE ComesSent'
<1>. SUFFICES ASSUME BothOpen PROVE ComesSent'
  BY DEF ComesSent, BothOpen, R_Data, users
<1>1. PICK p : p = Head(net[i])
  OBVIOUS
<1>2. PICK d : d = dest_sockfd(p)
  OBVIOUS
<1>3. PICK m : m = p.msg
  OBVIOUS
<1>4. /\ net[i] # <<>> /\ p.type = "DATA"
      /\ Acknowledge(i, p, rbase'[d])
      /\ UNCHANGED <<slots, sender, threadS, users>>
      /\ \/ ~InWindow(d, m) /\ UNCHANGED recver
         \/ /\ InWindow(d, m)
            /\ \E n \in 0 .. StoredSize(d, m) :
                 /\ IsRun(Stored(d, m), StoredSize(d, m), rbase[d], n)
                 /\ Deliver(d, Stored(d, m), StoredSize(d, m), n)
  BY <1>1, <1>2, <1>3 DEF R_Data, Readable
<1>5. p.from = i /\ d = Far(i) /\ m \in Own(i)
  <2>1. p \in Fitting(i)
    BY <1>1, <1>4, SendFacts, TailOf
  <2>. QED BY <1>2, <1>3, <1>4, <2>1 DEF Fitting, dest_sockfd, Far
<1>6. SentTop' = SentTop /\ SentOnce' = SentOnce /\ SentTop \in Int
  BY <1>4, SentTypes DEF SentTop, SentOnce, sender, users
<1>7. net \in [Sockets -> Seq(Packet)] /\ net[1] \in Seq(SentOnce)
  BY DEF KTPInv, TypeOK, NetType, ComesSent
<1>8. CASE i = 0
  <2>1. d = 1
    BY <1>5, <1>8 DEF Far
  <2>2. rbase'[0] = rbase[0] /\ rmsgs'[0] = rmsgs[0]
    BY <1>4, <2>1 DEF Deliver, recver, KTPInv, TypeOK, RecvType
  <2>3. net'[1] = net[1]
    BY <1>4, <1>5, <1>7, <1>8 DEF Acknowledge
  <2>4. fd' = fd
    BY <1>4 DEF users
  <2>. QED BY <1>6, <2>2, <2>3, <2>4, StillComes
<1>9. CASE i = 1
  <2>1. d = 0
    BY <1>5, <1>9 DEF Far
  <2>2. PICK a : a = [type |-> "ACK", from |-> i,
                      msg |-> [seq |-> (rbase'[d] + SEQ_MOD - 1) % SEQ_MOD, data |-> NoData]]
    OBVIOUS
  <2>3. net'[1] = Enqueue(Tail(net[1]), a)
    BY <1>4, <1>5, <1>7, <1>9, <2>2 DEF Acknowledge
  <2>4. a \in SentOnce
    <3>1. rbase'[d] \in Seqs
      <4>1. TypeOK'
        <5>1. Next
          BY DEF Next, thread_r
        <5>. QED BY <5>1, NextTypeOK DEF KTPInv
      <4>. QED BY <2>1, <4>1 DEF TypeOK, RecvType
    <3>2. (rbase'[d] + SEQ_MOD - 1) % SEQ_MOD \in Seqs
      BY <3>1, KTPAssumption DEF Seqs
    <3>3. a \in Packet /\ a.type = "ACK"
      BY <1>9, <2>2, <3>2 DEF Packet, Msg, Data
    <3>. QED BY <3>3 DEF SentOnce
  <2>5. net'[1] \in Seq(SentOnce')
    <3>1. Tail(net[1]) \in Seq(SentOnce) /\ p \in SentOnce
      BY <1>1, <1>4, <1>7, <1>9, TailOf
    <3>2. PICK S : S = SentOnce
      OBVIOUS
    <3>3. PICK q : q = Tail(net[1])
      OBVIOUS
    <3>4. Enqueue(q, a) \in Seq(S)
      <4>1. q \in Seq(S) /\ a \in S
        BY <2>4, <3>1, <3>2, <3>3
      <4>. QED BY ONLY <4>1, EnqueueOne
    <3>. QED BY <1>6, <2>3, <3>2, <3>3, <3>4
  <2>6. m.seq < SentTop
    <3>1. p \in SentOnce
      BY <1>1, <1>4, <1>7, <1>9, TailOf
    <3>. QED BY <1>3, <1>4, <3>1 DEF SentOnce
  <2>7. rbase'[0] <= SentTop' /\ LiesBelow'
    <3>1. CASE UNCHANGED recver
      BY <1>6, <3>1 DEF recver, ComesSent, LiesBelow
    <3>2. CASE ~UNCHANGED recver
      <4>1. InWindow(0, m)
        BY <1>4, <2>1, <3>2
      <4>2. PICK n \in 0 .. StoredSize(0, m) :
              /\ IsRun(Stored(0, m), StoredSize(0, m), rbase[0], n)
              /\ Deliver(0, Stored(0, m), StoredSize(0, m), n)
        BY <1>4, <2>1, <3>2
      <4>. QED BY <1>5, <1>6, <1>9, <2>6, <4>1, <4>2, TakenBelow
    <3>. QED BY <3>1, <3>2
  <2>. QED BY <2>5, <2>7 DEF ComesSent
<1>. QED BY <1>8, <1>9

LEMMA NextComes ==
  ASSUME Documented, KTPInv, ComesSent, [Next]_vars PROVE ComesSent'
<1>1. CASE UNCHANGED <<send_buffer, queued, fd, rbase, rmsgs, net>>
  <2>1. SentTop' = SentTop /\ fd' = fd /\ rbase'[0] = rbase[0] /\ rmsgs'[0] = rmsgs[0]
        /\ net'[1] = net[1]
    BY <1>1 DEF SentTop
  <2>. QED BY <2>1, StillComes
<1>2. CASE UNCHANGED vars
  BY <1>1, <1>2 DEF vars, sender, users, recver
<1>3. CASE S_Visit \/ S_SendDone \/ S_NotDue \/ S_PassDone
  BY <1>1, <1>3 DEF S_Visit, S_SendDone, S_NotDue, S_PassDone, sender, users, recver
<1>4. CASE S_Send \/ S_Resend
  BY <1>4, SendComes, ResendComes
<1>5. ASSUME NEW u \in Users, Open(u) \/ k_sendto(u) PROVE ComesSent'
  BY <1>5, OpenComes, SendtoComes
<1>6. ASSUME NEW u \in Users, k_recvfrom(u) PROVE ComesSent'
  BY <1>1, <1>6 DEF k_recvfrom, sender, users, recver
<1>7. ASSUME NEW u \in Users, Close(u) \/ Crash(u) PROVE ComesSent'
  <2>1. fd' = [fd EXCEPT ![u] = NoSock] /\ fd \in [Users -> Sockets \cup {NoSock}]
    BY <1>7 DEF Close, Crash, KTPInv, TypeOK, UserType
  <2>. QED BY <2>1 DEF ComesSent, BothOpen
<1>8. ASSUME NEW i \in Sockets, Collect(i) PROVE ComesSent'
  <2>1. fd' = fd /\ \A u \in Users : fd[u] # i
    BY <1>8 DEF Collect, users
  <2>2. \A u \in Users : fd[u] \in {Home(u), NoSock}
    BY DEF KTPInv, StreamInv, Homes
  <2>. QED BY <2>1, <2>2 DEF ComesSent, BothOpen, Home
<1>9. ASSUME NEW i \in Sockets, dropMessage(i) \/ R_Ack(i) PROVE ComesSent'
  <2>1. /\ net[i] # <<>> /\ net' = [net EXCEPT ![i] = Tail(@)]
        /\ UNCHANGED <<send_buffer, recver, users>>
    BY <1>9 DEF dropMessage, R_Ack, Readable, sender
  <2>2. net \in [Sockets -> Seq(Packet)]
    BY DEF KTPInv, TypeOK, NetType
  <2>3. net'[1] = net[1] \/ (net[1] # <<>> /\ net'[1] = Tail(net[1]))
    BY <2>1, <2>2
  <2>4. SentTop' = SentTop /\ fd' = fd /\ rbase'[0] = rbase[0] /\ rmsgs'[0] = rmsgs[0]
    BY <2>1 DEF SentTop, recver, users
  <2>. QED BY <2>3, <2>4, StillComes
<1>10. ASSUME NEW i \in Sockets, R_Data(i) PROVE ComesSent'
  BY <1>10, DataComes
<1>. QED BY <1>2, <1>3, <1>4, <1>5, <1>6, <1>7, <1>8, <1>9, <1>10
         DEF Next, thread_s, thread_r

(* The receiver window of user2 begins at a message that user1 still has   *)
(* in its window, or right behind the last one of it.                      *)
WindowsMeet == Paired =>
  LET s == fd["user1"]
      d == fd["user2"] IN
  swnd_base[s] <= rbase[d] /\ rbase[d] <= swnd_base[s] + Len(swnd[s])

(* In the documented use, for any window size and any loss: thread_r       *)
(* acknowledges nothing that was not sent, and thread_s has what it may    *)
(* still be asked for (ksocket.c, lines 488 and 519).                      *)
THEOREM WindowsOverlap == ASSUME Documented PROVE Spec => []WindowsMeet
<1>1. KTPInv /\ ComesSent => WindowsMeet
  <2>. SUFFICES ASSUME KTPInv, ComesSent, Paired PROVE WindowsMeet
    BY DEF WindowsMeet
  <2>1. BothOpen
    BY DEF Paired, BothOpen
  <2>2. fd["user1"] = 1 /\ fd["user2"] = 0
    BY <2>1 DEF KTPInv, StreamInv, Homes, Home, BothOpen
  <2>3. swnd_base[1] <= rbase[0] /\ rbase[0] <= SentTop
    BY <2>1 DEF KTPInv, StreamInv, AcksRight, ComesSent, BothOpen
  <2>4. /\ swnd_base[1] \in Nat /\ Len(swnd[1]) \in Nat
        /\ swnd_base[1] + Len(swnd[1]) + Len(send_buffer[1]) = queued["user1"]
    BY <2>1, WindowNumbers DEF BothOpen
  <2>5. Len(send_buffer[1]) \in Nat
    BY DEF KTPInv, TypeOK, SendType
  <2>6. SentTop = swnd_base[1] + Len(swnd[1])
    BY <2>4, <2>5 DEF SentTop
  <2>. QED BY <2>2, <2>3, <2>6 DEF WindowsMeet
<1>2. KTPInv /\ ComesSent /\ [Next]_vars => ComesSent'
  BY NextComes
<1>. QED BY InitComes, <1>1, <1>2, StreamInvariant, PTL DEF Spec
-----------------------------------------------------------------------------
(* thread_r of user2 handles the oldest message that user1 has not seen    *)
(* acknowledged.                                                           *)
OldestComes(i) ==
  /\ R_Data(i) /\ Paired /\ Head(net[i]).from = fd["user1"]
  /\ swnd[fd["user1"]] # <<>>
  /\ Head(net[i]).msg.seq = Head(swnd[fd["user1"]]).seq

(* A message for which the window waits is taken, whatever lies in its     *)
(* place: stored anew, or found there already.                             *)
LEMMA AwaitedTaken ==
  ASSUME KTPInv, Documented, NEW m \in Own(1), m.seq = rbase[0],
         NEW n \in 0 .. StoredSize(0, m),
         IsRun(Stored(0, m), StoredSize(0, m), rbase[0], n)
  PROVE  n \in Nat \ {0}
<1>. USE KTPAssumption
<1>1. /\ rbase[0] \in 0 .. SEQ_MOD - 1 /\ rsize[0] \in 0 .. WINDOW_SIZE
      /\ rmsgs[0] \in [0 .. WINDOW_SIZE - 1 -> Msg]
  BY DEF KTPInv, TypeOK, RecvType, Seqs
<1>2. m.seq - rbase[0] = 0
  BY <1>1
<1>3. StoredSize(0, m) = IF 0 >= rsize[0] THEN 1 ELSE rsize[0]
  BY <1>2 DEF StoredSize
<1>4. StoredSize(0, m) \in 1 .. WINDOW_SIZE
  BY <1>1, <1>3
<1>5. Stored(0, m)[0].seq = rbase[0]
  <2>1. CASE 0 >= rsize[0] \/ rmsgs[0][0].seq # m.seq
    <3>1. Stored(0, m) = [rmsgs[0] EXCEPT ![0] = m]
      BY <1>2, <2>1 DEF Stored
    <3>. QED BY <1>1, <3>1
  <2>2. CASE ~(0 >= rsize[0] \/ rmsgs[0][0].seq # m.seq)
    <3>1. Stored(0, m) = rmsgs[0]
      BY <1>2, <2>2 DEF Stored
    <3>. QED BY <2>2, <3>1
  <2>. QED BY <2>1, <2>2
<1>6. rbase[0] % SEQ_MOD = rbase[0]
  BY <1>1, SmallMod
<1>7. ASSUME n = 0 PROVE FALSE
  <2>1. Stored(0, m)[0].seq # (rbase[0] + 0) % SEQ_MOD
    BY <1>4, <1>7 DEF IsRun
  <2>2. rbase[0] + 0 = rbase[0]
    BY <1>1
  <2>. QED BY <1>5, <1>6, <2>1, <2>2
<1>8. n \in Nat
  BY <1>4
<1>. QED BY <1>7, <1>8

LEMMA OldestMoves ==
  ASSUME KTPInv, Documented, NEW i \in Sockets, OldestComes(i)
  PROVE  rbase'[fd["user2"]] > Head(swnd[fd["user1"]]).seq
<1>. USE KTPAssumption
<1>1. fd["user1"] = 1 /\ fd["user2"] = 0
  BY DEF OldestComes, Paired, KTPInv, StreamInv, Homes, Home
<1>2. PICK p : p = Head(net[i])
  OBVIOUS
<1>3. PICK m : m = p.msg
  OBVIOUS
<1>4. net[i] # <<>> /\ p.type = "DATA" /\ p.from = 1
  BY <1>1, <1>2 DEF OldestComes, R_Data, Readable
<1>5. i = 1 /\ dest_sockfd(p) = 0 /\ m \in Own(1)
  <2>1. p \in Fitting(i)
    BY <1>2, <1>4, SendFacts, TailOf
  <2>. QED BY <1>3, <1>4, <2>1 DEF Fitting, dest_sockfd
<1>6. m.seq = swnd_base[1] /\ Head(swnd[1]).seq = m.seq
  <2>1. swnd[1] # <<>> /\ swnd[1] \in Seq(Msg)
    BY <1>1 DEF OldestComes, KTPInv, TypeOK, SendType
  <2>2. 1 \in 1 .. Len(swnd[1]) /\ Head(swnd[1]) = swnd[1][1]
    BY <2>1
  <2>3. swnd[1][1].seq = swnd_base[1] + 1 - 1 /\ swnd_base[1] \in Nat
    BY <1>1, <2>2, WindowNumbers
  <2>. QED BY <1>1, <1>2, <1>3, <2>2, <2>3 DEF OldestComes
<1>7. swnd_base[1] <= rbase[0] /\ swnd_base[1] \in Nat /\ rbase[0] \in Nat
  BY <1>1 DEF KTPInv, StreamInv, AcksRight, TypeOK, SendType, RecvType, Seqs
<1>8. \/ ~InWindow(0, m) /\ rbase' = rbase
      \/ /\ InWindow(0, m)
         /\ \E n \in 0 .. StoredSize(0, m) :
              /\ IsRun(Stored(0, m), StoredSize(0, m), rbase[0], n)
              /\ Deliver(0, Stored(0, m), StoredSize(0, m), n)
  BY <1>2, <1>3, <1>5 DEF OldestComes, R_Data, recver
<1>9. CASE m.seq = rbase[0]
  <2>1. InWindow(0, m)
    BY <1>7, <1>9 DEF InWindow
  <2>2. PICK n \in 0 .. StoredSize(0, m) :
          /\ IsRun(Stored(0, m), StoredSize(0, m), rbase[0], n)
          /\ Deliver(0, Stored(0, m), StoredSize(0, m), n)
    BY <1>8, <2>1
  <2>3. n \in Nat \ {0}
    BY <1>5, <1>9, <2>2, AwaitedTaken
  <2>4. \E run, kept : Takes(Lying(1), 0, n, run, kept)
    <3>1. 0 = Far(1) /\ 1 \in Sockets
      BY DEF Far
    <3>. QED BY <1>5, <2>1, <2>2, <3>1, RunTaken
  <2>5. rbase'[0] = rbase[0] + n
    BY <2>4 DEF Takes
  <2>. QED BY <1>1, <1>6, <1>7, <1>9, <2>3, <2>5
<1>10. CASE m.seq # rbase[0]
  <2>1. m.seq < rbase[0] /\ ~InWindow(0, m)
    BY <1>6, <1>7, <1>10 DEF InWindow
  <2>. QED BY <1>1, <1>6, <1>8, <2>1
<1>. QED BY <1>9, <1>10

(* When the oldest unacknowledged message gets through, the receiver's     *)
(* window is behind it afterwards, and so the answer acknowledges it:      *)
(* what is resent often enough does not stand still.                       *)
OldestTaken ==
  [][\A i \in Sockets :
       OldestComes(i) => rbase'[fd["user2"]] > Head(swnd[fd["user1"]]).seq]_vars

(* In the documented use, for any window size, and whatever was lost or    *)
(* came before: a resent message is never in vain (ksocket.c, lines 488    *)
(* to 511; what is ahead of the window or held already is not stored).     *)
THEOREM ResendHelps == ASSUME Documented PROVE Spec => OldestTaken
<1>1. KTPInv /\ [Next]_vars =>
        [\A i \in Sockets :
           OldestComes(i) => rbase'[fd["user2"]] > Head(swnd[fd["user1"]]).seq]_vars
  BY OldestMoves
<1>. QED BY <1>1, StreamInvariant, PTL DEF Spec, OldestTaken
=============================================================================
