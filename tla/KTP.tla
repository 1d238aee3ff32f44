-------------------------------- MODULE KTP --------------------------------
(***************************************************************************)
(* The KTP reliable transport of Assignment_4 (ksocket.c): a sliding       *)
(* window over UDP whose whole state sits in one shared-memory segment.    *)
(* The user processes call k_socket, k_bind, k_sendto, k_recvfrom and      *)
(* k_close; three threads of the initksocket process move the messages:    *)
(* thread_s (sends and resends), thread_r (receives, acknowledges) and     *)
(* thread_g (collects the sockets of dead processes).                      *)
(*                                                                         *)
(* Atomicity here: one library call, one packet handled by thread_r, one   *)
(* iteration of a loop of thread_s.  KTPBuffers and KTPAlloc model the     *)
(* same code one shared access at a time.                                  *)
(***************************************************************************)
EXTENDS Integers, Sequences

CONSTANTS
  WINDOW_SIZE,      \* ksocket.h:18
  SEQ_MOD,          \* 256, the values of the uint8_t seq_num
  NetCap,           \* packets the kernel queues on one UDP socket
  Quota,            \* Quota[u]: messages that user u sends in a session
  MaxSessions,      \* bound: how often a user program is started
  MaxCrashes,       \* bound: how many of the starts end in a crash
  DocumentedOrder,  \* TRUE: user2 is started before user1, as documented
  PromptReceiver    \* TRUE: thread_r empties its queues between two passes

Users   == {"user1", "user2"}
Sockets == {0, 1}                        \* MAX_SOCKETS = 2
NoSock  == 2
Peer(u) == IF u = "user1" THEN "user2" ELSE "user1"

ASSUME KTPAssumption ==
  /\ WINDOW_SIZE \in Nat \ {0}
  /\ SEQ_MOD \in Nat \ {0}
  /\ NetCap \in Nat
  /\ Quota \in [Users -> Nat]
  /\ MaxSessions \in Nat
  /\ MaxCrashes \in Nat
  /\ DocumentedOrder \in BOOLEAN
  /\ PromptReceiver \in BOOLEAN

(* What a message carries: its user, the session and its number there.     *)
(* Memory that was only zeroed holds sequence number 0 and no data.        *)
NoData == <<"zeroed", 0, 0>>
Data   == (Users \X Nat \X Nat) \cup {NoData}
Seqs   == 0 .. SEQ_MOD - 1
Msg    == [seq : Seqs, data : Data]
Zeroed == [seq |-> 0, data |-> NoData]

(* A packet names the port it came from: port 0 is PORT_USER1, which       *)
(* thread_r binds to its socket 0, and port 1 is PORT_USER2.               *)
Packet == [type : {"DATA", "ACK"}, msg : Msg, from : Sockets]

VARIABLES
  is_free, dest_addr,            \* the slot table, the address from k_bind
  send_buffer,                   \* queued by k_sendto, not sent yet
  swnd, swnd_base, next_seq,     \* sent and not acknowledged
  rmsgs, rsize, rbase,           \* rwnd: the receiver window
  recv_buffer,                   \* in order, not read by the user yet
  net,                           \* net[i]: kernel queue of UDP socket i
  threadS,                       \* where thread_s is in its pass
  fd, queued, got,               \* each user: socket, sent count, data read
  sessions, crashes,             \* bounds on starts and crashes
  discarded                      \* history: data acknowledged, not stored

slots  == <<is_free, dest_addr>>
sender == <<send_buffer, swnd, swnd_base, next_seq>>
recver == <<rmsgs, rsize, rbase, recv_buffer, discarded>>
users  == <<fd, queued, got, sessions, crashes>>
vars   == <<slots, sender, recver, net, threadS, users>>

Init ==
  /\ is_free     = [i \in Sockets |-> TRUE]
  /\ dest_addr   = [i \in Sockets |-> 0]
  /\ send_buffer = [i \in Sockets |-> <<>>]
  /\ swnd        = [i \in Sockets |-> <<>>]
  /\ swnd_base   = [i \in Sockets |-> 0]
  /\ next_seq    = [i \in Sockets |-> 0]
  /\ rmsgs       = [i \in Sockets |-> [k \in 0 .. WINDOW_SIZE - 1 |-> Zeroed]]
  /\ rsize       = [i \in Sockets |-> 0]
  /\ rbase       = [i \in Sockets |-> 0]
  /\ recv_buffer = [i \in Sockets |-> <<>>]
  /\ net         = [i \in Sockets |-> <<>>]
  /\ threadS     = [sock |-> 0, phase |-> "visit", j |-> 0, new |-> 0]
  /\ fd          = [u \in Users |-> NoSock]
  /\ queued      = [u \in Users |-> 0]
  /\ got         = [u \in Users |-> <<>>]
  /\ sessions    = [u \in Users |-> 0]
  /\ crashes     = 0
  /\ discarded   = [i \in Sockets |-> {}]
-----------------------------------------------------------------------------
(* The calls of the user programs.                                         *)

(* k_socket takes the first free slot and resets the two windows, but not  *)
(* send_count, recv_count or the messages of the receiver window.          *)
AnyFirst(i)  == \A k \in Sockets : is_free[k] => i <= k           \* mutant
FirstFree(i) == is_free[i] /\ \A k \in Sockets : is_free[k] => i <= k

k_socket(i) ==
  /\ FirstFree(i)
  /\ is_free'   = [is_free   EXCEPT ![i] = FALSE]
  /\ swnd_base' = [swnd_base EXCEPT ![i] = 0]
  /\ next_seq'  = [next_seq  EXCEPT ![i] = 0]
  /\ swnd'      = [swnd      EXCEPT ![i] = <<>>]
  /\ rbase'     = [rbase     EXCEPT ![i] = 0]
  /\ rsize'     = [rsize     EXCEPT ![i] = 0]
  /\ UNCHANGED <<send_buffer, recv_buffer, rmsgs>>

(* user1 binds to PORT_USER1 and sends to PORT_USER2, user2 the other way; *)
(* only the destination is ever used.                                      *)
k_bind(i, u) ==
  dest_addr' = [dest_addr EXCEPT ![i] = IF u = "user1" THEN 1 ELSE 0]

Open(u) ==
  /\ fd[u] = NoSock
  /\ sessions[u] < MaxSessions
  /\ DocumentedOrder => (fd["user2"] = NoSock <=> u = "user2")
  /\ (DocumentedOrder /\ u = "user2") => fd["user1"] = NoSock
  /\ \E i \in Sockets :
       /\ k_socket(i)
       /\ k_bind(i, u)
       /\ fd' = [fd EXCEPT ![u] = i]
       /\ discarded' = [discarded EXCEPT ![i] = {}]
  /\ queued'   = [queued EXCEPT ![u] = 0]
  /\ got'      = [got EXCEPT ![u] = <<>>]
  /\ sessions' = [sessions EXCEPT ![u] = @ + 1]
  /\ UNCHANGED <<net, threadS, crashes>>

(* user2 leaves its loop on the last chunk (the byte count is reached) or  *)
(* on the EOF message behind it; only then does it send its ACK_EOF.       *)
FileRead(u) == \E k \in DOMAIN got[u] :
                 /\ got[u][k][1] = Peer(u)
                 /\ got[u][k][3] >= Quota[Peer(u)] - 1

MaySend(u) == u = "user2" => FileRead(u)

(* k_sendto; a refused call (ENOSPACE) changes nothing and is retried.     *)
k_sendto(u) ==
  LET i == fd[u] IN
  /\ i # NoSock
  /\ ~is_free[i]
  /\ queued[u] < Quota[u]
  /\ MaySend(u)
  /\ Len(swnd[i]) < WINDOW_SIZE
  /\ Len(send_buffer[i]) < WINDOW_SIZE
  /\ send_buffer' = [send_buffer EXCEPT ![i] =
       Append(@, [seq  |-> next_seq[i],
                  data |-> <<u, sessions[u], queued[u] + 1>>])]
  /\ next_seq' = [next_seq EXCEPT ![i] = (@ + 1) % SEQ_MOD]
  /\ queued'   = [queued EXCEPT ![u] = @ + 1]
  /\ UNCHANGED <<slots, swnd, swnd_base, recver, net, threadS,
                 fd, got, sessions, crashes>>

(* k_recvfrom hands out the first message; the user programs skip one with *)
(* an empty payload (len > 0 fails), which is what zeroed memory holds.    *)
k_recvfrom(u) ==
  LET i == fd[u] IN
  /\ i # NoSock
  /\ ~is_free[i]
  /\ recv_buffer[i] # <<>>
  /\ got' = [got EXCEPT ![u] = Append(@, Head(recv_buffer[i]).data)]
  /\ recv_buffer' = [recv_buffer EXCEPT ![i] = Tail(@)]
  /\ UNCHANGED <<slots, sender, rmsgs, rsize, rbase, discarded, net, threadS,
                 fd, queued, sessions, crashes>>

k_closeKeepsQueue(i) ==                                          \* mutant
  /\ is_free'     = [is_free     EXCEPT ![i] = TRUE]
  /\ recv_buffer' = [recv_buffer EXCEPT ![i] = <<>>]
  /\ swnd'        = [swnd        EXCEPT ![i] = <<>>]
  /\ UNCHANGED <<send_buffer, swnd_base, next_seq, rmsgs, rsize, rbase>>

(* What k_close clears; unsent and unacknowledged messages are dropped.    *)
k_close(i) ==
  /\ is_free'     = [is_free     EXCEPT ![i] = TRUE]
  /\ send_buffer' = [send_buffer EXCEPT ![i] = <<>>]
  /\ recv_buffer' = [recv_buffer EXCEPT ![i] = <<>>]
  /\ swnd'        = [swnd        EXCEPT ![i] = <<>>]
  /\ UNCHANGED <<swnd_base, next_seq, rmsgs, rsize, rbase>>

(* user1 closes when all is queued and ACK_EOF came or ACK_TIMEOUT passed, *)
(* user2 when it has read the file and ACK_EOF is queued or given up.      *)
Close(u) ==
  LET i == fd[u] IN
  /\ i # NoSock
  /\ ~is_free[i]
  /\ MaySend(u)
  /\ u = "user1" => queued[u] = Quota[u]
  /\ k_close(i)
  /\ fd' = [fd EXCEPT ![u] = NoSock]
  /\ UNCHANGED <<dest_addr, net, threadS, queued, got, sessions, crashes,
                 discarded>>

(* A user process dies without k_close: its slot stays allocated.          *)
Crash(u) ==
  /\ fd[u] # NoSock
  /\ crashes < MaxCrashes
  /\ fd' = [fd EXCEPT ![u] = NoSock]
  /\ crashes' = crashes + 1
  /\ UNCHANGED <<slots, sender, recver, net, threadS, queued, got, sessions>>

(* thread_g finds the owner of slot i dead (kill gives ESRCH).             *)
Collect(i) ==
  /\ ~is_free[i]
  /\ \A u \in Users : fd[u] # i
  /\ is_free'     = [is_free     EXCEPT ![i] = TRUE]
  /\ send_buffer' = [send_buffer EXCEPT ![i] = <<>>]
  /\ recv_buffer' = [recv_buffer EXCEPT ![i] = <<>>]
  /\ swnd'        = [swnd        EXCEPT ![i] = <<>>]
  /\ swnd_base'   = [swnd_base   EXCEPT ![i] = 0]
  /\ next_seq'    = [next_seq    EXCEPT ![i] = 0]
  /\ rsize'       = [rsize       EXCEPT ![i] = 0]
  /\ rbase'       = [rbase       EXCEPT ![i] = 0]
  /\ UNCHANGED <<dest_addr, rmsgs, discarded, net, threadS, users>>
-----------------------------------------------------------------------------
(* The network: sendto appends to the queue of the destination port; a     *)
(* full queue loses the packet.                                            *)
Enqueue(q, p) == IF Len(q) < NetCap THEN Append(q, p) ELSE q

(* thread_s: a pass visits the sockets in turn; for each it first sends    *)
(* from send_buffer while the window has room, then walks the window and   *)
(* resends what is older than T.  threadS.new counts the messages sent     *)
(* first in this pass: their timestamp is now, so they are not due.        *)
(* PromptReceiver: thread_r empties the queues within the sleep between    *)
(* two passes.                                                             *)
S_Visit ==
  LET i == threadS.sock IN
  /\ threadS.phase = "visit"
  /\ PromptReceiver => \A k \in Sockets : ~is_free[k] => net[k] = <<>>
  /\ threadS' = IF is_free[i]
                THEN [threadS EXCEPT !.sock = 1 - i]
                ELSE [threadS EXCEPT !.phase = "send", !.new = 0]
  /\ UNCHANGED <<slots, sender, recver, net, users>>

S_Send ==
  LET i == threadS.sock
      m == Head(send_buffer[i]) IN
  /\ threadS.phase = "send"
  /\ send_buffer[i] # <<>>
  /\ Len(swnd[i]) < WINDOW_SIZE
  /\ net' = [net EXCEPT ![dest_addr[i]] =
               Enqueue(@, [type |-> "DATA", msg |-> m, from |-> i])]
  /\ swnd' = [swnd EXCEPT ![i] = Append(@, m)]
  /\ send_buffer' = [send_buffer EXCEPT ![i] = Tail(@)]
  /\ threadS' = [threadS EXCEPT !.new = IF @ < WINDOW_SIZE THEN @ + 1 ELSE @]
  /\ UNCHANGED <<slots, swnd_base, next_seq, recver, users>>

S_SendDone ==
  LET i == threadS.sock IN
  /\ threadS.phase = "send"
  /\ send_buffer[i] = <<>> \/ Len(swnd[i]) >= WINDOW_SIZE
  /\ threadS' = [threadS EXCEPT !.phase = "resend", !.j = 0]
  /\ UNCHANGED <<slots, sender, recver, net, users>>

(* Whether an older message has passed T is left open.                     *)
S_Resend ==
  LET i == threadS.sock IN
  /\ threadS.phase = "resend"
  /\ threadS.j + threadS.new < Len(swnd[i])
  /\ net' = [net EXCEPT ![dest_addr[i]] =
       Enqueue(@, [type |-> "DATA", msg |-> swnd[i][threadS.j + 1], from |-> i])]
  /\ threadS' = [threadS EXCEPT !.j = @ + 1]
  /\ UNCHANGED <<slots, sender, recver, users>>

S_NotDue ==
  /\ threadS.phase = "resend"
  /\ threadS.j < Len(swnd[threadS.sock])
  /\ threadS' = [threadS EXCEPT !.j = @ + 1]
  /\ UNCHANGED <<slots, sender, recver, net, users>>

S_PassDone ==
  LET i == threadS.sock IN
  /\ threadS.phase = "resend"
  /\ threadS.j >= Len(swnd[i])
  /\ threadS' = [sock |-> 1 - i, phase |-> "visit", j |-> 0, new |-> 0]
  /\ UNCHANGED <<slots, sender, recver, net, users>>
-----------------------------------------------------------------------------
(* thread_r reads a packet of UDP socket i while slot i is in use.  The    *)
(* slots concerned follow from the port it came from.                      *)
Readable(i)      == ~is_free[i] /\ net[i] # <<>>
OwnSlot(p)       == 1 - p.from                                   \* mutant
dest_sockfd(p)   == IF p.from = 0 THEN 1 ELSE 0
sender_sockfd(p) == IF p.from = 0 THEN 0 ELSE 1

dropMessage(i) ==
  /\ Readable(i)
  /\ net' = [net EXCEPT ![i] = Tail(@)]
  /\ UNCHANGED <<slots, sender, recver, threadS, users>>

(* Storing a message of the window: no wrap-around in the comparison, and  *)
(* a position that seems to hold it already is left alone.                 *)
InWindow(d, m) == rbase[d] <= m.seq /\ m.seq < rbase[d] + WINDOW_SIZE

Stored(d, m) ==
  LET idx == m.seq - rbase[d] IN
  IF idx >= rsize[d] \/ rmsgs[d][idx].seq # m.seq
  THEN [rmsgs[d] EXCEPT ![idx] = m]
  ELSE rmsgs[d]

StoredSize(d, m) ==
  IF m.seq - rbase[d] >= rsize[d] THEN m.seq - rbase[d] + 1 ELSE rsize[d]

(* The delivery loop takes the longest run of n messages from the front    *)
(* that carry the sequence numbers base, base + 1, ...                     *)
AnyRun(ms, size, base, n) == n = size                            \* mutant
IsRun(ms, size, base, n) ==
  /\ \A k \in 0 .. n - 1 : ms[k].seq = (base + k) % SEQ_MOD
  /\ n < size => ms[n].seq # (base + n) % SEQ_MOD

(* Shifting n times leaves the last element behind at the end.             *)
Shifted(ms, size, n) ==
  [k \in 0 .. WINDOW_SIZE - 1 |->
     IF k >= size THEN ms[k]
     ELSE IF k + n < size THEN ms[k + n] ELSE ms[size - 1]]

(* A message taken while recv_buffer is full is acknowledged and lost.     *)
KeptAll(d, n) == n                                               \* mutant
Kept(d, n) ==
  LET room == WINDOW_SIZE - Len(recv_buffer[d])
  IN  IF n <= room THEN n ELSE room

Deliver(d, ms, size, n) ==
  LET run  == [k \in 1 .. n |-> ms[k - 1]]
      kept == Kept(d, n)
  IN
  /\ rmsgs' = [rmsgs EXCEPT ![d] = Shifted(ms, size, n)]
  /\ rsize' = [rsize EXCEPT ![d] = size - n]
  /\ rbase' = [rbase EXCEPT ![d] = (@ + n) % SEQ_MOD]
  /\ recv_buffer' = [recv_buffer EXCEPT ![d] = @ \o SubSeq(run, 1, kept)]
  /\ discarded' = [discarded EXCEPT ![d] =
                     @ \cup {run[k].data : k \in kept + 1 .. n}]

AcknowledgeNewOnly(i, p, base) ==                                \* mutant
  IF InWindow(dest_sockfd(p), p.msg)
  THEN net' = [[net EXCEPT ![i] = Tail(@)] EXCEPT ![p.from] =
                 Enqueue(@, [type |-> "ACK", from |-> i,
                             msg  |-> [seq |-> (base + SEQ_MOD - 1) % SEQ_MOD,
                                       data |-> NoData]])]
  ELSE net' = [net EXCEPT ![i] = Tail(@)]
Acknowledge(i, p, base) ==
  net' = [[net EXCEPT ![i] = Tail(@)] EXCEPT ![p.from] =
            Enqueue(@, [type |-> "ACK", from |-> i,
                        msg  |-> [seq |-> (base + SEQ_MOD - 1) % SEQ_MOD,
                                  data |-> NoData]])]

R_Data(i) ==
  LET p == Head(net[i])
      d == dest_sockfd(p)
      m == p.msg IN
  /\ Readable(i)
  /\ p.type = "DATA"
  /\ \/ /\ InWindow(d, m)
        /\ \E n \in 0 .. StoredSize(d, m) :
             /\ IsRun(Stored(d, m), StoredSize(d, m), rbase[d], n)
             /\ Deliver(d, Stored(d, m), StoredSize(d, m), n)
     \/ /\ ~InWindow(d, m)
        /\ UNCHANGED recver
  /\ Acknowledge(i, p, rbase'[d])
  /\ UNCHANGED <<slots, sender, threadS, users>>

(* A cumulative acknowledgement removes messages from the front while      *)
(* their number is not above it, again without wrap-around.                *)
SlidesOneMore(w, acked, n) ==                                    \* mutant
  /\ \A k \in 1 .. n : w[k].seq <= acked + 1
  /\ n < Len(w) => w[n + 1].seq > acked + 1
IsSlide(w, acked, n) ==
  /\ \A k \in 1 .. n : w[k].seq <= acked
  /\ n < Len(w) => w[n + 1].seq > acked

BaseFromAck(base, n, acked) == (acked + 1) % SEQ_MOD             \* mutant
BaseNoWrap(base, n, acked)  == base + n                          \* mutant
SlidBase(base, n, acked)    == (base + n) % SEQ_MOD

R_Ack(i) ==
  LET p == Head(net[i])
      s == sender_sockfd(p) IN
  /\ Readable(i)
  /\ p.type = "ACK"
  /\ \E n \in 0 .. Len(swnd[s]) :
       /\ IsSlide(swnd[s], p.msg.seq, n)
       /\ swnd' = [swnd EXCEPT ![s] = SubSeq(@, n + 1, Len(@))]
       /\ swnd_base' = [swnd_base EXCEPT ![s] = SlidBase(@, n, p.msg.seq)]
  /\ net' = [net EXCEPT ![i] = Tail(@)]
  /\ UNCHANGED <<slots, send_buffer, next_seq, recver, threadS, users>>
-----------------------------------------------------------------------------
thread_s == S_Visit \/ S_Send \/ S_SendDone \/ S_Resend \/ S_NotDue \/ S_PassDone
thread_r(i) == R_Data(i) \/ R_Ack(i)

Next ==
  \/ \E u \in Users :
       Open(u) \/ k_sendto(u) \/ k_recvfrom(u) \/ Close(u) \/ Crash(u)
  \/ \E i \in Sockets : Collect(i) \/ thread_r(i) \/ dropMessage(i)
  \/ thread_s

Spec == Init /\ [][Next]_vars

(* What the scheduling justifies: the threads and the polling programs go  *)
(* on, a message that stays unacknowledged is resent in the end (T passes),*)
(* and drops are independent, so that a packet which keeps coming is not   *)
(* dropped every time (dropMessage with probability below 1).              *)
Carries(i, k) == net[i] # <<>> /\ Head(net[i]).msg.data[3] = k
Acks(i, s)    == net[i] # <<>> /\ Head(net[i]).msg.seq = s

Fairness ==
  /\ WF_vars(thread_s)
  /\ \A j \in 0 .. WINDOW_SIZE - 1 : SF_vars(S_Resend /\ threadS.j = j)
  /\ WF_vars(\E i \in Sockets : thread_r(i) \/ dropMessage(i))
  /\ \A k \in 1 .. Quota["user1"] :
       /\ SF_vars(\E i \in Sockets : R_Data(i) /\ Carries(i, k))
       /\ SF_vars(\E i \in Sockets : R_Ack(i) /\ Acks(i, k - 1))
  /\ WF_vars(\E u \in Users : Open(u) \/ k_sendto(u))

FairSpec == Spec /\ Fairness
-----------------------------------------------------------------------------
(* Type invariant: every field of the shared segment, the queues and the   *)
(* history keep the shape the code gives them.                             *)
SlotType ==
  /\ is_free     \in [Sockets -> BOOLEAN]
  /\ dest_addr   \in [Sockets -> Sockets]

SendType ==
  /\ send_buffer \in [Sockets -> Seq(Msg)]
  /\ swnd        \in [Sockets -> Seq(Msg)]
  /\ swnd_base   \in [Sockets -> Seqs]
  /\ next_seq    \in [Sockets -> Seqs]

RecvType ==
  /\ rmsgs       \in [Sockets -> [0 .. WINDOW_SIZE - 1 -> Msg]]
  /\ rsize       \in [Sockets -> 0 .. WINDOW_SIZE]
  /\ rbase       \in [Sockets -> Seqs]
  /\ recv_buffer \in [Sockets -> Seq(Msg)]
  /\ discarded   \in [Sockets -> SUBSET Data]

ThreadType ==
  threadS \in [sock : Sockets, phase : {"visit", "send", "resend"},
               j : Nat, new : Nat]

UserType ==
  /\ fd          \in [Users -> Sockets \cup {NoSock}]
  /\ queued      \in [Users -> Nat]
  /\ got         \in [Users -> Seq(Data)]
  /\ sessions    \in [Users -> Nat]
  /\ crashes     \in Nat

NetType == net \in [Sockets -> Seq(Packet)]

TypeOK ==
  SlotType /\ SendType /\ RecvType /\ ThreadType /\ UserType /\ NetType

(* No array of the segment is indexed past its WINDOW_SIZE elements:       *)
(* k_sendto, thread_s and thread_r together never let a count exceed it.   *)
BuffersBounded ==
  \A i \in Sockets :
    /\ Len(send_buffer[i]) <= WINDOW_SIZE
    /\ Len(swnd[i])        <= WINDOW_SIZE
    /\ Len(recv_buffer[i]) <= WINDOW_SIZE

(* What a socket in use still has to get acknowledged, swnd followed by    *)
(* send_buffer, is exactly the last messages k_sendto accepted from its    *)
(* owner, in order and under their own numbers, whatever acknowledgements  *)
(* of whatever session were applied meanwhile; swnd_base and next_seq are  *)
(* the numbers of the first one and of the one after the last.             *)
Nth(u, n) == [seq |-> (n - 1) % SEQ_MOD, data |-> <<u, sessions[u], n>>]

Acked(u) == queued[u] - Len(swnd[fd[u]]) - Len(send_buffer[fd[u]])

SendSideOf(u) ==
  LET i == fd[u] IN
  /\ Acked(u) >= 0
  /\ swnd_base[i] = Acked(u) % SEQ_MOD
  /\ next_seq[i]  = queued[u] % SEQ_MOD
  /\ \A k \in 1 .. Len(swnd[i]) : swnd[i][k] = Nth(u, Acked(u) + k)
  /\ \A k \in 1 .. Len(send_buffer[i]) :
       send_buffer[i][k] = Nth(u, Acked(u) + Len(swnd[i]) + k)

SendSideExact == \A u \in Users : fd[u] # NoSock => SendSideOf(u)

(* A free slot has nothing left to send, although k_socket does not reset  *)
(* send_count: k_close and thread_g always leave it at zero.               *)
FreeSlotsEmpty ==
  \A i \in Sockets : is_free[i] => swnd[i] = <<>> /\ send_buffer[i] = <<>>

(* A slot that is in use has at most one user, a free one has none.        *)
OneOwner ==
  /\ \A u \in Users : fd[u] # NoSock => ~is_free[fd[u]]
  /\ fd["user1"] # NoSock => fd["user1"] # fd["user2"]

(* What the receiving program has read and can read, as message numbers;   *)
(* zeroed memory can only stand in for the first message.                  *)
Position(x) == IF x = NoData THEN 1 ELSE x[3]
Handed(u) == got[u] \o [k \in 1 .. Len(recv_buffer[fd[u]]) |->
                          recv_buffer[fd[u]][k].data]

(* The receiver gets the messages of its peer in order and none twice, and *)
(* those at or below the acknowledged number that it does not get are      *)
(* exactly the ones thread_r met with recv_buffer full: packet loss and    *)
(* resending add no other gap (first session, fewer than SEQ_MOD messages).*)
DeliveryExact ==
  fd["user2"] # NoSock =>
    LET h == Handed("user2")
        d == fd["user2"] IN
    /\ \A k \in DOMAIN h : h[k] = NoData \/ h[k][1] = "user1"
    /\ \A k \in DOMAIN h : \A l \in 1 .. k - 1 :
         Position(h[l]) < Position(h[k])
    /\ {Position(h[k]) : k \in DOMAIN h} \cup {Position(x) : x \in discarded[d]}
         = 1 .. rbase[d]

(* Both programs run, and each was started for the other.                  *)
Paired == /\ \A u \in Users : fd[u] # NoSock
          /\ sessions["user1"] = sessions["user2"]

(* The sender forgets a message only when the receiver window has moved    *)
(* past it: swnd slid over nothing that the peer has not acknowledged      *)
(* (fewer than SEQ_MOD messages).                                          *)
AckedWasReceived ==
  Paired => swnd_base[fd["user1"]] <= rbase[fd["user2"]]

(* Once user1 has queued the whole file and keeps its socket open, all of  *)
(* it is sent, acknowledged and taken by the receiver window, whatever     *)
(* packets thread_r drops on the way.                                      *)
AllAcked ==
  LET i == fd["user1"] IN
  i # NoSock /\ Acked("user1") = Quota["user1"] /\ rbase[1 - i] = Quota["user1"] % SEQ_MOD

EventuallyAcked ==
  (fd["user1"] # NoSock /\ queued["user1"] = Quota["user1"])
    ~> (AllAcked \/ fd["user1"] = NoSock)

(* user1 gets its whole file accepted: k_sendto does not refuse for ever.  *)
EventuallyQueued == <>(queued["user1"] = Quota["user1"])

-----------------------------------------------------------------------------
(* Claims of comments and documents that the code does not keep.  Where no *)
(* run shows it, README.md names the instance and the counterexample.      *)

(* Every message a user reads was sent by its peer: no read hands out      *)
(* memory that was only zeroed.                                            *)
OnlySentIsRead == \A u \in Users : \A k \in DOMAIN got[u] : got[u][k] # NoData

(* A program started for the n-th time reads no message that was sent in   *)
(* an earlier session of its peer.                                         *)
NoStaleRead ==
  \A u \in Users : \A k \in DOMAIN got[u] :
    got[u][k] # NoData => got[u][k][2] >= sessions[u]

(* A file that user1 has queued completely is received completely by       *)
(* user2, which has slot 0 in the documented order.                        *)
FileArrives == (queued["user1"] = Quota["user1"]) ~> (rbase[0] = Quota["user1"])

(* What thread_r acknowledges it also keeps for the user.                  *)
NothingDiscarded == \A i \in Sockets : discarded[i] = {}
=============================================================================
