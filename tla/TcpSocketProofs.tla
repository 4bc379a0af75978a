--------------------------- MODULE TcpSocketProofs ---------------------------
(***************************************************************************)
(* Theorems about TcpSocket for a process with one TCP socket, for every   *)
(* length of the streams, every number of losses and every interleaving of *)
(* the task that owns the socket, the TX task, the RX task and the peer.   *)
(* With two sockets the theorems are false: networking_rx_sort() does not  *)
(* compare ports.                                                          *)
(***************************************************************************)
EXTENDS TcpSocket, SequenceTheorems, TLAPS

SingleSocket == Len(SocketList) = 1

-----------------------------------------------------------------------------
(* The inductive invariant, for the socket s.                                *)

Message(s, n) == [sck |-> s, byte |-> n]

\* A segment on its way to the kernel carries the byte its number names.
FromPeer(seg) ==
    LET s == seg.sck IN
    /\ seg.seq >= Isn[s]
    /\ "SYN" \in seg.flags => seg.seq = Isn[s]
    /\ "PSH" \in seg.flags =>
        /\ seg.seq - Isn[s] \in 1 .. PeerBytes
        /\ seg.data = <<Message(s, seg.seq - Isn[s])>>
    /\ "FIN" \in seg.flags => seg.seq = Isn[s] + PeerBytes + 1

ArrivingOK ==
    /\ \A i \in DOMAIN toKernel : FromPeer(toKernel[i])
    /\ rx.at # 0 => FromPeer(rx.seg)

\* What the peer sends are the SYN, its bytes and the FIN.
PeerNumbersOK(s) ==
    /\ peer[s].sndUna \in Isn[s] .. peer[s].sndNxt
    /\ peer[s].sndNxt <= Isn[s] + PeerBytes + 2
    /\ peer[s].listening => peer[s].sndNxt = Isn[s]

\* There is a message to take when the TX task has chosen to write one.
TxJobOK ==
    /\ tx.at # "idle" => tx.job \in {"S_SYN", "S_ACK", "S_FIN", "S_WRITE"}
    /\ tx.at = "clear" => tx.job # "S_WRITE"
    /\ tx.at = "build" /\ tx.job = "S_WRITE" => sck[tx.sck].queueOut # <<>>

\* This much holds for any number of sockets.
TypeInv == TypeOK /\ TxJobOK /\ ArrivingOK /\ \A s \in Sockets : PeerNumbersOK(s)

\* What the RX task has found out of a segment still holds at its stores:
\* nobody else stores the acknowledgment number.
RxOK(s) ==
    /\ rx.at = 0 => rx.step = "test"
    /\ rx.step = "push" => rx.kind = "psh"
    /\ rx.step = "store" =>
        /\ rx.kind # "none"
        /\ rx.kind = "synAck" => "SYN" \in rx.seg.flags /\ sck[s].ack = 0
        /\ rx.kind = "fin" => "FIN" \in rx.seg.flags /\ sck[s].ack = rx.seg.seq
        /\ rx.kind = "psh" => "PSH" \in rx.seg.flags /\ sck[s].ack = rx.seg.seq

\* The acknowledgment number counts what was taken.
DeliveryOK(s) ==
    /\ \A i \in DOMAIN Taken(s) : Taken(s)[i] = Message(s, i)
    /\ sck[s].ack = 0 => Taken(s) = <<>>
    /\ sck[s].ack # 0 =>
        \/ sck[s].ack = Isn[s] + 1 + Len(Taken(s))
        \/ Len(Taken(s)) = PeerBytes /\ sck[s].ack = Isn[s] + 2 + PeerBytes
    /\ RxOK(s)

\* It never shrinks, so what was acknowledged earlier is no more.
AcksOK(s) ==
    /\ tx.at = "send" => tx.seg.ack <= sck[s].ack
    /\ \A i \in DOMAIN toPeer[s] : toPeer[s][i].ack <= sck[s].ack
    /\ peer[s].sndUna > Isn[s] => peer[s].sndUna <= sck[s].ack

\* Until the SYN is sent the peer listens and nobody does anything but
\* connect; until then only the number is 0.
HandshakeOK(s) ==
    /\ app[s] = "new" =>
        sck[s].seq = 0 /\ sck[s].ack = 0 /\ sck[s].status = "S_NULL" /\ tx.at = "idle"
    /\ peer[s].listening =>
        /\ toKernel = <<>> /\ rx.at = 0
        /\ peer[s].received = <<>> /\ ~peer[s].finSeen
    /\ sck[s].seq = 0 =>
        /\ peer[s].listening /\ toPeer[s] = <<>> /\ app[s] \in {"new", "connecting"}
        /\ sck[s].connectStatus # "S_OPEN" /\ sck[s].status \in {"S_NULL", "S_SYN", "S_OPEN"}
        /\ tx.job \in {"S_NULL", "S_SYN"} /\ written[s] = 0 /\ sck[s].queueOut = <<>>
    /\ "S_SYN" \in {sck[s].status, tx.job} => sck[s].seq = 0
    /\ sck[s].status = "S_SYN" => tx.at \in {"idle", "clear"}

\* The job of the TX task, and when it can be what it is.
JobOK(s) ==
    /\ tx.at = "idle" => tx.job = "S_NULL"
    /\ tx.job = "S_WRITE" => sck[s].status \in {"S_WRITE", "S_ACK"}
    /\ "S_FIN" \in {sck[s].status, tx.job} => app[s] = "closed"
    /\ app[s] \in {"closeSet", "closed"} => "S_WRITE" \notin {sck[s].status, tx.job}

\* How many messages the TX task has in hand.
InHand == IF tx.at = "send" /\ tx.job = "S_WRITE" THEN 1 ELSE 0

\* Queued messages have the numbers the next segments will have.
QueueOK(s) ==
    app[s] # "closed" /\ sck[s].seq # 0 =>
        /\ \A i \in DOMAIN sck[s].queueOut :
            sck[s].queueOut[i] = Message(s, sck[s].seq + InHand + i - 1)
        /\ written[s] = sck[s].seq + InHand + Len(sck[s].queueOut) - 1

\* A segment the kernel has built: a message goes out with its number.
Built(s, seg) ==
    /\ "SYN" \in seg.flags => seg.seq = 0
    /\ seg.flags \cap {"SYN", "FIN"} # {} => seg.data = <<>>
    /\ seg.data # <<>> => seg.data = <<Message(s, seg.seq)>>

InHandOK(s) ==
    tx.at = "send" =>
        /\ Built(s, tx.seg) /\ tx.seg.seq = sck[s].seq
        /\ tx.job = "S_WRITE" <=> tx.seg.data # <<>>
        /\ tx.job \in {"S_SYN", "S_FIN"} <=> tx.seg.flags \cap {"SYN", "FIN"} # {}
        /\ tx.job = "S_FIN" <=> "FIN" \in tx.seg.flags

\* Nothing but acknowledgments follows a FIN.
SentOK(s) ==
    \A i \in DOMAIN toPeer[s] :
        /\ Built(s, toPeer[s][i])
        /\ "FIN" \in toPeer[s][i].flags =>
            app[s] = "closed" /\ \A j \in DOMAIN toPeer[s] : j > i => toPeer[s][j].data = <<>>

\* The peer's number counts what it has received.
PeerOK(s) ==
    /\ \A i \in DOMAIN peer[s].received : peer[s].received[i] = Message(s, i)
    /\ ~peer[s].listening /\ ~peer[s].finSeen => peer[s].rcvNxt = 1 + Len(peer[s].received)
    /\ peer[s].finSeen =>
        app[s] = "closed" /\ \A i \in DOMAIN toPeer[s] : toPeer[s][i].data = <<>>

SocketInv(s) ==
    /\ DeliveryOK(s) /\ AcksOK(s) /\ HandshakeOK(s) /\ JobOK(s)
    /\ QueueOK(s) /\ InHandOK(s) /\ SentOK(s) /\ PeerOK(s)

IInv == TypeInv /\ \A s \in Sockets : SocketInv(s)

-----------------------------------------------------------------------------
(* What each action stores in the SOCKET and in the peer: types and values.  *)

Stored(s, seq, ack, status, connectStatus, queueIn, queueOut) ==
    /\ sck' \in [Sockets -> SOCKET]
    /\ sck'[s].seq = seq /\ sck'[s].ack = ack
    /\ sck'[s].status = status /\ sck'[s].connectStatus = connectStatus
    /\ sck'[s].queueIn = queueIn /\ sck'[s].queueOut = queueOut
    /\ \A r \in Sockets \ {s} : sck'[r] = sck[r]

\* A record that is a SOCKET, stored.
LEMMA Storing ==
    ASSUME sck \in [Sockets -> SOCKET], NEW s \in Sockets,
           NEW c \in SOCKET, sck' = [sck EXCEPT ![s] = c]
    PROVE  Stored(s, c.seq, c.ack, c.status, c.connectStatus, c.queueIn, c.queueOut)
  BY DEF Stored

\* A queue stored.
LEMMA StoringQueueOut ==
    ASSUME sck \in [Sockets -> SOCKET], NEW s \in Sockets, NEW q \in Seq(Messages),
           sck' = [sck EXCEPT ![s].queueOut = q]
    PROVE  Stored(s, sck[s].seq, sck[s].ack, sck[s].status, sck[s].connectStatus,
                  sck[s].queueIn, q)
  BY DEF Stored, SOCKET

LEMMA StoringQueueIn ==
    ASSUME sck \in [Sockets -> SOCKET], NEW s \in Sockets, NEW q \in Seq(Messages),
           sck' = [sck EXCEPT ![s].queueIn = q]
    PROVE  Stored(s, sck[s].seq, sck[s].ack, sck[s].status, sck[s].connectStatus,
                  q, sck[s].queueOut)
  BY DEF Stored, SOCKET

LEMMA AppStores ==
    ASSUME TypeOK, NEW s \in Sockets
    PROVE  LET c == sck[s] IN
           /\ Connect(s) => Stored(s, 0, 0, "S_SYN", "S_SYN", c.queueIn, c.queueOut)
           /\ WriteQueue(s) =>
                /\ Message(s, written[s] + 1) \in Messages
                /\ Stored(s, c.seq, c.ack, c.status, c.connectStatus, c.queueIn,
                          Append(c.queueOut, Message(s, written[s] + 1)))
           /\ WriteStatus(s) =>
                Stored(s, c.seq, c.ack, "S_WRITE", c.connectStatus, c.queueIn, c.queueOut)
           /\ Read(s) =>
                Stored(s, c.seq, c.ack, c.status, c.connectStatus, Tail(c.queueIn), c.queueOut)
           /\ CloseStatus(s) =>
                Stored(s, c.seq, c.ack, "S_FIN", c.connectStatus, c.queueIn, c.queueOut)
<1> DEFINE c == sck[s]
<1>1. c \in SOCKET /\ sck \in [Sockets -> SOCKET]
  BY DEF TypeOK
<1>2. ASSUME Connect(s)
      PROVE  Stored(s, 0, 0, "S_SYN", "S_SYN", c.queueIn, c.queueOut)
  <2> DEFINE r == [c EXCEPT !.seq = 0, !.ack = 0, !.status = "S_SYN", !.connectStatus = "S_SYN"]
  <2>1. sck' = [sck EXCEPT ![s] = r]
    BY <1>2 DEF Connect
  <2>2. /\ r \in SOCKET /\ r.seq = 0 /\ r.ack = 0 /\ r.status = "S_SYN"
        /\ r.connectStatus = "S_SYN" /\ r.queueIn = c.queueIn /\ r.queueOut = c.queueOut
    BY <1>1 DEF SOCKET, Statuses
  <2> QED
    BY <1>1, <2>1, <2>2 DEF Stored
<1>3. ASSUME WriteQueue(s)
      PROVE  /\ Message(s, written[s] + 1) \in Messages
             /\ Stored(s, c.seq, c.ack, c.status, c.connectStatus, c.queueIn,
                       Append(c.queueOut, Message(s, written[s] + 1)))
  <2> DEFINE q == Append(c.queueOut, Message(s, written[s] + 1))
  <2>1. sck' = [sck EXCEPT ![s].queueOut = q]
    BY <1>3 DEF WriteQueue, Message
  <2>2. Message(s, written[s] + 1) \in Messages
    <3>1. written[s] \in 0 .. MaxWrites /\ MaxWrites \in Nat
      BY TcpAssumption DEF TypeOK
    <3>2. written[s] + 1 \in Nat
      BY <3>1
    <3> QED
      BY <3>2 DEF Messages, Message
  <2>3. q \in Seq(Messages)
    BY <1>1, <2>2 DEF SOCKET
  <2> HIDE DEF q
  <2>4. Stored(s, c.seq, c.ack, c.status, c.connectStatus, c.queueIn, q)
    BY <1>1, <2>1, <2>3, StoringQueueOut
  <2> QED
    BY <2>2, <2>4 DEF q
<1>4. ASSUME WriteStatus(s)
      PROVE  Stored(s, c.seq, c.ack, "S_WRITE", c.connectStatus, c.queueIn, c.queueOut)
  BY <1>1, <1>4 DEF WriteStatus, SOCKET, Statuses, Stored
<1>5. ASSUME Read(s)
      PROVE  Stored(s, c.seq, c.ack, c.status, c.connectStatus, Tail(c.queueIn), c.queueOut)
  <2> DEFINE q == Tail(c.queueIn)
  <2>1. sck' = [sck EXCEPT ![s].queueIn = q] /\ c.queueIn # <<>>
    BY <1>5 DEF Read
  <2>2. q \in Seq(Messages)
    BY <1>1, <2>1 DEF SOCKET
  <2> HIDE DEF q
  <2>3. Stored(s, c.seq, c.ack, c.status, c.connectStatus, q, c.queueOut)
    BY <1>1, <2>1, <2>2, StoringQueueIn
  <2> QED
    BY <2>3 DEF q
<1>6. ASSUME CloseStatus(s)
      PROVE  Stored(s, c.seq, c.ack, "S_FIN", c.connectStatus, c.queueIn, c.queueOut)
  BY <1>1, <1>6 DEF CloseStatus, SOCKET, Statuses, Stored
<1> QED
  BY <1>2, <1>3, <1>4, <1>5, <1>6

\* The numbers a segment uses up.
LEMMA SegmentLength ==
    ASSUME NEW seg \in Segments
    PROVE  /\ SeqLen(seg) \in Nat
           /\ seg.flags \cap {"SYN", "FIN"} # {} => SeqLen(seg) = Len(seg.data) + 1
           /\ seg.flags \cap {"SYN", "FIN"} = {} => SeqLen(seg) = Len(seg.data)
<1>1. Len(seg.data) \in Nat
  BY DEF Segments
<1>2. CASE seg.flags \cap {"SYN", "FIN"} # {}
  BY <1>1, <1>2 DEF SeqLen
<1>3. CASE ~(seg.flags \cap {"SYN", "FIN"} # {})
  <2>1. SeqLen(seg) = Len(seg.data) + 0
    BY <1>3 DEF SeqLen
  <2> QED
    BY <1>1, <1>3, <2>1
<1> QED
  BY <1>2, <1>3

LEMMA TxStores ==
    ASSUME TypeOK
    PROVE  LET s == tx.sck
               c == sck[s]
               write == tx.job = "S_WRITE"
           IN
           /\ TxClear => Stored(s, c.seq, c.ack, "S_OPEN", c.connectStatus, c.queueIn, c.queueOut)
           /\ TxBuild /\ (write => c.queueOut # <<>>) =>
                Stored(s, c.seq, c.ack, c.status, c.connectStatus, c.queueIn,
                       IF write THEN Tail(c.queueOut) ELSE c.queueOut)
           /\ TxSend => Stored(s, SentSeq(tx.seg), c.ack, c.status, TxConnectStatus(s),
                               c.queueIn, c.queueOut)
<1> DEFINE s == tx.sck
<1> DEFINE c == sck[s]
<1>1. s \in Sockets /\ c \in SOCKET /\ sck \in [Sockets -> SOCKET]
  BY DEF TypeOK
<1>2. ASSUME TxClear
      PROVE  Stored(s, c.seq, c.ack, "S_OPEN", c.connectStatus, c.queueIn, c.queueOut)
  <2>1. sck' = [sck EXCEPT ![s].status = "S_OPEN"]
    BY <1>2 DEF TxClear, ClearedStatus
  <2> QED
    BY <1>1, <2>1 DEF SOCKET, Statuses, Stored
<1>3. ASSUME TxBuild, tx.job = "S_WRITE" => c.queueOut # <<>>
      PROVE  Stored(s, c.seq, c.ack, c.status, c.connectStatus, c.queueIn,
                    IF tx.job = "S_WRITE" THEN Tail(c.queueOut) ELSE c.queueOut)
  <2> DEFINE q == IF tx.job = "S_WRITE" THEN Tail(c.queueOut) ELSE c.queueOut
  <2>1. sck' = [sck EXCEPT ![s].queueOut = q]
    BY <1>3 DEF TxBuild
  <2>2. q \in Seq(Messages)
    BY <1>1, <1>3 DEF SOCKET
  <2> HIDE DEF q
  <2>3. Stored(s, c.seq, c.ack, c.status, c.connectStatus, c.queueIn, q)
    BY <1>1, <2>1, <2>2, StoringQueueOut
  <2> QED
    BY <2>3 DEF q
<1>4. ASSUME TxSend
      PROVE  Stored(s, SentSeq(tx.seg), c.ack, c.status, TxConnectStatus(s), c.queueIn, c.queueOut)
  <2> DEFINE r == [c EXCEPT !.seq = SentSeq(tx.seg), !.connectStatus = TxConnectStatus(s)]
  <2>1. sck' = [sck EXCEPT ![s] = r]
    BY <1>4 DEF TxSend
  <2>2. SentSeq(tx.seg) \in Nat
    <3>1. tx.seg \in Segments
      BY <1>4 DEF TxSend, TypeOK
    <3>2. tx.seg.sck \in Sockets /\ Len(tx.seg.data) \in Nat
      BY <3>1 DEF Segments
    <3>3. sck[tx.seg.sck].seq \in Nat
      BY <1>1, <3>2 DEF SOCKET
    <3>4. SeqLen(tx.seg) \in Nat
      BY <3>1, SegmentLength
    <3> QED
      BY <3>3, <3>4 DEF SentSeq
  <2>3. TxConnectStatus(s) \in Statuses
    BY <1>1 DEF SOCKET, TxConnectStatus, Statuses
  <2>4. /\ r \in SOCKET /\ r.seq = SentSeq(tx.seg) /\ r.connectStatus = TxConnectStatus(s)
        /\ r.ack = c.ack /\ r.status = c.status /\ r.queueIn = c.queueIn /\ r.queueOut = c.queueOut
    BY <1>1, <2>2, <2>3 DEF SOCKET
  <2> QED
    BY <1>1, <2>1, <2>4 DEF Stored
<1> QED
  BY <1>2, <1>3, <1>4

\* The socket networking_rx_sort() is at.
LEMMA RxPlace ==
    ASSUME TypeOK, rx.at # 0
    PROVE  RxSocket \in Sockets /\ rx.seg \in Segments
<1>1. rx.at \in 1 .. Len(SocketList) /\ rx.seg \in Segments
  BY DEF TypeOK
<1> QED
  BY <1>1, TcpAssumption DEF RxSocket

\* What its stores make of the SOCKET.
LEMMA RxStores ==
    ASSUME TypeOK
    PROVE  LET s == RxSocket
               c == sck[s]
           IN
           /\ RxStore =>
                Stored(s, c.seq, IF rx.kind = "ack" THEN c.ack ELSE AckAfter(c.ack, rx.kind),
                       c.status, IF rx.kind = "ack" THEN "S_OPEN" ELSE c.connectStatus,
                       c.queueIn, c.queueOut)
           /\ RxStatus => Stored(s, c.seq, c.ack, "S_ACK", c.connectStatus, c.queueIn, c.queueOut)
           /\ RxPush => Stored(s, c.seq, c.ack, c.status, c.connectStatus,
                               c.queueIn \o rx.seg.data, c.queueOut)
<1> DEFINE s == RxSocket
<1> DEFINE c == sck[s]
<1>1. ASSUME rx.at # 0
      PROVE  /\ s \in Sockets /\ c \in SOCKET /\ sck \in [Sockets -> SOCKET]
             /\ rx.seg.seq \in Nat /\ rx.seg.data \in Seq(Messages)
  BY <1>1, RxPlace DEF TypeOK, Segments
<1> HIDE DEF s
<1>2. ASSUME RxStore
      PROVE  Stored(s, c.seq, IF rx.kind = "ack" THEN c.ack ELSE AckAfter(c.ack, rx.kind),
                    c.status, IF rx.kind = "ack" THEN "S_OPEN" ELSE c.connectStatus,
                    c.queueIn, c.queueOut)
  <2>1. rx.at # 0
    BY <1>2 DEF RxStore, RxAt
  <2>2. CASE rx.kind = "ack"
    <3>1. sck' = [sck EXCEPT ![s].connectStatus = "S_OPEN"]
      BY <1>2, <2>2 DEF RxStore, s
    <3> QED
      BY <1>1, <2>1, <2>2, <3>1 DEF SOCKET, Statuses, Stored
  <2>3. CASE rx.kind # "ack"
    <3> DEFINE n == AckAfter(c.ack, rx.kind)
    <3>1. n \in Nat
      <4>1. c.ack \in Nat /\ Len(rx.seg.data) \in Nat /\ rx.seg.seq \in Nat
        BY <1>1, <2>1 DEF SOCKET
      <4> QED
        BY <4>1 DEF AckAfter
    <3>2. sck' = [sck EXCEPT ![s].ack = n]
      BY <1>2, <2>3 DEF RxStore, s
    <3> HIDE DEF n
    <3>3. Stored(s, c.seq, n, c.status, c.connectStatus, c.queueIn, c.queueOut)
      BY <1>1, <2>1, <3>1, <3>2 DEF SOCKET, Stored
    <3> QED
      BY <2>3, <3>3 DEF n
  <2> QED
    BY <2>2, <2>3
<1>3. ASSUME RxStatus
      PROVE  Stored(s, c.seq, c.ack, "S_ACK", c.connectStatus, c.queueIn, c.queueOut)
  <2>1. rx.at # 0 /\ sck' = [sck EXCEPT ![s].status = "S_ACK"]
    BY <1>3 DEF RxStatus, RxAt, s
  <2> QED
    BY <1>1, <2>1 DEF SOCKET, Statuses, Stored
<1>4. ASSUME RxPush
      PROVE  Stored(s, c.seq, c.ack, c.status, c.connectStatus, c.queueIn \o rx.seg.data, c.queueOut)
  <2> DEFINE q == c.queueIn \o rx.seg.data
  <2>1. rx.at # 0 /\ sck' = [sck EXCEPT ![s].queueIn = q]
    BY <1>4 DEF RxPush, RxAt, s
  <2>2. c.queueIn \in Seq(Messages)
    BY <1>1, <2>1 DEF SOCKET
  <2>3. q \in Seq(Messages)
    BY <1>1, <2>1, <2>2
  <2> HIDE DEF q
  <2>4. Stored(s, c.seq, c.ack, c.status, c.connectStatus, q, c.queueOut)
    BY <1>1, <2>1, <2>3, StoringQueueIn
  <2> QED
    BY <2>4 DEF q
<1> QED
  BY <1>2, <1>3, <1>4 DEF s

-----------------------------------------------------------------------------
(* What the peer does: the segments it makes and what it remembers.          *)

PeerStored(s, listening, finSeen, rcvNxt, sndUna, sndNxt, received) ==
    /\ peer' \in [Sockets -> PeerStates]
    /\ peer'[s].listening = listening /\ peer'[s].finSeen = finSeen
    /\ peer'[s].rcvNxt = rcvNxt /\ peer'[s].sndUna = sndUna
    /\ peer'[s].sndNxt = sndNxt /\ peer'[s].received = received
    /\ \A r \in Sockets \ {s} : peer'[r] = peer[r]

\* What the peer sends at a place of its stream is a segment of that place.
LEMMA PeerSegments ==
    ASSUME NEW s \in Sockets, NEW n \in Isn[s] .. Isn[s] + PeerBytes + 1, NEW r \in Nat
    PROVE  PeerSegment(s, n, r) \in Segments /\ FromPeer(PeerSegment(s, n, r))
<1>1. Isn[s] \in Nat /\ PeerBytes \in Nat /\ n \in Nat
  BY TcpAssumption
<1>2. CASE n = Isn[s]
  BY <1>1, <1>2 DEF PeerSegment, PeerFlags, Segments, FromPeer
<1>3. CASE n # Isn[s] /\ n <= Isn[s] + PeerBytes
  <2>1. PeerSegment(s, n, r) = [sck |-> s, flags |-> {"PSH", "ACK"}, seq |-> n, ack |-> r,
                                data |-> <<Message(s, n - Isn[s])>>]
    BY <1>3 DEF PeerSegment, PeerFlags, Message
  <2>2. n - Isn[s] \in 1 .. PeerBytes
    BY <1>1, <1>3
  <2>3. <<Message(s, n - Isn[s])>> \in Seq(Messages)
    BY <2>2 DEF Message, Messages
  <2> QED
    BY <1>1, <2>1, <2>2, <2>3 DEF Segments, FromPeer
<1>4. CASE n # Isn[s] /\ ~(n <= Isn[s] + PeerBytes)
  BY <1>1, <1>4 DEF PeerSegment, PeerFlags, Segments, FromPeer
<1> QED
  BY <1>2, <1>3, <1>4

LEMMA PureAcks ==
    ASSUME NEW s \in Sockets, NEW p, p.sndNxt \in Nat, p.rcvNxt \in Nat, p.sndNxt >= Isn[s]
    PROVE  PureAck(s, p) \in Segments /\ FromPeer(PureAck(s, p))
  BY DEF PureAck, Segments, FromPeer

LEMMA PeerStores ==
    ASSUME TypeOK, NEW s \in Sockets
    PROVE  LET p    == peer[s]
               seg  == Head(toPeer[s])
               next == seg.seq = p.rcvNxt
           IN
           /\ PeerAccept(s) =>
                PeerStored(s, FALSE, p.finSeen, seg.seq + 1, p.sndUna, Isn[s] + 1, p.received)
           /\ PeerReceive(s) =>
                PeerStored(s, p.listening, p.finSeen \/ (next /\ "FIN" \in seg.flags),
                           IF next THEN p.rcvNxt + SeqLen(seg) ELSE p.rcvNxt,
                           IF seg.ack \in p.sndUna .. p.sndNxt THEN seg.ack ELSE p.sndUna,
                           p.sndNxt,
                           IF next THEN p.received \o seg.data ELSE p.received)
           /\ PeerSendNew(s) =>
                PeerStored(s, p.listening, p.finSeen, p.rcvNxt, p.sndUna, p.sndNxt + 1, p.received)
<1> DEFINE p == peer[s]
<1> DEFINE seg == Head(toPeer[s])
<1> DEFINE next == seg.seq = p.rcvNxt
<1>1. p \in PeerStates /\ peer \in [Sockets -> PeerStates]
  BY DEF TypeOK
<1>2. ASSUME PeerAccept(s)
      PROVE  PeerStored(s, FALSE, p.finSeen, seg.seq + 1, p.sndUna, Isn[s] + 1, p.received)
  <2> DEFINE q == [p EXCEPT !.listening = FALSE, !.rcvNxt = seg.seq + 1, !.sndNxt = Isn[s] + 1]
  <2>1. peer' = [peer EXCEPT ![s] = q]
    BY <1>2 DEF PeerAccept
  <2>2. seg.seq + 1 \in Nat /\ Isn[s] + 1 \in Nat
    <3>1. seg \in Segments
      BY <1>2 DEF PeerAccept, TypeOK
    <3> QED
      BY SMTT(30), <3>1, TcpAssumption DEF Segments
  <2>3. /\ q \in PeerStates /\ q.listening = FALSE /\ q.finSeen = p.finSeen
        /\ q.rcvNxt = seg.seq + 1 /\ q.sndUna = p.sndUna /\ q.sndNxt = Isn[s] + 1
        /\ q.received = p.received
    BY <1>1, <2>2 DEF PeerStates
  <2> QED
    BY <1>1, <2>1, <2>3 DEF PeerStored
<1>3. ASSUME PeerReceive(s)
      PROVE  PeerStored(s, p.listening, p.finSeen \/ (next /\ "FIN" \in seg.flags),
                        IF next THEN p.rcvNxt + SeqLen(seg) ELSE p.rcvNxt,
                        IF seg.ack \in p.sndUna .. p.sndNxt THEN seg.ack ELSE p.sndUna,
                        p.sndNxt,
                        IF next THEN p.received \o seg.data ELSE p.received)
  <2> DEFINE una == IF seg.ack \in p.sndUna .. p.sndNxt THEN seg.ack ELSE p.sndUna
  <2> DEFINE rcv == IF next THEN p.rcvNxt + SeqLen(seg) ELSE p.rcvNxt
  <2> DEFINE rec == IF next THEN p.received \o seg.data ELSE p.received
  <2> DEFINE fin == p.finSeen \/ (next /\ "FIN" \in seg.flags)
  <2> DEFINE q == [p EXCEPT !.sndUna = una, !.rcvNxt = rcv, !.received = rec, !.finSeen = fin]
  <2>1. peer' = [peer EXCEPT ![s] = q]
    BY <1>3 DEF PeerReceive
  <2>2. seg \in Segments
    BY <1>3 DEF PeerReceive, TypeOK
  <2>3. SeqLen(seg) \in Nat /\ seg.ack \in Nat /\ seg.data \in Seq(Messages)
    BY <2>2, SegmentLength DEF Segments
  <2>4. una \in Nat /\ rcv \in Nat /\ rec \in Seq(Messages) /\ fin \in BOOLEAN
    BY <1>1, <2>3 DEF PeerStates
  <2> HIDE DEF una, rcv, rec, fin
  <2>5. /\ q \in PeerStates /\ q.listening = p.listening /\ q.finSeen = fin
        /\ q.rcvNxt = rcv /\ q.sndUna = una /\ q.sndNxt = p.sndNxt /\ q.received = rec
    BY <1>1, <2>4 DEF PeerStates
  <2> HIDE DEF q
  <2>6. PeerStored(s, p.listening, fin, rcv, una, p.sndNxt, rec)
    BY <1>1, <2>1, <2>5 DEF PeerStored
  <2> QED
    BY <2>6 DEF una, rcv, rec, fin
<1>4. ASSUME PeerSendNew(s)
      PROVE  PeerStored(s, p.listening, p.finSeen, p.rcvNxt, p.sndUna, p.sndNxt + 1, p.received)
  <2>1. peer' = [peer EXCEPT ![s].sndNxt = p.sndNxt + 1]
    BY <1>4 DEF PeerSendNew
  <2> DEFINE n == p.sndNxt + 1
  <2>2. n \in Nat
    BY <1>1 DEF PeerStates
  <2> HIDE DEF n
  <2>3. PeerStored(s, p.listening, p.finSeen, p.rcvNxt, p.sndUna, n, p.received)
    BY <1>1, <2>1, <2>2 DEF PeerStored, PeerStates, n
  <2> QED
    BY <2>3 DEF n
<1> QED
  BY <1>2, <1>3, <1>4

-----------------------------------------------------------------------------
(* Type correctness, for any number of sockets.                              *)

LEMMA FirstSocket == SocketList[1] \in Sockets /\ 1 \in 0 .. Len(SocketList)
<1>1. 1 \in DOMAIN SocketList /\ Len(SocketList) \in Nat \ {0}
  BY TcpAssumption
<1> QED
  BY <1>1 DEF Sockets

LEMMA InitType == Init => TypeInv
<1> SUFFICES ASSUME Init PROVE TypeInv
  OBVIOUS
<1>1. Isn \in [Sockets -> Nat] /\ 0 \in 0 .. MaxWrites /\ 0 \in 0 .. Len(SocketList)
  BY TcpAssumption
<1>2. TypeOK
  <2>1. sck \in [Sockets -> SOCKET]
    BY DEF Init, SOCKET, Statuses
  <2>2. peer \in [Sockets -> PeerStates]
    BY <1>1 DEF Init, PeerStates
  <2>3. app \in [Sockets -> Locations] /\ written \in [Sockets -> 0 .. MaxWrites]
    BY <1>1 DEF Init, Locations
  <2>4. got \in [Sockets -> Seq(Messages)] /\ toPeer \in [Sockets -> Seq(Segments)]
    BY DEF Init
  <2>5. toKernel \in Seq(Segments) /\ Len(toKernel) <= MaxWire
    BY TcpAssumption DEF Init
  <2> QED
    BY <1>1, <2>1, <2>2, <2>3, <2>4, <2>5, FirstSocket
      DEF Init, TypeOK, TxIdle, RxIdle, Statuses, RxSteps, Kinds
<1>3. TxJobOK /\ ArrivingOK
  BY DEF Init, TxJobOK, ArrivingOK, TxIdle, RxIdle
<1>4. \A s \in Sockets : PeerNumbersOK(s)
  BY TcpAssumption DEF Init, PeerNumbersOK
<1> QED
  BY <1>2, <1>3, <1>4 DEF TypeInv

\* What no task but the RX task and no frame disturbs.
LEMMA ArrivingKept ==
    ASSUME ArrivingOK, UNCHANGED <<toKernel, rx>>
    PROVE  ArrivingOK'
  BY DEF ArrivingOK

LEMMA NumbersKept ==
    ASSUME \A s \in Sockets : PeerNumbersOK(s), UNCHANGED peer
    PROVE  (\A s \in Sockets : PeerNumbersOK(s))'
  BY DEF PeerNumbersOK

LEMMA AppType ==
    ASSUME TypeInv, NEW s \in Sockets, App(s)
    PROVE  TypeInv'
<1>0. TypeOK
  BY DEF TypeInv
<1>1. UNCHANGED <<tx, rx, peer, toPeer, toKernel, cut>>
  BY DEF App, Connect, Connected, WriteQueue, WriteStatus, Read, CloseCall, CloseTest, CloseStatus
<1>2. sck' \in [Sockets -> SOCKET]
  BY <1>0, AppStores DEF App, Stored, Connected, CloseCall, CloseTest, TypeOK
<1>3. app' \in [Sockets -> Locations]
  <2>1. app' = app \/ \E place \in Locations : app' = [app EXCEPT ![s] = place]
    BY ZenonT(30) DEF App, Connect, Connected, WriteQueue, WriteStatus, Read, CloseCall, CloseTest,
        CloseStatus, Goto, Locations
  <2> QED
    BY <1>0, <2>1 DEF TypeOK
<1>4. written' \in [Sockets -> 0 .. MaxWrites]
  <2>1. CASE WriteQueue(s)
    <3>1. written[s] \in 0 .. MaxWrites /\ written[s] < MaxWrites
      BY <1>0, <2>1 DEF WriteQueue, TypeOK
    <3>2. written[s] + 1 \in 0 .. MaxWrites
      BY <3>1, TcpAssumption
    <3> QED
      BY <1>0, <2>1, <3>2 DEF WriteQueue, TypeOK
  <2>2. CASE ~WriteQueue(s)
    BY <1>0, <2>2 DEF TypeOK, App, Connect, Connected, WriteStatus, Read, CloseCall,
        CloseTest, CloseStatus
  <2> QED
    BY <2>1, <2>2
<1>5. got' \in [Sockets -> Seq(Messages)]
  <2>1. CASE Read(s)
    <3>1. Head(sck[s].queueIn) \in Messages
      <4>1. sck[s].queueIn \in Seq(Messages) /\ sck[s].queueIn # <<>>
        BY <1>0, <2>1 DEF Read, TypeOK, SOCKET
      <4> QED
        BY <4>1
    <3> QED
      BY <1>0, <2>1, <3>1 DEF Read, TypeOK
  <2>2. CASE ~Read(s)
    BY <1>0, <2>2 DEF TypeOK, App, Connect, Connected, WriteQueue, WriteStatus, CloseCall,
        CloseTest, CloseStatus
  <2> QED
    BY <2>1, <2>2
<1>6. TypeOK'
  BY <1>0, <1>1, <1>2, <1>3, <1>4, <1>5 DEF TypeOK
<1>7. TxJobOK'
  <2>1. \A r \in Sockets : sck[r].queueOut # <<>> => sck'[r].queueOut # <<>>
    <3>1. CASE WriteQueue(s)
      <4>1. sck[s].queueOut \in Seq(Messages)
        BY <1>0 DEF TypeOK, SOCKET
      <4>2. Append(sck[s].queueOut, Message(s, written[s] + 1)) # <<>>
        BY <4>1
      <4> QED
        BY <1>0, <3>1, <4>2, AppStores DEF Stored
    <3>2. CASE ~WriteQueue(s)
      BY <1>0, <3>2, AppStores DEF App, Stored, Connected, CloseCall, CloseTest
    <3> QED
      BY <3>1, <3>2
  <2>2. tx.sck \in Sockets
    BY <1>0 DEF TypeOK
  <2> QED
    BY <1>1, <2>1, <2>2 DEF TypeInv, TxJobOK
<1> QED
  BY <1>1, <1>6, <1>7, ArrivingKept, NumbersKept DEF TypeInv

LEMMA TxType ==
    ASSUME TypeInv, Tx
    PROVE  TypeInv'
<1>0. TypeOK /\ TxJobOK
  BY DEF TypeInv
<1>1. UNCHANGED <<app, written, got, rx, peer, toKernel, cut>>
  BY DEF Tx, TxSelect, TxClear, TxBuild, TxSend
<1>2. tx.sck \in Sockets
  BY <1>0 DEF TypeOK
<1>3. ASSUME NEW s \in Sockets, TxSelect(s)
      PROVE  TypeOK' /\ TxJobOK'
  <2>1. tx' = [at |-> IF sck[s].status = "S_WRITE" THEN "build" ELSE "clear",
               job |-> sck[s].status, sck |-> s, seg |-> NoSegment]
    BY <1>3 DEF TxSelect, TxIdle
  <2>2. sck[s].status \in {"S_SYN", "S_ACK", "S_FIN", "S_WRITE"}
    BY <1>3 DEF TxSelect
  <2>3. TypeOK'
    <3>1. /\ tx' \in [at : {"idle", "clear", "build", "send"}, job : Statuses, sck : Sockets,
                      seg : Segments \union {NoSegment}]
          /\ tx'.at # "send"
      BY <2>1, <2>2 DEF Statuses
    <3> QED
      BY <1>0, <1>1, <1>3, <3>1 DEF TypeOK, TxSelect
  <2>4. TxJobOK'
    BY <1>3, <2>1, <2>2 DEF TxJobOK, TxSelect
  <2> QED
    BY <2>3, <2>4
<1>4. ASSUME TxClear
      PROVE  TypeOK' /\ TxJobOK'
  <2>1. /\ tx' = [tx EXCEPT !.at = "build"] /\ tx.at = "clear" /\ toPeer' = toPeer
        /\ tx'.at = "build" /\ tx'.job = tx.job
    BY <1>0, <1>4 DEF TxClear, TypeOK
  <2>2. sck' \in [Sockets -> SOCKET]
    BY <1>0, <1>4, TxStores DEF Stored
  <2>3. TypeOK'
    BY <1>0, <1>1, <2>1, <2>2 DEF TypeOK
  <2>4. TxJobOK'
    BY <1>0, <2>1 DEF TxJobOK
  <2> QED
    BY <2>3, <2>4
<1>5. ASSUME TxBuild
      PROVE  TypeOK' /\ TxJobOK'
  <2> DEFINE s == tx.sck
  <2> DEFINE data == IF tx.job = "S_WRITE" THEN <<Head(sck[s].queueOut)>> ELSE <<>>
  <2> DEFINE seg == [sck |-> s, flags |-> TxFlags, data |-> data,
                     seq |-> sck[s].seq, ack |-> sck[s].ack]
  <2>1. tx.at = "build" /\ tx' = [tx EXCEPT !.at = "send", !.seg = seg] /\ toPeer' = toPeer
    BY <1>5 DEF TxBuild
  <2>2. tx.job = "S_WRITE" => sck[s].queueOut # <<>>
    BY <1>0, <2>1 DEF TxJobOK
  <2>3. sck' \in [Sockets -> SOCKET]
    BY <1>0, <1>5, <2>2, TxStores DEF Stored
  <2>4. sck[s] \in SOCKET
    BY <1>0, <1>2 DEF TypeOK
  <2>5. data \in Seq(Messages)
    <3>1. CASE tx.job = "S_WRITE"
      <4>1. Head(sck[s].queueOut) \in Messages
        BY <2>2, <2>4, <3>1 DEF SOCKET
      <4> QED
        BY <3>1, <4>1
    <3>2. CASE tx.job # "S_WRITE"
      BY <3>2
    <3> QED
      BY <3>1, <3>2
  <2>6. TxFlags \in SUBSET {"SYN", "ACK", "PSH", "FIN"}
    BY <1>0, <2>1 DEF TxFlags, TxJobOK
  <2> HIDE DEF data
  <2>7. seg \in Segments
    BY <1>2, <2>4, <2>5, <2>6 DEF Segments, SOCKET
  <2> HIDE DEF seg
  <2>8. TypeOK'
    BY <1>0, <1>1, <2>1, <2>3, <2>7 DEF TypeOK
  <2>9. TxJobOK'
    <3>1. tx'.at = "send" /\ tx'.job = tx.job
      BY <1>0, <2>1 DEF TypeOK
    <3> QED
      BY <1>0, <2>1, <3>1 DEF TxJobOK
  <2> QED
    BY <2>8, <2>9
<1>6. ASSUME TxSend
      PROVE  TypeOK' /\ TxJobOK'
  <2>1. sck' \in [Sockets -> SOCKET]
    BY <1>0, <1>6, TxStores DEF Stored
  <2>2. tx' = TxIdle /\ toPeer' = [toPeer EXCEPT ![tx.sck] = Append(@, tx.seg)]
    BY <1>6 DEF TxSend
  <2>3. tx.seg \in Segments
    BY <1>0, <1>6 DEF TxSend, TypeOK
  <2>4. toPeer' \in [Sockets -> Seq(Segments)]
    BY <1>0, <1>2, <2>2, <2>3 DEF TypeOK
  <2>6. TypeOK'
    BY <1>0, <1>1, <2>1, <2>2, <2>4, FirstSocket DEF TypeOK, TxIdle, Statuses
  <2>7. TxJobOK'
    BY <2>2 DEF TxJobOK, TxIdle
  <2> QED
    BY <2>6, <2>7
<1> QED
  BY <1>1, <1>3, <1>4, <1>5, <1>6, ArrivingKept, NumbersKept DEF Tx, TypeInv

\* Where networking_rx_sort() can be.
RxPlaces == [at : 0 .. Len(SocketList), step : RxSteps, kind : Kinds,
             seg : Segments \union {NoSegment}]

LEMMA RxMoves ==
    ASSUME TypeOK, rx.at # 0, RxTest \/ RxMatch \/ RxStore \/ RxStatus \/ RxPush
    PROVE  rx' \in RxPlaces /\ (rx'.at # 0 => rx'.seg = rx.seg)
<1>1. rx \in RxPlaces
  BY DEF TypeOK, RxPlaces
<1>2. ASSUME rx' = RxIdle
      PROVE  rx' \in RxPlaces /\ rx'.at = 0
  BY <1>2, TcpAssumption DEF RxIdle, RxPlaces, RxSteps, Kinds
<1>3. ASSUME rx' = RxNext
      PROVE  rx' \in RxPlaces /\ (rx'.at # 0 => rx'.seg = rx.seg)
  <2>1. CASE rx.at = Len(SocketList)
    BY <1>2, <1>3, <2>1 DEF RxNext
  <2>2. CASE rx.at # Len(SocketList)
    <3>1. rx' = [at |-> rx.at + 1, step |-> "test", kind |-> "none", seg |-> rx.seg]
      BY <1>3, <2>2 DEF RxNext, RxIdle
    <3>2. rx.at + 1 \in 0 .. Len(SocketList)
      <4>1. rx.at \in 0 .. Len(SocketList) /\ Len(SocketList) \in Nat
        BY <1>1, TcpAssumption DEF RxPlaces
      <4> QED
        BY <2>2, <4>1
    <3> QED
      BY <1>1, <3>1, <3>2 DEF RxPlaces, RxSteps, Kinds
  <2> QED
    BY <2>1, <2>2
<1>4. ASSUME NEW step \in RxSteps, rx' = [rx EXCEPT !.step = step]
      PROVE  rx' \in RxPlaces /\ rx'.seg = rx.seg
  BY <1>1, <1>4 DEF RxPlaces
<1>5. CASE RxTest
  BY <1>3, <1>4, <1>5 DEF RxTest, RxSteps
<1>6. CASE RxMatch
  <2> DEFINE kind == Kind(sck[RxSocket], rx.seg)
  <2>1. kind \in Kinds
    BY DEF Kind, Kinds
  <2>2. rx' = RxNext \/ rx' = [rx EXCEPT !.step = "store", !.kind = kind]
    BY <1>6 DEF RxMatch
  <2> HIDE DEF kind
  <2> QED
    BY <1>1, <1>3, <2>1, <2>2 DEF RxPlaces, RxSteps
<1>7. CASE RxStore
  BY <1>3, <1>4, <1>7 DEF RxStore, RxSteps
<1>8. CASE RxStatus
  BY <1>3, <1>4, <1>8 DEF RxStatus, RxSteps
<1>9. CASE RxPush
  BY <1>2, <1>9 DEF RxPush
<1> QED
  BY <1>5, <1>6, <1>7, <1>8, <1>9

LEMMA RxType ==
    ASSUME TypeInv, Rx
    PROVE  TypeInv'
<1>0. TypeOK /\ TxJobOK /\ ArrivingOK
  BY DEF TypeInv
<1>1. UNCHANGED <<app, written, got, tx, peer, toPeer, cut>>
  BY DEF Rx, RxTake, RxTest, RxMatch, RxStore, RxStatus, RxPush
<1>2. ASSUME RxTake
      PROVE  TypeInv'
  <2>1. /\ rx' = [at |-> 1, step |-> "test", kind |-> "none", seg |-> Head(toKernel)]
        /\ toKernel' = Tail(toKernel) /\ toKernel # <<>> /\ sck' = sck
    BY <1>2 DEF RxTake, RxIdle
  <2>2. /\ Head(toKernel) \in Segments /\ Tail(toKernel) \in Seq(Segments)
        /\ Len(Tail(toKernel)) <= MaxWire
    BY SMTT(30), <1>0, <2>1, TcpAssumption DEF TypeOK
  <2> DEFINE h == Head(toKernel)
  <2>3. h = toKernel[1] /\ \A i \in DOMAIN Tail(toKernel) : Tail(toKernel)[i] = toKernel[i + 1]
                           /\ i + 1 \in DOMAIN toKernel
    BY <1>0, <2>1 DEF TypeOK
  <2>4. 1 \in DOMAIN toKernel
    BY <1>0, <2>1 DEF TypeOK
  <2>5. ArrivingOK'
    BY <1>0, <2>1, <2>3, <2>4 DEF ArrivingOK, FromPeer
  <2> HIDE DEF h
  <2>8. TypeOK'
    BY <1>0, <1>1, <2>1, <2>2, FirstSocket DEF TypeOK, RxSteps, Kinds
  <2>9. TxJobOK'
    BY <1>0, <1>1, <2>1 DEF TxJobOK
  <2> QED
    BY <1>1, <2>5, <2>8, <2>9, NumbersKept DEF TypeInv
<1>3. ASSUME RxTest \/ RxMatch \/ RxStore \/ RxStatus \/ RxPush
      PROVE  TypeInv'
  <2>1. rx.at # 0 /\ toKernel' = toKernel
    BY <1>3 DEF RxTest, RxMatch, RxStore, RxStatus, RxPush, RxAt
  <2>2. rx' \in RxPlaces /\ (rx'.at # 0 => rx'.seg = rx.seg)
    BY <1>0, <1>3, <2>1, RxMoves
  <2>3. /\ sck' \in [Sockets -> SOCKET]
        /\ \A r \in Sockets : sck'[r].queueOut = sck[r].queueOut
    <3>1. CASE RxTest \/ RxMatch
      BY <1>0, <3>1 DEF RxTest, RxMatch, TypeOK
    <3>2. CASE RxStore \/ RxStatus \/ RxPush
      BY <1>0, <3>2, RxStores DEF Stored
    <3> QED
      BY <1>3, <3>1, <3>2
  <2>4. rx'.at # 0 => rx'.seg \in Segments
    BY <1>0, <2>1, <2>2, RxPlace
  <2>5. TypeOK'
    BY <1>0, <1>1, <2>1, <2>2, <2>3, <2>4 DEF TypeOK, RxPlaces
  <2>6. tx.sck \in Sockets
    BY <1>0 DEF TypeOK
  <2>7. TxJobOK' /\ ArrivingOK'
    BY <1>0, <1>1, <2>1, <2>2, <2>3, <2>6 DEF TxJobOK, ArrivingOK, FromPeer
  <2> QED
    BY <1>1, <2>5, <2>7, NumbersKept DEF TypeInv
<1> QED
  BY <1>2, <1>3 DEF Rx

\* A frame the peer puts on the wire.
LEMMA FrameSent ==
    ASSUME TypeOK, ArrivingOK, NEW seg \in Segments, FromPeer(seg),
           Len(toKernel) < MaxWire, toKernel' = Append(toKernel, seg), rx' = rx
    PROVE  /\ toKernel' \in Seq(Segments) /\ Len(toKernel') <= MaxWire
           /\ ArrivingOK'
<1>1. toKernel \in Seq(Segments) /\ Len(toKernel) \in Nat
  BY DEF TypeOK
<1>2. /\ toKernel' \in Seq(Segments) /\ Len(toKernel') = Len(toKernel) + 1
      /\ \A i \in DOMAIN toKernel' :
            IF i = Len(toKernel) + 1 THEN toKernel'[i] = seg
            ELSE i \in DOMAIN toKernel /\ toKernel'[i] = toKernel[i]
  BY <1>1
<1>3. ArrivingOK'
  BY <1>2 DEF ArrivingOK, FromPeer
<1> QED
  BY <1>1, <1>2, <1>3, TcpAssumption

\* A frame taken from the front of a connection.
LEMMA FrameTaken ==
    ASSUME TypeOK, NEW s \in Sockets, toPeer[s] # <<>>,
           toPeer' = [toPeer EXCEPT ![s] = Tail(@)]
    PROVE  /\ toPeer' \in [Sockets -> Seq(Segments)]
           /\ Head(toPeer[s]) \in Segments /\ Head(toPeer[s]) = toPeer[s][1]
           /\ 1 \in DOMAIN toPeer[s]
           /\ \A i \in DOMAIN toPeer'[s] :
                i + 1 \in DOMAIN toPeer[s] /\ toPeer'[s][i] = toPeer[s][i + 1]
<1>1. toPeer[s] \in Seq(Segments) /\ toPeer'[s] = Tail(toPeer[s])
  BY DEF TypeOK
<1>2. Tail(toPeer[s]) \in Seq(Segments)
  BY <1>1
<1> QED
  BY <1>1, <1>2 DEF TypeOK

LEMMA PeerType ==
    ASSUME TypeInv, NEW s \in Sockets, Peer(s)
    PROVE  TypeInv'
<1>0. TypeOK /\ TxJobOK /\ ArrivingOK /\ PeerNumbersOK(s)
  BY DEF TypeInv
<1> DEFINE p == peer[s]
<1> DEFINE seg == Head(toPeer[s])
<1>1. UNCHANGED <<sck, app, written, got, tx, rx, cut>>
  BY DEF Peer, PeerAccept, PeerReceive, PeerSendNew, PeerSendAgain
<1>2. /\ p.sndUna \in Nat /\ p.sndNxt \in Nat /\ p.rcvNxt \in Nat /\ p.listening \in BOOLEAN
      /\ Isn[s] \in Nat /\ PeerBytes \in Nat
      /\ Isn[s] <= p.sndUna /\ p.sndUna <= p.sndNxt /\ p.sndNxt <= Isn[s] + PeerBytes + 2
      /\ p.listening => p.sndNxt = Isn[s]
  <2>1. p \in PeerStates /\ Isn[s] \in Nat /\ PeerBytes \in Nat
    BY <1>0, TcpAssumption DEF TypeOK
  <2>2. p.sndUna \in Nat /\ p.sndNxt \in Nat /\ p.rcvNxt \in Nat /\ p.listening \in BOOLEAN
    BY <2>1 DEF PeerStates
  <2> QED
    BY <1>0, <2>1, <2>2 DEF PeerNumbersOK
<1>3. TxJobOK'
  BY <1>0, <1>1 DEF TxJobOK
<1>4. ASSUME PeerAccept(s)
      PROVE  TypeInv'
  <2>1. PeerStored(s, FALSE, p.finSeen, seg.seq + 1, p.sndUna, Isn[s] + 1, p.received)
    BY <1>0, <1>4, PeerStores
  <2>2. p.listening
    BY <1>4 DEF PeerAccept
  <2>3. \A r \in Sockets : PeerNumbersOK(r)'
    BY <1>2, <2>1, <2>2 DEF PeerNumbersOK, PeerStored, TypeInv
  <2>4. toPeer' \in [Sockets -> Seq(Segments)] /\ seg.seq + 1 \in Nat
    <3>1. toPeer' \in [Sockets -> Seq(Segments)] /\ seg \in Segments
      BY <1>0, <1>4, FrameTaken DEF PeerAccept
    <3> HIDE DEF seg
    <3>2. seg.seq \in Nat
      BY <3>1 DEF Segments
    <3> QED
      BY <3>1, <3>2
  <2>5. PeerSegment(s, Isn[s], seg.seq + 1) \in Segments
        /\ FromPeer(PeerSegment(s, Isn[s], seg.seq + 1))
    <3>1. Isn[s] \in Isn[s] .. Isn[s] + PeerBytes + 1
      BY <1>2
    <3> QED
      BY <2>4, <3>1, PeerSegments
  <2>6. toKernel' \in Seq(Segments) /\ Len(toKernel') <= MaxWire /\ ArrivingOK'
    BY <1>0, <1>1, <1>4, <2>5, FrameSent DEF PeerAccept
  <2>7. TypeOK'
    BY <1>0, <1>1, <2>1, <2>4, <2>6 DEF TypeOK, PeerStored
  <2> QED
    BY <1>3, <2>3, <2>6, <2>7 DEF TypeInv
<1>5. ASSUME PeerReceive(s)
      PROVE  TypeInv'
  <2> DEFINE moved == [p EXCEPT
                    !.sndUna = IF seg.ack \in p.sndUna .. p.sndNxt THEN seg.ack ELSE @,
                    !.rcvNxt = IF seg.seq = p.rcvNxt THEN @ + SeqLen(seg) ELSE @,
                    !.received = IF seg.seq = p.rcvNxt THEN @ \o seg.data ELSE @,
                    !.finSeen = @ \/ (seg.seq = p.rcvNxt /\ "FIN" \in seg.flags)]
  <2>1. PeerStored(s, p.listening, p.finSeen \/ (seg.seq = p.rcvNxt /\ "FIN" \in seg.flags),
                   IF seg.seq = p.rcvNxt THEN p.rcvNxt + SeqLen(seg) ELSE p.rcvNxt,
                   IF seg.ack \in p.sndUna .. p.sndNxt THEN seg.ack ELSE p.sndUna,
                   p.sndNxt,
                   IF seg.seq = p.rcvNxt THEN p.received \o seg.data ELSE p.received)
    BY <1>0, <1>5, PeerStores
  <2>2. \A r \in Sockets : PeerNumbersOK(r)'
    BY <1>2, <2>1 DEF PeerNumbersOK, PeerStored, TypeInv
  <2>3. toPeer' \in [Sockets -> Seq(Segments)] /\ seg \in Segments
    BY <1>0, <1>5, FrameTaken DEF PeerReceive
  <2>4. peer' = [peer EXCEPT ![s] = moved] /\ p \in PeerStates
    BY <1>0, <1>5 DEF PeerReceive, TypeOK
  <2>5. moved = peer'[s]
    BY <1>0, <2>4 DEF TypeOK
  <2>6. PureAck(s, moved) \in Segments /\ FromPeer(PureAck(s, moved))
    <3>1. peer'[s].sndNxt = p.sndNxt /\ peer'[s].rcvNxt \in Nat
      BY <2>1 DEF PeerStored, PeerStates
    <3> HIDE DEF moved
    <3> QED
      BY <1>2, <2>5, <3>1, PureAcks
  <2>7. \/ UNCHANGED toKernel
        \/ Len(toKernel) < MaxWire /\ toKernel' = Append(toKernel, PureAck(s, moved))
    BY <1>5 DEF PeerReceive
  <2> HIDE DEF moved
  <2>8. toKernel' \in Seq(Segments) /\ Len(toKernel') <= MaxWire /\ ArrivingOK'
    <3>1. CASE UNCHANGED toKernel
      BY <1>0, <1>1, <3>1, ArrivingKept DEF TypeOK
    <3>2. CASE Len(toKernel) < MaxWire /\ toKernel' = Append(toKernel, PureAck(s, moved))
      BY <1>0, <1>1, <2>6, <3>2, FrameSent
    <3> QED
      BY <2>7, <3>1, <3>2
  <2>9. TypeOK'
    BY <1>0, <1>1, <2>1, <2>3, <2>8 DEF TypeOK, PeerStored
  <2> QED
    BY <1>3, <2>2, <2>8, <2>9 DEF TypeInv
<1>6. ASSUME PeerSendNew(s)
      PROVE  TypeInv'
  <2>1. PeerStored(s, p.listening, p.finSeen, p.rcvNxt, p.sndUna, p.sndNxt + 1, p.received)
    BY <1>0, <1>6, PeerStores
  <2>2. p.sndNxt <= Isn[s] + PeerBytes + 1 /\ ~p.listening
    BY <1>2, <1>6 DEF PeerSendNew
  <2>3. \A r \in Sockets : PeerNumbersOK(r)'
    BY <1>2, <2>1, <2>2 DEF PeerNumbersOK, PeerStored, TypeInv
  <2>4. p.sndNxt \in Isn[s] .. Isn[s] + PeerBytes + 1
    BY <1>2, <2>2
  <2>5. PeerSegment(s, p.sndNxt, p.rcvNxt) \in Segments
        /\ FromPeer(PeerSegment(s, p.sndNxt, p.rcvNxt))
    BY <1>2, <2>4, PeerSegments
  <2>6. toKernel' \in Seq(Segments) /\ Len(toKernel') <= MaxWire /\ ArrivingOK'
    BY <1>0, <1>1, <1>6, <2>5, FrameSent DEF PeerSendNew
  <2>7. TypeOK'
    BY <1>0, <1>1, <1>6, <2>1, <2>6 DEF TypeOK, PeerStored, PeerSendNew
  <2> QED
    BY <1>3, <2>3, <2>6, <2>7 DEF TypeInv
<1>7. ASSUME PeerSendAgain(s)
      PROVE  TypeInv'
  <2>1. p.sndUna \in Isn[s] .. Isn[s] + PeerBytes + 1
    BY SMTT(30), <1>2, <1>7 DEF PeerSendAgain
  <2>2. PeerSegment(s, p.sndUna, p.rcvNxt) \in Segments
        /\ FromPeer(PeerSegment(s, p.sndUna, p.rcvNxt))
    BY <1>2, <2>1, PeerSegments
  <2>3. toKernel' \in Seq(Segments) /\ Len(toKernel') <= MaxWire /\ ArrivingOK'
    BY <1>0, <1>1, <1>7, <2>2, FrameSent DEF PeerSendAgain
  <2>4. TypeOK' /\ peer' = peer
    BY <1>0, <1>1, <1>7, <2>3 DEF TypeOK, PeerSendAgain
  <2> QED
    BY <1>3, <2>3, <2>4, NumbersKept DEF TypeInv
<1> QED
  BY <1>4, <1>5, <1>6, <1>7 DEF Peer

LEMMA TypeStep == TypeInv /\ [Next]_vars => TypeInv'
<1> SUFFICES ASSUME TypeInv, [Next]_vars PROVE TypeInv'
  OBVIOUS
<1>0. TypeOK /\ TxJobOK /\ ArrivingOK
  BY DEF TypeInv
<1>1. CASE LoseToKernel
  <2>1. /\ toKernel # <<>> /\ toKernel' = Tail(toKernel)
        /\ UNCHANGED <<sck, app, written, got, tx, rx, peer, toPeer, cut>>
    BY <1>1 DEF LoseToKernel
  <2>2. /\ Tail(toKernel) \in Seq(Segments) /\ Len(Tail(toKernel)) <= MaxWire
        /\ \A i \in DOMAIN Tail(toKernel) :
              i + 1 \in DOMAIN toKernel /\ Tail(toKernel)[i] = toKernel[i + 1]
    <3>1. toKernel \in Seq(Segments) /\ Len(toKernel) <= MaxWire /\ MaxWire \in Nat
      BY <1>0, TcpAssumption DEF TypeOK
    <3> QED
      BY <2>1, <3>1
  <2>3. ArrivingOK' /\ TxJobOK'
    BY <1>0, <2>1, <2>2 DEF ArrivingOK, FromPeer, TxJobOK
  <2>4. TypeOK'
    BY <1>0, <2>1, <2>2 DEF TypeOK
  <2> QED
    BY <2>1, <2>3, <2>4, NumbersKept DEF TypeInv
<1>2. CASE UNCHANGED vars
  <2>1. TypeOK' /\ TxJobOK'
    BY <1>0, <1>2 DEF TypeOK, TxJobOK, vars
  <2> QED
    BY <1>0, <1>2, <2>1, ArrivingKept, NumbersKept DEF TypeInv, vars
<1>3. ASSUME NEW s \in Sockets, LoseToPeer(s)
      PROVE  TypeInv'
  <2>1. /\ toPeer' \in [Sockets -> Seq(Segments)] /\ cut' \subseteq Sockets
        /\ UNCHANGED <<sck, app, written, got, tx, rx, peer, toKernel>>
    BY <1>0, <1>3, FrameTaken DEF LoseToPeer, TypeOK
  <2>2. TypeOK' /\ TxJobOK'
    BY <1>0, <2>1 DEF TypeOK, TxJobOK
  <2> QED
    BY <1>0, <2>1, <2>2, ArrivingKept, NumbersKept DEF TypeInv
<1> QED
  BY <1>1, <1>2, <1>3, AppType, TxType, RxType, PeerType DEF Next

(***************************************************************************)
(* TypeOK is an invariant, for any number of sockets.  tcp_req() is only   *)
(* told to write when queue_pop() has a message to return, and the peers'  *)
(* numbers stay in their streams.                                          *)
(***************************************************************************)
THEOREM TypeCorrect == Spec => []TypeOK
<1>1. TypeInv => TypeOK
  BY DEF TypeInv
<1> QED
  BY <1>1, InitType, TypeStep, PTL DEF Spec

-----------------------------------------------------------------------------
(* One socket: the invariant of each task's steps.                           *)

LEMMA OnlySocket ==
    ASSUME SingleSocket, TypeOK, NEW s \in Sockets
    PROVE  /\ Sockets = {s} /\ SocketList[1] = s /\ tx.sck = s
           /\ rx.at # 0 => rx.at = 1 /\ RxSocket = s /\ RxNext = RxIdle
           /\ \A seg \in Segments : seg.sck = s
<1>1. DOMAIN SocketList = {1}
  BY TcpAssumption DEF SingleSocket
<1>2. Sockets = {s} /\ SocketList[1] = s
  BY <1>1 DEF Sockets
<1>3. rx.at # 0 => rx.at = 1
  BY DEF SingleSocket, TypeOK
<1> QED
  BY <1>2, <1>3 DEF TypeOK, RxSocket, RxNext, SingleSocket, Segments

\* The types of what the invariant speaks of.
LEMMA SocketTypes ==
    ASSUME TypeOK, NEW s \in Sockets
    PROVE  /\ sck[s].seq \in Nat /\ sck[s].ack \in Nat
           /\ sck[s].queueIn \in Seq(Messages) /\ sck[s].queueOut \in Seq(Messages)
           /\ got[s] \in Seq(Messages) /\ Delivered(s) \in Seq(Messages)
           /\ BeingQueued(s) \in Seq(Messages) /\ Taken(s) \in Seq(Messages)
           /\ app[s] \in Locations /\ written[s] \in Nat
           /\ toPeer[s] \in Seq(Segments)
           /\ peer[s].sndUna \in Nat /\ peer[s].rcvNxt \in Nat
           /\ peer[s].received \in Seq(Messages)
           /\ peer[s].listening \in BOOLEAN /\ peer[s].finSeen \in BOOLEAN
           /\ Isn[s] \in Nat \ {0} /\ PeerBytes \in Nat
<1>1. sck[s] \in SOCKET /\ peer[s] \in PeerStates /\ got[s] \in Seq(Messages)
  BY DEF TypeOK
<1>2. sck[s].queueIn \in Seq(Messages)
  BY <1>1 DEF SOCKET
<1>3. Delivered(s) \in Seq(Messages)
  BY <1>1, <1>2 DEF Delivered
<1>4. BeingQueued(s) \in Seq(Messages)
  <2>1. CASE rx.at # 0
    BY <2>1, RxPlace DEF BeingQueued, Segments
  <2>2. CASE rx.at = 0
    BY <2>2 DEF BeingQueued
  <2> QED
    BY <2>1, <2>2
<1>5. Taken(s) \in Seq(Messages)
  BY <1>3, <1>4 DEF Taken
<1>6. written[s] \in Nat /\ app[s] \in Locations /\ toPeer[s] \in Seq(Segments)
  BY TcpAssumption DEF TypeOK
<1>7. Isn[s] \in Nat \ {0} /\ PeerBytes \in Nat
  BY TcpAssumption
<1> QED
  BY <1>1, <1>2, <1>3, <1>4, <1>5, <1>6, <1>7 DEF SOCKET, PeerStates

LEMMA ConnectStep ==
    ASSUME TypeInv, NEW s \in Sockets, SocketInv(s), Connect(s)
    PROVE  SocketInv(s)'
<1> DEFINE c == sck[s]
<1>1. /\ Stored(s, 0, 0, "S_SYN", "S_SYN", c.queueIn, c.queueOut)
      /\ app[s] = "new" /\ app'[s] = "connecting"
      /\ UNCHANGED <<written, got, tx, rx, peer, toPeer, toKernel>>
  BY AppStores DEF TypeInv, TypeOK, Connect, Goto
<1>2. c.seq = 0 /\ c.ack = 0 /\ tx.at = "idle" /\ tx.job = "S_NULL"
  BY <1>1 DEF SocketInv, HandshakeOK, JobOK
<1>3. DeliveryOK(s)' /\ AcksOK(s)'
  BY <1>1, <1>2 DEF SocketInv, DeliveryOK, RxOK, Delivered, Taken, BeingQueued, RxSocket, AcksOK, Stored
<1>4. HandshakeOK(s)'
  BY <1>1, <1>2 DEF SocketInv, HandshakeOK, Stored
<1>5. JobOK(s)'
  BY <1>1, <1>2 DEF JobOK, Stored
<1>6. QueueOK(s)' /\ InHandOK(s)'
  BY <1>1, <1>2 DEF QueueOK, InHandOK, Stored
<1>7. SentOK(s)' /\ PeerOK(s)'
  BY <1>1 DEF SocketInv, SentOK, Built, PeerOK
<1> QED
  BY <1>3, <1>4, <1>5, <1>6, <1>7 DEF SocketInv

LEMMA ConnectedStep ==
    ASSUME TypeInv, NEW s \in Sockets, SocketInv(s), Connected(s)
    PROVE  SocketInv(s)'
<1>1. /\ app[s] = "connecting" /\ app'[s] = "open" /\ sck[s].connectStatus = "S_OPEN"
      /\ UNCHANGED <<sck, written, got, tx, rx, peer, toPeer, toKernel>>
  BY DEF TypeInv, TypeOK, Connected, Goto
<1>2. sck[s].seq # 0
  BY <1>1 DEF SocketInv, HandshakeOK
<1>3. DeliveryOK(s)' /\ AcksOK(s)'
  BY <1>1 DEF SocketInv, DeliveryOK, RxOK, Delivered, Taken, BeingQueued, RxSocket, AcksOK
<1>4. HandshakeOK(s)' /\ JobOK(s)'
  BY <1>1, <1>2 DEF SocketInv, HandshakeOK, JobOK
<1>5. QueueOK(s)' /\ InHandOK(s)'
  BY <1>1 DEF SocketInv, QueueOK, InHand, InHandOK, Built
<1>6. SentOK(s)' /\ PeerOK(s)'
  BY <1>1 DEF SocketInv, SentOK, Built, PeerOK
<1> QED
  BY <1>3, <1>4, <1>5, <1>6 DEF SocketInv

LEMMA WriteQueueStep ==
    ASSUME TypeInv, NEW s \in Sockets, SocketInv(s), WriteQueue(s)
    PROVE  SocketInv(s)'
<1> DEFINE c == sck[s]
<1> DEFINE m == Message(s, written[s] + 1)
<1>1. /\ Stored(s, c.seq, c.ack, c.status, c.connectStatus, c.queueIn, Append(c.queueOut, m))
      /\ app[s] = "open" /\ app'[s] = "queued" /\ written'[s] = written[s] + 1
      /\ UNCHANGED <<got, tx, rx, peer, toPeer, toKernel>>
  BY AppStores DEF TypeInv, TypeOK, WriteQueue, Goto
<1>2. c.seq # 0
  BY <1>1 DEF SocketInv, HandshakeOK
<1>3. DeliveryOK(s)' /\ AcksOK(s)'
  BY <1>1 DEF SocketInv, DeliveryOK, RxOK, Delivered, Taken, BeingQueued, RxSocket, AcksOK, Stored
<1>4. HandshakeOK(s)' /\ JobOK(s)'
  BY <1>1, <1>2 DEF SocketInv, HandshakeOK, JobOK, Stored
<1>5. QueueOK(s)'
  <2>1. c.seq \in Nat /\ c.queueOut \in Seq(Messages) /\ written[s] \in Nat /\ InHand \in {0, 1}
    BY SocketTypes DEF TypeInv, InHand
  <2>2. /\ \A i \in DOMAIN c.queueOut : c.queueOut[i] = Message(s, c.seq + InHand + i - 1)
        /\ written[s] = c.seq + InHand + Len(c.queueOut) - 1
    BY <1>1, <1>2 DEF SocketInv, QueueOK
  <2>3. InHand' = InHand
    BY <1>1 DEF InHand
  <2> DEFINE q == Append(c.queueOut, m)
  <2>4. /\ Len(q) = Len(c.queueOut) + 1 /\ Len(c.queueOut) \in Nat
        /\ DOMAIN q = 1 .. Len(c.queueOut) + 1
        /\ q[Len(c.queueOut) + 1] = m
        /\ \A i \in DOMAIN c.queueOut : q[i] = c.queueOut[i]
        /\ DOMAIN c.queueOut = 1 .. Len(c.queueOut)
    BY <2>1
  <2> HIDE DEF q
  <2>5. \A i \in DOMAIN q : q[i] = Message(s, c.seq + InHand + i - 1)
    <3> SUFFICES ASSUME NEW i \in DOMAIN q PROVE q[i] = Message(s, c.seq + InHand + i - 1)
      OBVIOUS
    <3>1. CASE i = Len(c.queueOut) + 1
      <4>1. written[s] + 1 = c.seq + InHand + i - 1
        BY SMTT(30), <2>1, <2>2, <2>4, <3>1
      <4> QED
        BY <2>4, <3>1, <4>1
    <3>2. CASE i # Len(c.queueOut) + 1
      BY <2>2, <2>4, <3>2
    <3> QED
      BY <3>1, <3>2
  <2>6. written'[s] = c.seq + InHand + Len(q) - 1
    <3>1. InHand \in Nat /\ Len(q) \in Nat /\ Len(c.queueOut) \in Nat
      BY <2>1, <2>4
    <3>2. written[s] + 1 = c.seq + InHand + Len(q) - 1
      BY SMTT(30), <2>1, <2>2, <2>4, <3>1
    <3> QED
      BY <1>1, <3>2
  <2>7. sck'[s].queueOut = q /\ sck'[s].seq = c.seq
    BY <1>1 DEF Stored, q
  <2> QED
    BY <2>3, <2>5, <2>6, <2>7 DEF QueueOK
<1>6. InHandOK(s)' /\ SentOK(s)' /\ PeerOK(s)'
  BY <1>1 DEF SocketInv, InHandOK, SentOK, Built, PeerOK, Stored
<1> QED
  BY <1>3, <1>4, <1>5, <1>6 DEF SocketInv

LEMMA WriteStatusStep ==
    ASSUME TypeInv, NEW s \in Sockets, SocketInv(s), WriteStatus(s)
    PROVE  SocketInv(s)'
<1> DEFINE c == sck[s]
<1>1. /\ Stored(s, c.seq, c.ack, "S_WRITE", c.connectStatus, c.queueIn, c.queueOut)
      /\ app[s] = "queued" /\ app'[s] = "open"
      /\ UNCHANGED <<written, got, tx, rx, peer, toPeer, toKernel>>
  BY AppStores DEF TypeInv, TypeOK, WriteStatus, Goto
<1>2. c.seq # 0
  BY <1>1 DEF SocketInv, HandshakeOK
<1>3. DeliveryOK(s)' /\ AcksOK(s)'
  BY <1>1 DEF SocketInv, DeliveryOK, RxOK, Delivered, Taken, BeingQueued, RxSocket, AcksOK, Stored
<1>4. HandshakeOK(s)' /\ JobOK(s)'
  BY <1>1, <1>2 DEF SocketInv, HandshakeOK, JobOK, Stored
<1>5. QueueOK(s)' /\ InHandOK(s)'
  BY <1>1 DEF SocketInv, QueueOK, InHand, InHandOK, Built, Stored
<1>6. SentOK(s)' /\ PeerOK(s)'
  BY <1>1 DEF SocketInv, SentOK, Built, PeerOK
<1> QED
  BY <1>3, <1>4, <1>5, <1>6 DEF SocketInv

LEMMA MoveFirst ==
    ASSUME NEW S, NEW g \in Seq(S), NEW q \in Seq(S), q # <<>>
    PROVE  Append(g, Head(q)) \o Tail(q) = g \o q
<1>1. Head(q) \in S /\ Tail(q) \in Seq(S) /\ <<Head(q)>> \in Seq(S)
  OBVIOUS
<1>2. <<Head(q)>> \o Tail(q) = q
  OBVIOUS
<1>3. (g \o <<Head(q)>>) \o Tail(q) = g \o (<<Head(q)>> \o Tail(q))
  BY <1>1, ConcatAssociative
<1> QED
  BY <1>1, <1>2, <1>3, AppendIsConcat

\* What was delivered is the same before and after it is read.
LEMMA ReadStep ==
    ASSUME TypeInv, NEW s \in Sockets, SocketInv(s), Read(s)
    PROVE  SocketInv(s)'
<1> DEFINE c == sck[s]
<1>1. /\ Stored(s, c.seq, c.ack, c.status, c.connectStatus, Tail(c.queueIn), c.queueOut)
      /\ c.queueIn # <<>> /\ got'[s] = Append(got[s], Head(c.queueIn))
      /\ UNCHANGED <<app, written, tx, rx, peer, toPeer, toKernel>>
  BY AppStores DEF TypeInv, TypeOK, Read
<1>2. Delivered(s)' = Delivered(s)
  <2>1. got[s] \in Seq(Messages) /\ c.queueIn \in Seq(Messages)
    BY SocketTypes DEF TypeInv
  <2>2. Append(got[s], Head(c.queueIn)) \o Tail(c.queueIn) = got[s] \o c.queueIn
    BY <1>1, <2>1, MoveFirst
  <2> QED
    BY <1>1, <2>2 DEF Delivered, Stored
<1>3. DeliveryOK(s)' /\ AcksOK(s)'
  BY <1>1, <1>2 DEF SocketInv, DeliveryOK, RxOK, Taken, BeingQueued, RxSocket, AcksOK, Stored
<1>4. HandshakeOK(s)' /\ JobOK(s)'
  BY <1>1 DEF SocketInv, HandshakeOK, JobOK, Stored
<1>5. QueueOK(s)' /\ InHandOK(s)'
  BY <1>1 DEF SocketInv, QueueOK, InHand, InHandOK, Built, Stored
<1>6. SentOK(s)' /\ PeerOK(s)'
  BY <1>1 DEF SocketInv, SentOK, Built, PeerOK
<1> QED
  BY <1>3, <1>4, <1>5, <1>6 DEF SocketInv

LEMMA CloseStep ==
    ASSUME TypeInv, NEW s \in Sockets, SocketInv(s), CloseCall(s) \/ CloseTest(s)
    PROVE  SocketInv(s)'
<1>1. /\ app[s] \in {"open", "closeWait"} /\ app'[s] \in {"closeWait", "closeSet"}
      /\ app'[s] = "closeSet" => sck[s].status = "S_OPEN"
      /\ UNCHANGED <<sck, written, got, tx, rx, peer, toPeer, toKernel>>
  BY DEF TypeInv, TypeOK, CloseCall, CloseTest, Goto
<1>2. sck[s].seq # 0
  BY <1>1 DEF SocketInv, HandshakeOK
<1>3. DeliveryOK(s)' /\ AcksOK(s)'
  BY <1>1 DEF SocketInv, DeliveryOK, RxOK, Delivered, Taken, BeingQueued, RxSocket, AcksOK
<1>4. HandshakeOK(s)' /\ JobOK(s)'
  BY <1>1, <1>2 DEF SocketInv, HandshakeOK, JobOK
<1>5. QueueOK(s)' /\ InHandOK(s)'
  BY <1>1 DEF SocketInv, QueueOK, InHand, InHandOK, Built
<1>6. SentOK(s)' /\ PeerOK(s)'
  BY <1>1 DEF SocketInv, SentOK, Built, PeerOK
<1> QED
  BY <1>3, <1>4, <1>5, <1>6 DEF SocketInv

LEMMA CloseStatusStep ==
    ASSUME TypeInv, NEW s \in Sockets, SocketInv(s), CloseStatus(s)
    PROVE  SocketInv(s)'
<1> DEFINE c == sck[s]
<1>1. /\ Stored(s, c.seq, c.ack, "S_FIN", c.connectStatus, c.queueIn, c.queueOut)
      /\ app[s] = "closeSet" /\ app'[s] = "closed"
      /\ UNCHANGED <<written, got, tx, rx, peer, toPeer, toKernel>>
  BY AppStores DEF TypeInv, TypeOK, CloseStatus, Goto
<1>2. c.seq # 0
  BY <1>1 DEF SocketInv, HandshakeOK
<1>3. DeliveryOK(s)' /\ AcksOK(s)'
  BY <1>1 DEF SocketInv, DeliveryOK, RxOK, Delivered, Taken, BeingQueued, RxSocket, AcksOK, Stored
<1>4. HandshakeOK(s)' /\ JobOK(s)'
  BY <1>1, <1>2 DEF SocketInv, HandshakeOK, JobOK, Stored
<1>5. QueueOK(s)' /\ InHandOK(s)'
  BY <1>1 DEF SocketInv, QueueOK, InHandOK, Built, Stored
<1>6. SentOK(s)' /\ PeerOK(s)'
  BY <1>1 DEF SocketInv, SentOK, Built, PeerOK
<1> QED
  BY <1>3, <1>4, <1>5, <1>6 DEF SocketInv

LEMMA TxSelectStep ==
    ASSUME SingleSocket, TypeInv, NEW s \in Sockets, SocketInv(s), TxSelect(s)
    PROVE  SocketInv(s)'
<1>1. /\ tx.at = "idle" /\ tx'.job = sck[s].status
      /\ tx'.job \in {"S_SYN", "S_ACK", "S_FIN", "S_WRITE"}
      /\ tx'.at = IF tx'.job = "S_WRITE" THEN "build" ELSE "clear"
      /\ UNCHANGED <<sck, app, written, got, rx, peer, toPeer, toKernel>>
  BY DEF TxSelect, TxIdle
<1>2. tx.job = "S_NULL" /\ app[s] # "new"
  BY <1>1 DEF SocketInv, JobOK, HandshakeOK
<1>3. DeliveryOK(s)' /\ AcksOK(s)'
  BY <1>1 DEF SocketInv, DeliveryOK, RxOK, Delivered, Taken, BeingQueued, RxSocket, AcksOK
<1>4. HandshakeOK(s)'
  BY <1>1, <1>2 DEF SocketInv, HandshakeOK
<1>5. JobOK(s)'
  BY <1>1 DEF SocketInv, JobOK
<1>6. QueueOK(s)' /\ InHandOK(s)'
  BY <1>1 DEF SocketInv, QueueOK, InHand, InHandOK
<1>7. SentOK(s)' /\ PeerOK(s)'
  BY <1>1 DEF SocketInv, SentOK, Built, PeerOK
<1> QED
  BY <1>3, <1>4, <1>5, <1>6, <1>7 DEF SocketInv

LEMMA TxClearStep ==
    ASSUME SingleSocket, TypeInv, NEW s \in Sockets, SocketInv(s), TxClear
    PROVE  SocketInv(s)'
<1> DEFINE c == sck[s]
<1>1. /\ Stored(s, c.seq, c.ack, "S_OPEN", c.connectStatus, c.queueIn, c.queueOut)
      /\ tx.at = "clear" /\ tx'.at = "build" /\ tx'.job = tx.job /\ tx.job # "S_WRITE"
      /\ UNCHANGED <<app, written, got, rx, peer, toPeer, toKernel>>
  BY OnlySocket, TxStores DEF TypeInv, TypeOK, TxJobOK, TxClear
<1>2. DeliveryOK(s)' /\ AcksOK(s)'
  BY <1>1 DEF SocketInv, DeliveryOK, RxOK, Delivered, Taken, BeingQueued, RxSocket, AcksOK, Stored
<1>3. HandshakeOK(s)' /\ JobOK(s)'
  BY <1>1 DEF SocketInv, HandshakeOK, JobOK, Stored
<1>4. QueueOK(s)' /\ InHandOK(s)'
  BY <1>1 DEF SocketInv, QueueOK, InHand, InHandOK, Stored
<1>5. SentOK(s)' /\ PeerOK(s)'
  BY <1>1 DEF SocketInv, SentOK, Built, PeerOK
<1> QED
  BY <1>2, <1>3, <1>4, <1>5 DEF SocketInv

\* queue_pop() takes the message whose number is the next.
LEMMA TxBuildStep ==
    ASSUME SingleSocket, TypeInv, NEW s \in Sockets, SocketInv(s), TxBuild
    PROVE  SocketInv(s)'
<1> DEFINE c == sck[s]
<1> DEFINE write == tx.job = "S_WRITE"
<1> DEFINE q == IF write THEN Tail(c.queueOut) ELSE c.queueOut
<1> DEFINE data == IF write THEN <<Head(c.queueOut)>> ELSE <<>>
<1> DEFINE seg == [sck |-> s, flags |-> TxFlags, data |-> data, seq |-> c.seq, ack |-> c.ack]
<1>1. tx.sck = s /\ tx.at = "build" /\ TypeOK
  BY OnlySocket DEF TypeInv, TxBuild
<1>2. tx.job \in {"S_SYN", "S_ACK", "S_FIN", "S_WRITE"} /\ (write => c.queueOut # <<>>)
  BY <1>1 DEF TypeInv, TxJobOK
<1>3. /\ Stored(s, c.seq, c.ack, c.status, c.connectStatus, c.queueIn, q)
      /\ UNCHANGED <<app, written, got, rx, peer, toPeer, toKernel>>
  BY <1>1, <1>2, TxStores DEF TxBuild
<1>4. tx' = [tx EXCEPT !.at = "send", !.seg = seg]
  BY <1>1 DEF TxBuild
<1>5. tx'.at = "send" /\ tx'.job = tx.job /\ tx'.seg = seg
  BY <1>1, <1>4 DEF TypeOK
<1>6. /\ seg.seq = c.seq /\ seg.ack = c.ack /\ seg.data = data
      /\ seg.flags = TxFlags
  OBVIOUS
<1> HIDE DEF seg, q
<1>7. write => /\ app[s] # "closed" /\ c.seq # 0
  BY <1>1, <1>2 DEF SocketInv, JobOK, HandshakeOK
<1>8. write => /\ \A i \in DOMAIN c.queueOut : c.queueOut[i] = Message(s, c.seq + i - 1)
               /\ written[s] = c.seq + Len(c.queueOut) - 1
  BY <1>1, <1>7, SocketTypes DEF SocketInv, QueueOK, InHand
<1>9. /\ c.seq \in Nat /\ c.queueOut \in Seq(Messages) /\ c.ack \in Nat
  BY <1>1, SocketTypes
<1>10. DeliveryOK(s)' /\ AcksOK(s)'
  <2>1. DeliveryOK(s)'
    BY <1>3 DEF SocketInv, DeliveryOK, RxOK, Delivered, Taken, BeingQueued, RxSocket, Stored
  <2>2. tx'.seg.ack = c.ack /\ sck'[s].ack = c.ack
    BY <1>3, <1>5, <1>6 DEF Stored
  <2>3. AcksOK(s)'
    BY <1>3, <1>9, <2>2 DEF SocketInv, AcksOK
  <2> QED
    BY <2>1, <2>3
<1>11. HandshakeOK(s)'
  BY <1>1, <1>3, <1>5, <1>7 DEF SocketInv, HandshakeOK, Stored, q
<1>12. JobOK(s)'
  BY <1>1, <1>3, <1>5 DEF SocketInv, JobOK, Stored
<1>13. QueueOK(s)'
  <2>1. CASE write
    <3>1. InHand' = 1
      BY <1>5, <2>1 DEF InHand
    <3>2. /\ Len(q) = Len(c.queueOut) - 1 /\ DOMAIN q = 1 .. Len(c.queueOut) - 1
          /\ Len(c.queueOut) \in Nat /\ DOMAIN c.queueOut = 1 .. Len(c.queueOut)
          /\ \A i \in DOMAIN q : q[i] = c.queueOut[i + 1]
      BY <1>2, <1>9, <2>1 DEF q
    <3>3. \A i \in DOMAIN q : q[i] = Message(s, c.seq + 1 + i - 1)
      <4> SUFFICES ASSUME NEW i \in DOMAIN q PROVE q[i] = Message(s, c.seq + 1 + i - 1)
        OBVIOUS
      <4>1. i + 1 \in DOMAIN c.queueOut
        BY <3>2
      <4>2. q[i] = Message(s, c.seq + (i + 1) - 1)
        BY <1>8, <2>1, <3>2, <4>1
      <4>3. c.seq + (i + 1) - 1 = c.seq + 1 + i - 1
        BY <1>9, <3>2
      <4> QED
        BY <4>2, <4>3
    <3>4. written[s] = c.seq + 1 + Len(q) - 1
      <4>1. written[s] = c.seq + Len(c.queueOut) - 1
        BY <1>8, <2>1
      <4>2. Len(q) = Len(c.queueOut) - 1 /\ Len(c.queueOut) \in Nat /\ c.seq \in Nat
        BY <1>9, <3>2
      <4> QED
        BY <4>1, <4>2
    <3>5. sck'[s].queueOut = q /\ sck'[s].seq = c.seq /\ written' = written
      BY <1>3 DEF Stored
    <3> QED
      BY <3>1, <3>3, <3>4, <3>5 DEF QueueOK
  <2>2. CASE ~write
    <3>1. InHand' = InHand
      BY <1>5, <2>2 DEF InHand
    <3> QED
      BY <1>3, <2>2, <3>1 DEF SocketInv, QueueOK, Stored, q
  <2> QED
    BY <2>1, <2>2
<1>14. InHandOK(s)'
  <2>1. write => data = <<Message(s, c.seq)>>
    <3> SUFFICES ASSUME write PROVE Head(c.queueOut) = Message(s, c.seq)
      OBVIOUS
    <3>1. Head(c.queueOut) = c.queueOut[1] /\ 1 \in DOMAIN c.queueOut
      BY <1>2, <1>9
    <3>2. c.seq + 1 - 1 = c.seq
      BY <1>9
    <3> QED
      BY <1>8, <3>1, <3>2
  <2>2. tx.job = "S_SYN" => c.seq = 0
    BY DEF SocketInv, HandshakeOK
  <2>3. ~write => data = <<>>
    OBVIOUS
  <2> HIDE DEF data
  <2>4. Built(s, seg)
    BY <1>2, <1>6, <2>1, <2>2, <2>3 DEF Built, TxFlags
  <2>5. Built(s, tx.seg)'
    BY <1>5, <2>4 DEF Built
  <2>6. /\ write <=> data # <<>>
        /\ tx.job \in {"S_SYN", "S_FIN"} <=> TxFlags \cap {"SYN", "FIN"} # {}
        /\ tx.job = "S_FIN" <=> "FIN" \in TxFlags
    <3>1. <<Message(s, c.seq)>> # <<>>
      OBVIOUS
    <3>2. CASE tx.job = "S_SYN"
      BY <2>3, <3>2 DEF TxFlags
    <3>3. CASE tx.job = "S_ACK"
      BY <2>3, <3>3 DEF TxFlags
    <3>4. CASE tx.job = "S_FIN"
      BY <2>3, <3>4 DEF TxFlags
    <3>5. CASE tx.job = "S_WRITE"
      BY <2>1, <3>1, <3>5 DEF TxFlags
    <3> QED
      BY <1>2, <3>2, <3>3, <3>4, <3>5
  <2> QED
    BY <1>3, <1>5, <1>6, <2>5, <2>6 DEF InHandOK, Stored
<1>15. SentOK(s)' /\ PeerOK(s)'
  BY <1>3 DEF SocketInv, SentOK, Built, PeerOK
<1> QED
  BY <1>10, <1>11, <1>12, <1>13, <1>14, <1>15 DEF SocketInv

\* A number is used up by SYN, FIN and the byte, which leaves the queue.
LEMMA TxSendStep ==
    ASSUME SingleSocket, TypeInv, NEW s \in Sockets, SocketInv(s), TxSend
    PROVE  SocketInv(s)'
<1> DEFINE c == sck[s]
<1> DEFINE seg == tx.seg
<1>1. tx.sck = s /\ tx.at = "send" /\ TypeOK /\ seg \in Segments /\ seg.sck = s
  BY OnlySocket DEF TypeInv, TxSend, TypeOK
<1>2. /\ Stored(s, SentSeq(seg), c.ack, c.status, TxConnectStatus(s), c.queueIn, c.queueOut)
      /\ tx'.at = "idle" /\ tx'.job = "S_NULL"
      /\ UNCHANGED <<app, written, got, rx, peer, toKernel>>
  BY <1>1, TxStores DEF TxSend, TxIdle
<1>3. toPeer'[s] = Append(toPeer[s], seg) /\ toPeer[s] \in Seq(Segments)
  BY <1>1 DEF TxSend, TypeOK
<1>4. /\ DOMAIN toPeer'[s] = 1 .. Len(toPeer[s]) + 1
      /\ DOMAIN toPeer[s] = 1 .. Len(toPeer[s]) /\ Len(toPeer[s]) \in Nat
      /\ toPeer'[s][Len(toPeer[s]) + 1] = seg
      /\ \A i \in DOMAIN toPeer[s] : toPeer'[s][i] = toPeer[s][i]
  BY <1>3
<1>5. /\ Built(s, seg) /\ seg.seq = c.seq
      /\ tx.job = "S_WRITE" <=> seg.data # <<>>
      /\ tx.job \in {"S_SYN", "S_FIN"} <=> seg.flags \cap {"SYN", "FIN"} # {}
      /\ tx.job = "S_FIN" <=> "FIN" \in seg.flags
      /\ tx.job \in {"S_SYN", "S_ACK", "S_FIN", "S_WRITE"}
      /\ seg.ack <= c.ack
  BY <1>1 DEF SocketInv, InHandOK, AcksOK, TypeInv, TxJobOK
<1>6. c.seq \in Nat /\ SeqLen(seg) \in Nat /\ SentSeq(seg) = c.seq + SeqLen(seg)
  BY <1>1, SegmentLength, SocketTypes DEF SentSeq
<1>7. /\ tx.job = "S_WRITE" => SeqLen(seg) = 1
      /\ tx.job \in {"S_SYN", "S_FIN"} => SeqLen(seg) = 1
      /\ tx.job = "S_ACK" => SeqLen(seg) = 0
  <2>1. /\ seg.data # <<>> => seg.data = <<Message(s, seg.seq)>>
        /\ seg.flags \cap {"SYN", "FIN"} # {} => seg.data = <<>>
    BY <1>5 DEF Built
  <2>2. Len(<<Message(s, seg.seq)>>) = 1 /\ Len(<<>>) = 0
    OBVIOUS
  <2>3. /\ seg.flags \cap {"SYN", "FIN"} # {} => SeqLen(seg) = Len(seg.data) + 1
        /\ seg.flags \cap {"SYN", "FIN"} = {} => SeqLen(seg) = Len(seg.data)
    BY <1>1, SegmentLength
  <2>4. CASE tx.job = "S_WRITE"
    <3>1. seg.data = <<Message(s, seg.seq)>> /\ seg.flags \cap {"SYN", "FIN"} = {}
      BY <1>5, <2>1, <2>4
    <3> QED
      BY <2>2, <2>3, <2>4, <3>1
  <2>5. CASE tx.job \in {"S_SYN", "S_FIN"}
    <3>1. seg.data = <<>> /\ seg.flags \cap {"SYN", "FIN"} # {}
      BY <1>5, <2>1, <2>5
    <3> QED
      BY <2>2, <2>3, <2>5, <3>1
  <2>6. CASE tx.job = "S_ACK"
    <3>1. seg.data = <<>> /\ seg.flags \cap {"SYN", "FIN"} = {}
      BY <1>5, <2>6
    <3> QED
      BY <2>2, <2>3, <2>6, <3>1
  <2> QED
    BY <1>5, <2>4, <2>5, <2>6
<1>8. app[s] # "new" /\ (c.seq = 0 => tx.job = "S_SYN") /\ c.status # "S_SYN"
  BY <1>1, <1>5 DEF SocketInv, HandshakeOK
<1>9. SentSeq(seg) # 0 /\ SentSeq(seg) \in Nat
  BY <1>5, <1>6, <1>7, <1>8
<1> HIDE DEF seg
<1>10. DeliveryOK(s)'
  BY <1>2 DEF SocketInv, DeliveryOK, RxOK, Delivered, Taken, BeingQueued, RxSocket, Stored
<1>11. AcksOK(s)'
  BY <1>2, <1>4, <1>5 DEF SocketInv, AcksOK, Stored
<1>12. HandshakeOK(s)'
  BY <1>2, <1>8, <1>9 DEF SocketInv, HandshakeOK, Stored
<1>13. JobOK(s)'
  BY <1>2 DEF SocketInv, JobOK, Stored
<1>14. QueueOK(s)'
  <2>1. InHand' = 0 /\ sck'[s].seq = SentSeq(seg) /\ sck'[s].queueOut = c.queueOut
    BY <1>2 DEF InHand, Stored
  <2>2. CASE tx.job = "S_FIN"
    BY <1>2, <2>2 DEF SocketInv, JobOK, QueueOK
  <2>3. CASE tx.job = "S_SYN"
    <3>1. c.seq = 0 /\ written[s] = 0 /\ c.queueOut = <<>>
      BY <2>3 DEF SocketInv, HandshakeOK
    <3>2. SentSeq(seg) = 1
      BY <1>6, <1>7, <2>3, <3>1
    <3> QED
      BY <1>2, <2>1, <3>1, <3>2 DEF QueueOK
  <2>4. CASE tx.job \in {"S_WRITE", "S_ACK"}
    <3>1. c.seq + InHand = SentSeq(seg) + InHand'
      BY <1>1, <1>6, <1>7, <2>1, <2>4 DEF InHand
    <3>2. c.seq # 0
      BY <1>8, <2>4
    <3> QED
      BY <1>2, <2>1, <3>1, <3>2 DEF SocketInv, QueueOK
  <2> QED
    BY <1>5, <2>2, <2>3, <2>4
<1>15. InHandOK(s)'
  BY <1>2 DEF InHandOK
<1>16. SentOK(s)'
  <2>1. "S_FIN" = tx.job => app[s] = "closed"
    BY DEF SocketInv, JobOK
  <2>2. app[s] = "closed" => seg.data = <<>>
    BY <1>5 DEF SocketInv, JobOK
  <2> QED
    BY SMTT(30), <1>2, <1>4, <1>5, <2>1, <2>2 DEF SocketInv, SentOK, Built
<1>17. PeerOK(s)'
  <2>1. app[s] = "closed" => seg.data = <<>>
    BY <1>5 DEF SocketInv, JobOK
  <2> QED
    BY <1>2, <1>4, <2>1 DEF SocketInv, PeerOK
<1> QED
  BY <1>10, <1>11, <1>12, <1>13, <1>14, <1>15, <1>16, <1>17 DEF SocketInv

\* A frame is only on its way when the peer does not listen any more.
LEMMA RxTakeStep ==
    ASSUME SingleSocket, TypeInv, NEW s \in Sockets, SocketInv(s),
           RxTake \/ RxTest \/ RxMatch \/ LoseToKernel
    PROVE  SocketInv(s)'
<1>1. /\ toKernel # <<>> \/ rx.at # 0
      /\ UNCHANGED <<sck, app, written, got, tx, peer, toPeer>>
  BY DEF RxTake, RxTest, RxMatch, LoseToKernel, RxAt
<1>2. ~peer[s].listening
  BY <1>1 DEF SocketInv, HandshakeOK
<1>3. RxOK(s)' /\ BeingQueued(s)' = BeingQueued(s)
  <2>1. TypeOK /\ RxOK(s) /\ (rx.at # 0 => RxSocket = s /\ RxNext = RxIdle)
    BY OnlySocket DEF TypeInv, SocketInv, DeliveryOK
  <2>2. CASE LoseToKernel
    BY <1>1, <2>1, <2>2 DEF LoseToKernel, RxOK, BeingQueued, RxSocket
  <2>3. CASE RxTake
    BY <2>1, <2>3 DEF RxTake, RxIdle, RxOK, BeingQueued
  <2>4. CASE RxTest
    BY <1>1, <2>1, <2>4 DEF RxTest, RxAt, RxIdle, RxOK, BeingQueued, TypeOK
  <2>5. CASE RxMatch
    <3> DEFINE kind == Kind(sck[s], rx.seg)
    <3>1. /\ kind = "synAck" => "SYN" \in rx.seg.flags /\ sck[s].ack = 0
          /\ kind = "fin" => "FIN" \in rx.seg.flags /\ sck[s].ack = rx.seg.seq
          /\ kind = "psh" => "PSH" \in rx.seg.flags /\ sck[s].ack = rx.seg.seq
      BY DEF Kind, Expected
    <3>2. /\ rx.at # 0 /\ rx.step = "match"
          /\ rx' = IF kind = "none" THEN RxIdle ELSE [rx EXCEPT !.step = "store", !.kind = kind]
      BY <2>1, <2>5 DEF RxMatch, RxAt
    <3> HIDE DEF kind
    <3> QED
      BY <1>1, <2>1, <3>1, <3>2 DEF RxIdle, RxOK, BeingQueued, TypeOK
  <2> QED
    BY <2>2, <2>3, <2>4, <2>5
<1>4. DeliveryOK(s)' /\ AcksOK(s)'
  BY <1>1, <1>3 DEF SocketInv, DeliveryOK, Taken, Delivered, AcksOK
<1>5. HandshakeOK(s)' /\ JobOK(s)'
  BY <1>1, <1>2 DEF SocketInv, HandshakeOK, JobOK
<1>6. QueueOK(s)' /\ InHandOK(s)'
  BY <1>1 DEF SocketInv, QueueOK, InHand, InHandOK, Built
<1>7. SentOK(s)' /\ PeerOK(s)'
  BY <1>1 DEF SocketInv, SentOK, Built, PeerOK
<1> QED
  BY <1>4, <1>5, <1>6, <1>7 DEF SocketInv

\* What the RX task says of one socket at a store.
LEMMA RxAtSocket ==
    ASSUME SingleSocket, TypeInv, NEW s \in Sockets, SocketInv(s), rx.at # 0
    PROVE  /\ TypeOK /\ RxSocket = s /\ RxNext = RxIdle
           /\ rx.seg \in Segments /\ rx.seg.sck = s /\ FromPeer(rx.seg) /\ RxOK(s)
           /\ ~peer[s].listening
<1>1. TypeOK /\ ArrivingOK
  BY DEF TypeInv
<1>2. RxSocket = s /\ RxNext = RxIdle /\ rx.seg \in Segments
  BY <1>1, OnlySocket, RxPlace
<1> QED
  BY <1>1, <1>2, OnlySocket DEF ArrivingOK, SocketInv, DeliveryOK, HandshakeOK

\* A segment is taken when its number is the next: then what is taken and
\* the acknowledgment number grow together.
LEMMA StoreDelivers ==
    ASSUME SingleSocket, TypeInv, NEW s \in Sockets, SocketInv(s), RxStore
    PROVE  DeliveryOK(s)' /\ sck'[s].ack >= sck[s].ack
<1> DEFINE c == sck[s]
<1> DEFINE seg == rx.seg
<1> DEFINE k == rx.kind
<1>1. /\ TypeOK /\ rx.at # 0 /\ rx.step = "store" /\ RxSocket = s /\ RxNext = RxIdle
      /\ seg \in Segments /\ seg.sck = s /\ FromPeer(seg) /\ RxOK(s)
  BY RxAtSocket DEF RxStore, RxAt
<1>2. /\ sck'[s].ack = IF k = "ack" THEN c.ack ELSE AckAfter(c.ack, k)
      /\ sck'[s].queueIn = c.queueIn /\ got' = got
  BY <1>1, RxStores DEF Stored, RxStore
<1>3. /\ c.ack \in Nat /\ seg.seq \in Nat /\ seg.data \in Seq(Messages) /\ Isn[s] \in Nat \ {0}
      /\ PeerBytes \in Nat /\ Delivered(s) \in Seq(Messages) /\ k \in Kinds
  <2>1. seg.seq \in Nat /\ seg.data \in Seq(Messages) /\ k \in Kinds
    BY <1>1 DEF Segments, TypeOK
  <2> QED
    BY <1>1, <2>1, SocketTypes
<1> DEFINE n == Len(Delivered(s))
<1>4. n \in Nat /\ Taken(s) = Delivered(s)
  BY <1>1, <1>3 DEF Taken, BeingQueued
<1>5. /\ \A i \in DOMAIN Delivered(s) : Delivered(s)[i] = Message(s, i)
      /\ c.ack = 0 => Delivered(s) = <<>>
      /\ c.ack # 0 => \/ c.ack = Isn[s] + 1 + n
                      \/ n = PeerBytes /\ c.ack = Isn[s] + 2 + PeerBytes
  BY <1>4 DEF SocketInv, DeliveryOK
<1>6. /\ seg.seq >= Isn[s]
      /\ "SYN" \in seg.flags => seg.seq = Isn[s]
      /\ "PSH" \in seg.flags => /\ seg.seq - Isn[s] \in 1 .. PeerBytes
                                /\ seg.data = <<Message(s, seg.seq - Isn[s])>>
      /\ "FIN" \in seg.flags => seg.seq = Isn[s] + PeerBytes + 1
  BY <1>1 DEF FromPeer
<1>7. /\ k \in {"synAck", "fin", "psh", "ack"}
      /\ k = "synAck" => "SYN" \in seg.flags /\ c.ack = 0
      /\ k = "fin" => "FIN" \in seg.flags /\ c.ack = seg.seq
      /\ k = "psh" => "PSH" \in seg.flags /\ c.ack = seg.seq
  BY <1>1, <1>3 DEF RxOK, Kinds
<1>8. rx' = IF k \in {"synAck", "fin", "psh"} THEN [rx EXCEPT !.step = "status"] ELSE RxIdle
  BY <1>1 DEF RxStore, Answered
<1>9. Delivered(s)' = Delivered(s)
  BY <1>2 DEF Delivered
<1>10. RxOK(s)'
  BY <1>1, <1>8 DEF RxOK, RxIdle, TypeOK
<1>11. Taken(s)' = Delivered(s) \o (IF k = "psh" THEN seg.data ELSE <<>>)
  <2>1. BeingQueued(s)' = IF k = "psh" THEN seg.data ELSE <<>>
    <3>1. CASE k \in {"synAck", "fin", "psh"}
      <4>1. /\ rx'.at = rx.at /\ rx'.step = "status" /\ rx'.kind = k /\ rx'.seg = seg
        BY <1>1, <1>8, <3>1 DEF TypeOK
      <4>2. RxSocket' = s
        BY <1>1, <4>1 DEF RxSocket
      <4> QED
        BY <1>1, <4>1, <4>2 DEF BeingQueued
    <3>2. CASE k = "ack"
      BY <1>8, <3>2 DEF BeingQueued, RxIdle
    <3> QED
      BY <1>7, <3>1, <3>2
  <2> QED
    BY <1>9, <2>1 DEF Taken
<1>12. k # "psh" => Taken(s)' = Delivered(s)
  BY <1>3, <1>11
<1> HIDE DEF k, c, seg
<1>13. CASE k = "synAck"
  <2>1. Delivered(s) = <<>> /\ c.ack = 0 /\ seg.seq = Isn[s]
    BY <1>5, <1>6, <1>7, <1>13
  <2>2. sck'[s].ack = Isn[s] + 1
    BY <1>2, <1>13, <2>1 DEF AckAfter, k, seg
  <2> QED
    BY <1>3, <1>10, <1>12, <1>13, <2>1, <2>2 DEF DeliveryOK, c
<1>14. CASE k = "fin"
  <2>1. c.ack = Isn[s] + PeerBytes + 1
    BY <1>6, <1>7, <1>14
  <2>2. n = PeerBytes
    BY <1>3, <1>4, <1>5, <2>1
  <2>3. sck'[s].ack = Isn[s] + 2 + PeerBytes
    <3>1. sck'[s].ack = seg.seq + 1 /\ seg.seq = c.ack
      BY <1>2, <1>7, <1>14 DEF AckAfter, k, seg
    <3> QED
      BY <1>3, <2>1, <3>1
  <2> QED
    BY <1>3, <1>5, <1>10, <1>12, <1>14, <2>1, <2>2, <2>3 DEF DeliveryOK, c
<1>15. CASE k = "psh"
  <2> DEFINE m == Message(s, seg.seq - Isn[s])
  <2>1. /\ c.ack = seg.seq /\ seg.seq - Isn[s] \in 1 .. PeerBytes /\ seg.data = <<m>>
    BY <1>6, <1>7, <1>15
  <2>2. seg.seq - Isn[s] = n + 1 /\ n + 1 <= PeerBytes
    BY <1>3, <1>4, <1>5, <2>1
  <2>3. Taken(s)' = Delivered(s) \o seg.data
    BY <1>11, <1>15
  <2>4. sck'[s].ack = c.ack + 1
    <3>1. Len(seg.data) = 1
      BY <2>1
    <3> QED
      BY <1>2, <1>15, <3>1 DEF AckAfter, k, seg
  <2>5. /\ Len(Taken(s)') = n + 1 /\ DOMAIN Taken(s)' = 1 .. n + 1
        /\ Taken(s)'[n + 1] = m
        /\ \A i \in 1 .. n : Taken(s)'[i] = Delivered(s)[i]
        /\ DOMAIN Delivered(s) = 1 .. n
    BY <1>3, <2>1, <2>3
  <2>6. \A i \in DOMAIN Taken(s)' : Taken(s)'[i] = Message(s, i)
    <3> SUFFICES ASSUME NEW i \in DOMAIN Taken(s)' PROVE Taken(s)'[i] = Message(s, i)
      OBVIOUS
    <3>1. CASE i = n + 1
      BY <2>2, <2>5, <3>1
    <3>2. CASE i # n + 1
      <4>1. i \in 1 .. n
        BY <1>4, <2>5, <3>2
      <4> QED
        BY <1>5, <2>5, <4>1
    <3> QED
      BY <3>1, <3>2
  <2>7. sck'[s].ack = Isn[s] + 1 + (n + 1) /\ sck'[s].ack # 0 /\ sck'[s].ack >= c.ack
    <3>1. c.ack \in Nat /\ seg.seq \in Nat /\ Isn[s] \in Nat \ {0} /\ c.ack = seg.seq
          /\ seg.seq - Isn[s] = n + 1
      BY <1>3, <2>1, <2>2
    <3> HIDE DEF n
    <3> QED
      BY <1>4, <2>4, <3>1 DEF c
  <2> QED
    BY <1>10, <2>5, <2>6, <2>7 DEF DeliveryOK, c
<1>16. CASE k = "ack"
  <2>1. sck'[s].ack = c.ack /\ Taken(s)' = Delivered(s)
    BY <1>2, <1>12, <1>16 DEF k
  <2> QED
    BY <1>3, <1>5, <1>10, <2>1 DEF DeliveryOK, c
<1> QED
  BY <1>7, <1>13, <1>14, <1>15, <1>16

\* The status and the message follow: what was taken stays what it is.
LEMMA StatusAndPushDeliver ==
    ASSUME SingleSocket, TypeInv, NEW s \in Sockets, SocketInv(s), RxStatus \/ RxPush
    PROVE  DeliveryOK(s)' /\ sck'[s].ack = sck[s].ack
<1> DEFINE c == sck[s]
<1>1. rx.at # 0 /\ rx.step \in {"status", "push"} /\ got' = got
  BY DEF RxStatus, RxPush, RxAt
<1>2. /\ TypeOK /\ RxSocket = s /\ RxNext = RxIdle /\ rx.seg \in Segments /\ RxOK(s)
  BY <1>1, RxAtSocket
<1>3. sck'[s].ack = c.ack
  BY <1>2, RxStores DEF Stored
<1>4. RxOK(s)' /\ Taken(s)' = Taken(s)
  <2>1. CASE RxStatus
    <3>1. sck'[s].queueIn = c.queueIn
      BY <1>2, <2>1, RxStores DEF Stored
    <3>2. rx.step = "status" /\ rx' = IF rx.kind = "psh" THEN [rx EXCEPT !.step = "push"] ELSE RxIdle
      BY <1>2, <2>1 DEF RxStatus, RxAt
    <3>3. Delivered(s)' = Delivered(s)
      BY <1>1, <3>1 DEF Delivered
    <3>4. CASE rx.kind = "psh"
      <4>1. rx'.at = rx.at /\ rx'.step = "push" /\ rx'.kind = "psh" /\ rx'.seg = rx.seg
        BY <1>2, <3>2, <3>4 DEF TypeOK
      <4>2. RxSocket' = s
        BY <1>2, <4>1 DEF RxSocket
      <4>3. BeingQueued(s)' = BeingQueued(s)
        BY <1>1, <1>2, <3>4, <4>1, <4>2 DEF BeingQueued
      <4> QED
        BY <1>1, <3>3, <4>1, <4>3 DEF RxOK, Taken
    <3>5. CASE rx.kind # "psh"
      BY <3>2, <3>3, <3>5 DEF RxOK, RxIdle, Taken, BeingQueued
    <3> QED
      BY <3>4, <3>5
  <2>2. CASE RxPush
    <3>1. sck'[s].queueIn = c.queueIn \o rx.seg.data /\ rx' = RxIdle /\ rx.step = "push"
      BY <1>2, <2>2, RxStores DEF Stored, RxPush, RxAt
    <3>2. rx.kind = "psh"
      BY <1>2, <3>1 DEF RxOK
    <3>3. BeingQueued(s) = rx.seg.data /\ BeingQueued(s)' = <<>>
      BY <1>1, <1>2, <3>1, <3>2 DEF BeingQueued, RxIdle
    <3>4. got[s] \in Seq(Messages) /\ c.queueIn \in Seq(Messages) /\ rx.seg.data \in Seq(Messages)
      BY <1>2, SocketTypes DEF Segments
    <3>5. \A a, b, d \in Seq(Messages) : (a \o b) \o d = a \o (b \o d)
      BY SMTT(30), ConcatAssociative
    <3>6. Delivered(s)' = got[s] \o (c.queueIn \o rx.seg.data)
      BY <1>1, <3>1 DEF Delivered
    <3>7. got[s] \o (c.queueIn \o rx.seg.data) = (got[s] \o c.queueIn) \o rx.seg.data
      BY <3>4, <3>5
    <3>8. Delivered(s)' = Taken(s)
      BY <3>3, <3>6, <3>7 DEF Taken, Delivered
    <3>9. Taken(s)' = Delivered(s)'
      <4>1. Taken(s) \in Seq(Messages)
        BY <1>2, SocketTypes
      <4> QED
        BY <3>3, <3>8, <4>1 DEF Taken
    <3> QED
      BY <3>1, <3>8, <3>9 DEF RxOK, RxIdle
  <2> QED
    BY <2>1, <2>2
<1> QED
  BY <1>3, <1>4 DEF SocketInv, DeliveryOK

LEMMA RxStoreStep ==
    ASSUME SingleSocket, TypeInv, NEW s \in Sockets, SocketInv(s),
           RxStore \/ RxStatus \/ RxPush
    PROVE  SocketInv(s)'
<1> DEFINE c == sck[s]
<1>1. rx.at # 0 /\ UNCHANGED <<app, written, got, tx, peer, toPeer, toKernel>>
  BY DEF RxStore, RxStatus, RxPush, RxAt
<1>2. TypeOK /\ RxSocket = s /\ ~peer[s].listening
  BY <1>1, RxAtSocket
<1>3. /\ sck'[s].seq = c.seq /\ sck'[s].queueOut = c.queueOut
      /\ sck'[s].status \in {"S_ACK", c.status} /\ sck' \in [Sockets -> SOCKET]
  BY <1>2, RxStores DEF Stored
<1>4. c.seq # 0 /\ app[s] # "new" /\ tx.job # "S_SYN" /\ c.status # "S_SYN"
  BY <1>1, <1>2 DEF SocketInv, HandshakeOK
<1>5. c.ack \in Nat /\ sck'[s].ack \in Nat
  BY <1>2, <1>3 DEF TypeOK, SOCKET
<1>6. DeliveryOK(s)' /\ sck'[s].ack >= c.ack
  BY <1>5, StoreDelivers, StatusAndPushDeliver
<1>7. AcksOK(s)'
  <2>1. peer[s].sndUna \in Nat /\ toPeer[s] \in Seq(Segments)
    BY <1>2, SocketTypes
  <2>2. \A i \in DOMAIN toPeer[s] : toPeer[s][i].ack \in Nat
    <3>1. \A i \in DOMAIN toPeer[s] : toPeer[s][i] \in Segments
      BY <2>1
    <3>2. \A seg \in Segments : seg.ack \in Nat
      BY DEF Segments
    <3> QED
      BY <3>1, <3>2
  <2>3. tx.at = "send" => tx.seg.ack \in Nat
    BY <1>2 DEF TypeOK, Segments
  <2> QED
    BY <1>1, <1>5, <1>6, <2>1, <2>2, <2>3 DEF SocketInv, AcksOK
<1>8. HandshakeOK(s)' /\ JobOK(s)'
  BY <1>1, <1>2, <1>3, <1>4 DEF SocketInv, HandshakeOK, JobOK
<1>9. QueueOK(s)' /\ InHandOK(s)'
  BY <1>1, <1>3 DEF SocketInv, QueueOK, InHand, InHandOK, Built
<1>10. SentOK(s)' /\ PeerOK(s)'
  BY <1>1 DEF SocketInv, SentOK, Built, PeerOK
<1> QED
  BY <1>6, <1>7, <1>8, <1>9, <1>10 DEF SocketInv

\* The peer takes the first segment of its connection.
LEMMA SentShifts ==
    ASSUME TypeOK, NEW s \in Sockets, SentOK(s), toPeer[s] # <<>>,
           toPeer' = [toPeer EXCEPT ![s] = Tail(@)], UNCHANGED app
    PROVE  /\ SentOK(s)'
           /\ Built(s, Head(toPeer[s]))
           /\ "FIN" \in Head(toPeer[s]).flags =>
                app[s] = "closed" /\ \A i \in DOMAIN toPeer'[s] : toPeer'[s][i].data = <<>>
<1>1. /\ \A i \in DOMAIN toPeer'[s] :
            i + 1 \in DOMAIN toPeer[s] /\ toPeer'[s][i] = toPeer[s][i + 1]
      /\ Head(toPeer[s]) = toPeer[s][1] /\ 1 \in DOMAIN toPeer[s]
      /\ toPeer' \in [Sockets -> Seq(Segments)]
  BY FrameTaken
<1>2. \A i \in DOMAIN toPeer'[s] : i \in Nat \ {0}
  BY <1>1
<1>3. SentOK(s)'
  <2> SUFFICES ASSUME NEW i \in DOMAIN toPeer'[s]
               PROVE  /\ Built(s, toPeer'[s][i])
                      /\ "FIN" \in toPeer'[s][i].flags =>
                            /\ app[s] = "closed"
                            /\ \A j \in DOMAIN toPeer'[s] : j > i => toPeer'[s][j].data = <<>>
    BY DEF SentOK, Built
  <2>1. /\ Built(s, toPeer[s][i + 1])
        /\ "FIN" \in toPeer[s][i + 1].flags =>
            /\ app[s] = "closed"
            /\ \A j \in DOMAIN toPeer[s] : j > i + 1 => toPeer[s][j].data = <<>>
    BY <1>1 DEF SentOK
  <2>2. \A j \in DOMAIN toPeer'[s] : j > i => j + 1 > i + 1
    BY <1>2
  <2> QED
    BY <1>1, <2>1, <2>2
<1>4. "FIN" \in toPeer[s][1].flags =>
        /\ app[s] = "closed"
        /\ \A j \in DOMAIN toPeer[s] : j > 1 => toPeer[s][j].data = <<>>
  BY <1>1 DEF SentOK
<1>5. \A i \in DOMAIN toPeer'[s] : i + 1 > 1
  BY <1>2
<1> QED
  BY <1>1, <1>3, <1>4, <1>5 DEF SentOK

LEMMA AcksShift ==
    ASSUME TypeOK, NEW s \in Sockets, AcksOK(s), toPeer[s] # <<>>,
           toPeer' = [toPeer EXCEPT ![s] = Tail(@)]
    PROVE  /\ \A i \in DOMAIN toPeer'[s] : toPeer'[s][i].ack <= sck[s].ack
           /\ Head(toPeer[s]).ack <= sck[s].ack
  BY ZenonT(30), FrameTaken DEF AcksOK

LEMMA PeerAcceptStep ==
    ASSUME SingleSocket, TypeInv, NEW s \in Sockets, SocketInv(s), PeerAccept(s)
    PROVE  SocketInv(s)'
<1> DEFINE p == peer[s]
<1> DEFINE seg == Head(toPeer[s])
<1>1. /\ TypeOK /\ toPeer[s] # <<>> /\ "SYN" \in seg.flags /\ p.listening
      /\ toPeer' = [toPeer EXCEPT ![s] = Tail(@)]
      /\ UNCHANGED <<sck, app, written, got, tx, rx>>
  BY DEF TypeInv, PeerAccept
<1>2. PeerStored(s, FALSE, p.finSeen, seg.seq + 1, p.sndUna, Isn[s] + 1, p.received)
  BY <1>1, PeerStores
<1>3. sck[s].seq # 0 /\ p.received = <<>> /\ ~p.finSeen
  BY <1>1 DEF SocketInv, HandshakeOK
<1>4. SentOK(s)' /\ seg.seq = 0
  BY <1>1, SentShifts DEF SocketInv, Built
<1>5. DeliveryOK(s)'
  BY <1>1 DEF SocketInv, DeliveryOK, RxOK, Delivered, Taken, BeingQueued, RxSocket
<1>6. AcksOK(s)'
  BY <1>1, <1>2, AcksShift DEF SocketInv, AcksOK, PeerStored
<1>7. HandshakeOK(s)'
  BY <1>1, <1>2, <1>3 DEF SocketInv, HandshakeOK, PeerStored
<1>8. JobOK(s)' /\ QueueOK(s)' /\ InHandOK(s)'
  BY <1>1 DEF SocketInv, JobOK, QueueOK, InHand, InHandOK, Built
<1>9. PeerOK(s)'
  BY <1>2, <1>3, <1>4 DEF PeerOK, PeerStored
<1> QED
  BY <1>4, <1>5, <1>6, <1>7, <1>8, <1>9 DEF SocketInv

\* What the peer takes as next is next: its number counts the bytes.
LEMMA ReceivedStep ==
    ASSUME SingleSocket, TypeInv, NEW s \in Sockets, SocketInv(s), PeerReceive(s)
    PROVE  PeerOK(s)'
<1> DEFINE p == peer[s]
<1> DEFINE seg == Head(toPeer[s])
<1> DEFINE next == seg.seq = p.rcvNxt
<1>1. /\ TypeOK /\ toPeer[s] # <<>> /\ "SYN" \notin seg.flags /\ ~p.listening
      /\ toPeer' = [toPeer EXCEPT ![s] = Tail(@)]
      /\ UNCHANGED <<sck, app, written, got, tx, rx>>
  BY DEF TypeInv, PeerReceive
<1>2. /\ peer'[s].finSeen = (p.finSeen \/ (next /\ "FIN" \in seg.flags))
      /\ peer'[s].rcvNxt = IF next THEN p.rcvNxt + SeqLen(seg) ELSE p.rcvNxt
      /\ peer'[s].received = IF next THEN p.received \o seg.data ELSE p.received
  BY <1>1, PeerStores DEF PeerStored
<1>3. /\ Built(s, seg)
      /\ "FIN" \in seg.flags =>
            app[s] = "closed" /\ \A i \in DOMAIN toPeer'[s] : toPeer'[s][i].data = <<>>
  BY <1>1, SentShifts DEF SocketInv
<1>4. /\ \A i \in DOMAIN toPeer'[s] :
            i + 1 \in DOMAIN toPeer[s] /\ toPeer'[s][i] = toPeer[s][i + 1]
      /\ seg = toPeer[s][1] /\ 1 \in DOMAIN toPeer[s] /\ seg \in Segments
  BY <1>1, FrameTaken
<1>5. /\ \A i \in DOMAIN p.received : p.received[i] = Message(s, i)
      /\ ~p.finSeen => p.rcvNxt = 1 + Len(p.received)
      /\ p.finSeen => /\ app[s] = "closed"
                      /\ \A i \in DOMAIN toPeer[s] : toPeer[s][i].data = <<>>
  BY <1>1 DEF SocketInv, PeerOK
<1>6. p.received \in Seq(Messages) /\ p.rcvNxt \in Nat /\ p.finSeen \in BOOLEAN
  BY <1>1, SocketTypes
<1> HIDE DEF seg
<1>7. CASE ~next
  <2>1. peer'[s].finSeen = p.finSeen
    BY <1>2, <1>6, <1>7
  <2>2. peer'[s].rcvNxt = p.rcvNxt /\ peer'[s].received = p.received
    BY <1>2, <1>7
  <2>3. p.finSeen => /\ app[s] = "closed"
                     /\ \A i \in DOMAIN toPeer'[s] : toPeer'[s][i].data = <<>>
    BY <1>4, <1>5
  <2> QED
    BY <1>1, <1>5, <2>1, <2>2, <2>3 DEF PeerOK
<1>8. CASE next /\ seg.data = <<>>
  <2>1. peer'[s].received = p.received
    BY <1>2, <1>6, <1>8
  <2>2. ~peer'[s].finSeen => peer'[s].rcvNxt = p.rcvNxt /\ ~p.finSeen
    <3> SUFFICES ASSUME ~peer'[s].finSeen PROVE peer'[s].rcvNxt = p.rcvNxt /\ ~p.finSeen
      OBVIOUS
    <3>1. "FIN" \notin seg.flags /\ ~p.finSeen
      BY <1>2, <1>8
    <3>2. seg.flags \cap {"SYN", "FIN"} = {}
      BY <1>1, <3>1 DEF seg
    <3>3. SeqLen(seg) = 0
      BY <1>4, <1>8, <3>2, SegmentLength
    <3> QED
      BY <1>2, <1>6, <1>8, <3>1, <3>3
  <2>3. peer'[s].finSeen =>
          app[s] = "closed" /\ \A i \in DOMAIN toPeer'[s] : toPeer'[s][i].data = <<>>
    BY ZenonT(30), <1>2, <1>3, <1>4, <1>5
  <2> QED
    BY <1>1, <1>5, <2>1, <2>2, <2>3 DEF PeerOK
<1>9. CASE next /\ seg.data # <<>>
  <2> DEFINE n == Len(p.received)
  <2>1. ~p.finSeen
    BY <1>4, <1>5, <1>9
  <2>2. /\ seg.data = <<Message(s, seg.seq)>> /\ seg.seq = n + 1 /\ n \in Nat
        /\ seg.flags \cap {"SYN", "FIN"} = {}
    BY <1>3, <1>5, <1>6, <1>9, <2>1 DEF Built
  <2>3. SeqLen(seg) = 1
    <3>1. Len(<<Message(s, seg.seq)>>) = 1
      OBVIOUS
    <3> QED
      BY <1>4, <2>2, <3>1, SegmentLength
  <2>4. ~peer'[s].finSeen
    BY <1>2, <1>6, <2>1, <2>2
  <2>5. peer'[s].received = p.received \o <<Message(s, n + 1)>>
    BY <1>2, <1>9, <2>2
  <2>6. /\ Len(peer'[s].received) = n + 1 /\ DOMAIN peer'[s].received = 1 .. n + 1
        /\ peer'[s].received[n + 1] = Message(s, n + 1)
        /\ \A i \in 1 .. n : peer'[s].received[i] = p.received[i]
        /\ DOMAIN p.received = 1 .. n
    BY <1>6, <2>5
  <2>7. \A i \in DOMAIN peer'[s].received : peer'[s].received[i] = Message(s, i)
    <3> SUFFICES ASSUME NEW i \in 1 .. n + 1 PROVE peer'[s].received[i] = Message(s, i)
      BY <2>6
    <3>1. CASE i = n + 1
      BY <2>6, <3>1
    <3>2. CASE i # n + 1
      <4>1. i \in 1 .. n
        BY <2>2, <3>2
      <4> QED
        BY <1>5, <2>6, <4>1
    <3> QED
      BY <3>1, <3>2
  <2>8. peer'[s].rcvNxt = 1 + Len(peer'[s].received)
    BY <1>2, <1>5, <1>9, <2>1, <2>2, <2>3, <2>6
  <2> QED
    BY <2>4, <2>7, <2>8 DEF PeerOK
<1> QED
  BY <1>7, <1>8, <1>9

LEMMA PeerReceiveStep ==
    ASSUME SingleSocket, TypeInv, NEW s \in Sockets, SocketInv(s), PeerReceive(s)
    PROVE  SocketInv(s)'
<1> DEFINE p == peer[s]
<1> DEFINE seg == Head(toPeer[s])
<1>1. /\ TypeOK /\ toPeer[s] # <<>> /\ ~p.listening
      /\ toPeer' = [toPeer EXCEPT ![s] = Tail(@)]
      /\ UNCHANGED <<sck, app, written, got, tx, rx>>
  BY DEF TypeInv, PeerReceive
<1>2. peer'[s].listening = p.listening /\ peer'[s].sndUna \in {seg.ack, p.sndUna}
  BY <1>1, PeerStores DEF PeerStored
<1>3. SentOK(s)'
  BY <1>1, SentShifts DEF SocketInv
<1>4. DeliveryOK(s)'
  BY <1>1 DEF SocketInv, DeliveryOK, RxOK, Delivered, Taken, BeingQueued, RxSocket
<1>5. AcksOK(s)'
  BY <1>1, <1>2, AcksShift DEF SocketInv, AcksOK
<1>6. HandshakeOK(s)'
  <2>1. sck[s].seq # 0
    BY <1>1 DEF SocketInv, HandshakeOK
  <2> QED
    BY <1>1, <1>2, <2>1 DEF SocketInv, HandshakeOK
<1>7. JobOK(s)' /\ QueueOK(s)' /\ InHandOK(s)'
  BY <1>1 DEF SocketInv, JobOK, QueueOK, InHand, InHandOK, Built
<1>8. PeerOK(s)'
  BY ReceivedStep
<1> QED
  BY <1>3, <1>4, <1>5, <1>6, <1>7, <1>8 DEF SocketInv

\* A frame of the kernel is lost: what follows it is in order still.
LEMMA LostStep ==
    ASSUME SingleSocket, TypeInv, NEW s \in Sockets, SocketInv(s), LoseToPeer(s)
    PROVE  SocketInv(s)'
<1>1. /\ TypeOK /\ toPeer[s] # <<>>
      /\ toPeer' = [toPeer EXCEPT ![s] = Tail(@)]
      /\ UNCHANGED <<sck, app, written, got, tx, rx, peer, toKernel>>
  BY DEF TypeInv, LoseToPeer
<1>2. SentOK(s)'
  BY <1>1, SentShifts DEF SocketInv
<1>3. DeliveryOK(s)'
  BY <1>1 DEF SocketInv, DeliveryOK, RxOK, Delivered, Taken, BeingQueued, RxSocket
<1>4. AcksOK(s)'
  BY <1>1, AcksShift DEF SocketInv, AcksOK
<1>5. HandshakeOK(s)'
  <2>1. sck[s].seq # 0
    BY <1>1 DEF SocketInv, HandshakeOK
  <2> QED
    BY <1>1, <2>1 DEF SocketInv, HandshakeOK
<1>6. JobOK(s)' /\ QueueOK(s)' /\ InHandOK(s)'
  BY <1>1 DEF SocketInv, JobOK, QueueOK, InHand, InHandOK, Built
<1>7. PeerOK(s)'
  <2>1. \A i \in DOMAIN toPeer'[s] :
            i + 1 \in DOMAIN toPeer[s] /\ toPeer'[s][i] = toPeer[s][i + 1]
    BY <1>1, FrameTaken
  <2> QED
    BY <1>1, <2>1 DEF SocketInv, PeerOK
<1> QED
  BY <1>2, <1>3, <1>4, <1>5, <1>6, <1>7 DEF SocketInv

LEMMA PeerSendStep ==
    ASSUME SingleSocket, TypeInv, NEW s \in Sockets, SocketInv(s),
           PeerSendNew(s) \/ PeerSendAgain(s)
    PROVE  SocketInv(s)'
<1>1. TypeOK /\ UNCHANGED <<sck, app, written, got, tx, rx, toPeer>>
  BY DEF TypeInv, PeerSendNew, PeerSendAgain
<1>2. ~peer[s].listening
  <2>1. CASE PeerSendNew(s)
    BY <2>1 DEF PeerSendNew
  <2>2. CASE PeerSendAgain(s)
    <3>1. /\ peer[s].sndUna \in Isn[s] .. peer[s].sndNxt /\ peer[s].sndUna < peer[s].sndNxt
          /\ peer[s].listening => peer[s].sndNxt = Isn[s]
          /\ peer[s].sndUna \in Nat /\ Isn[s] \in Nat
      BY <1>1, <2>2, SocketTypes DEF PeerSendAgain, TypeInv, PeerNumbersOK
    <3> QED
      BY <3>1
  <2> QED
    BY <2>1, <2>2
<1>3. /\ peer'[s].listening = peer[s].listening /\ peer'[s].finSeen = peer[s].finSeen
      /\ peer'[s].rcvNxt = peer[s].rcvNxt /\ peer'[s].sndUna = peer[s].sndUna
      /\ peer'[s].received = peer[s].received
  BY <1>1, PeerStores DEF PeerStored, PeerSendAgain
<1>4. DeliveryOK(s)' /\ AcksOK(s)'
  BY <1>1, <1>3 DEF SocketInv, DeliveryOK, RxOK, Delivered, Taken, BeingQueued, RxSocket, AcksOK
<1>5. HandshakeOK(s)' /\ JobOK(s)'
  BY <1>1, <1>2, <1>3 DEF SocketInv, HandshakeOK, JobOK
<1>6. QueueOK(s)' /\ InHandOK(s)'
  BY <1>1 DEF SocketInv, QueueOK, InHand, InHandOK, Built
<1>7. SentOK(s)' /\ PeerOK(s)'
  BY <1>1, <1>3 DEF SocketInv, SentOK, Built, PeerOK
<1> QED
  BY <1>4, <1>5, <1>6, <1>7 DEF SocketInv

-----------------------------------------------------------------------------
(* The theorems.                                                             *)

LEMMA InitInv == Init => IInv
<1> SUFFICES ASSUME Init PROVE IInv
  OBVIOUS
<1>1. ASSUME NEW s \in Sockets
      PROVE  SocketInv(s)
  <2>1. /\ sck[s] = [seq |-> 0, ack |-> 0, status |-> "S_NULL", connectStatus |-> "S_NULL",
                     queueIn |-> <<>>, queueOut |-> <<>>]
        /\ app[s] = "new" /\ written[s] = 0 /\ got[s] = <<>> /\ toPeer[s] = <<>>
        /\ toKernel = <<>> /\ rx = RxIdle /\ rx.at = 0 /\ tx.at = "idle" /\ tx.job = "S_NULL"
        /\ peer[s] = [listening |-> TRUE, finSeen |-> FALSE, rcvNxt |-> 0,
                      sndUna |-> Isn[s], sndNxt |-> Isn[s], received |-> <<>>]
    BY DEF Init, RxIdle, TxIdle
  <2>2. Isn[s] \in Nat
    BY TcpAssumption
  <2>3. DeliveryOK(s)
    BY <2>1 DEF DeliveryOK, RxOK, Delivered, Taken, BeingQueued, RxIdle
  <2>4. AcksOK(s)
    BY <2>1, <2>2 DEF AcksOK
  <2>5. HandshakeOK(s) /\ JobOK(s)
    BY <2>1 DEF HandshakeOK, JobOK
  <2>6. QueueOK(s) /\ InHandOK(s) /\ SentOK(s)
    BY <2>1 DEF QueueOK, InHandOK, SentOK
  <2>7. PeerOK(s)
    BY <2>1 DEF PeerOK
  <2> QED
    BY <2>3, <2>4, <2>5, <2>6, <2>7 DEF SocketInv
<1> QED
  BY <1>1, InitType DEF IInv

LEMMA InvStep == SingleSocket /\ IInv /\ [Next]_vars => IInv'
<1> SUFFICES ASSUME SingleSocket, IInv, [Next]_vars PROVE IInv'
  OBVIOUS
<1>1. TypeInv /\ TypeInv'
  BY TypeStep DEF IInv
<1>2. ASSUME NEW s \in Sockets
      PROVE  SocketInv(s)'
  <2>1. Sockets = {s} /\ SocketInv(s)
    BY <1>1, OnlySocket DEF TypeInv, IInv
  <2>2. CASE App(s)
    BY <1>1, <2>1, <2>2, ConnectStep, ConnectedStep, WriteQueueStep, WriteStatusStep, ReadStep,
       CloseStep, CloseStatusStep DEF App
  <2>3. CASE Tx
    BY <1>1, <2>1, <2>3, TxSelectStep, TxClearStep, TxBuildStep, TxSendStep DEF Tx
  <2>4. CASE Rx \/ LoseToKernel
    BY <1>1, <2>1, <2>4, RxTakeStep, RxStoreStep DEF Rx
  <2>5. CASE Peer(s)
    BY <1>1, <2>1, <2>5, PeerAcceptStep, PeerReceiveStep, PeerSendStep DEF Peer
  <2>7. CASE LoseToPeer(s)
    BY <1>1, <2>1, <2>7, LostStep
  <2>6. CASE UNCHANGED vars
    <3>1. DeliveryOK(s)'
      BY <2>1, <2>6 DEF SocketInv, DeliveryOK, RxOK, Delivered, Taken, BeingQueued, RxSocket, vars
    <3>3. AcksOK(s)' /\ HandshakeOK(s)' /\ JobOK(s)'
      BY <2>1, <2>6 DEF SocketInv, AcksOK, HandshakeOK, JobOK, vars
    <3>2. QueueOK(s)' /\ InHandOK(s)' /\ SentOK(s)' /\ PeerOK(s)'
      BY <2>1, <2>6 DEF SocketInv, QueueOK, InHand, InHandOK, Built, SentOK, PeerOK, vars
    <3> QED
      BY <3>1, <3>2, <3>3 DEF SocketInv
  <2> QED
    BY <2>1, <2>2, <2>3, <2>4, <2>5, <2>6, <2>7 DEF Next
<1> QED
  BY <1>1, <1>2 DEF IInv

LEMMA Invariance ==
    ASSUME SingleSocket
    PROVE  Spec => []IInv
<1>1. IInv /\ [Next]_vars => IInv'
  BY InvStep
<1> QED
  BY <1>1, InitInv, PTL DEF Spec

(***************************************************************************)
(* The only TCP socket of a process gets the bytes of its connection in    *)
(* order, each once, and none that is not its own: whatever frames are     *)
(* lost, repeated or dropped while status is S_ACK, networking_rx_sort()   *)
(* takes a segment only when its number is the next.                       *)
(***************************************************************************)
THEOREM StreamDelivered ==
    ASSUME SingleSocket
    PROVE  Spec => []DeliveredInOrder
<1>1. ASSUME IInv, NEW s \in Sockets, NEW i \in DOMAIN Delivered(s)
      PROVE  Delivered(s)[i] = Message(s, i)
  <2>1. Delivered(s) \in Seq(Messages) /\ BeingQueued(s) \in Seq(Messages)
    BY <1>1, SocketTypes DEF IInv, TypeInv
  <2>2. i \in DOMAIN Taken(s) /\ Taken(s)[i] = Delivered(s)[i]
    BY <1>1, <2>1 DEF Taken
  <2> QED
    BY <1>1, <2>2 DEF IInv, SocketInv, DeliveryOK
<1>2. IInv => DeliveredInOrder
  BY <1>1 DEF DeliveredInOrder, Message
<1> QED
  BY <1>2, Invariance, PTL

(***************************************************************************)
(* The kernel acknowledges only what the RX task has taken in order: what  *)
(* is in the inbound queue, was read from it or is the message that task   *)
(* is about to queue, and the FIN only after every byte.  The TX task can  *)
(* acknowledge that message before queue_push(), never one that is not     *)
(* going to be queued; the number it sends was read before the segment     *)
(* went out, so it can be old, never too new.                              *)
(***************************************************************************)
THEOREM AcknowledgedIsTaken ==
    ASSUME SingleSocket
    PROVE  Spec => []AcksTaken
<1>1. IInv => AcksTaken
  BY DEF IInv, SocketInv, DeliveryOK, AcksOK, AcksTaken, InSequence, Message
<1> QED
  BY <1>1, Invariance, PTL

(***************************************************************************)
(* The segments kwrite() and networking_tx_poll() send carry message k     *)
(* with number k, although a segment is built and sent in two steps and    *)
(* the queue grows between them; so the peer receives the messages in the  *)
(* order they were written, none twice.                                    *)
(***************************************************************************)
THEOREM StreamSent ==
    ASSUME SingleSocket
    PROVE  Spec => []SentInOrder
<1>1. ASSUME IInv, NEW s \in Sockets, NEW i \in DOMAIN toPeer[s]
      PROVE  /\ "SYN" \in toPeer[s][i].flags => toPeer[s][i].seq = 0
             /\ toPeer[s][i].data # <<>> => toPeer[s][i].seq = toPeer[s][i].data[1].byte
  <2>1. Built(s, toPeer[s][i])
    BY <1>1 DEF IInv, SocketInv, SentOK
  <2> QED
    BY <2>1 DEF Built, Message
<1>2. IInv => SentInOrder
  BY <1>1 DEF IInv, SocketInv, PeerOK, SentInOrder, InSequence, Message
<1> QED
  BY <1>2, Invariance, PTL
=============================================================================
