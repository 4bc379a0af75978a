----------------------------- MODULE TcpSocket ------------------------------
(***************************************************************************)
(* TCP sockets: kconnect(), kwrite(), kread() and kclose() of socket.c in  *)
(* the task that owns a socket, the TCP part of networking_tx_poll() in    *)
(* the TX task, and the TCP part of networking_rx_sort() in the RX task    *)
(* (networking.c).  The three tasks share the SOCKET without any lock: the *)
(* scheduler can switch between a test of `status` and the store after it, *)
(* so each test and each store of `status` is a step of its own, and so is *)
(* each store of the RX task: the number, the status, the message.         *)
(*                                                                         *)
(* The other end of each connection is external: a TCP that acknowledges   *)
(* what it accepts and sends again what is not acknowledged.  The kernel   *)
(* sends nothing again.  Frames can be lost on both ways.  Every message   *)
(* is one byte, named by its place in its stream.  The kernel's initial    *)
(* sequence number is 0.                                                   *)
(***************************************************************************)
EXTENDS Naturals, Sequences

CONSTANTS
    SocketList,   \* the sockets, in the order of the list of their process
    Isn,          \* the initial sequence number of each socket's peer
    PeerBytes,    \* bound: how many bytes a peer sends
    MaxWrites,    \* bound: how many times a socket is written to
    MaxWire,      \* bound: frames on the way to the kernel
    MayLose       \* whether frames can be lost, to the kernel and from it

Sockets == {SocketList[i] : i \in DOMAIN SocketList}

ASSUME TcpAssumption ==
    /\ SocketList \in Seq(Sockets) /\ SocketList # <<>>
    /\ \A i, j \in DOMAIN SocketList : SocketList[i] = SocketList[j] => i = j
    /\ Isn \in [Sockets -> Nat \ {0}]
    /\ PeerBytes \in Nat /\ MaxWrites \in Nat /\ MaxWire \in Nat \ {0}
    /\ MayLose \in BOOLEAN

VARIABLES
    sck,       \* SOCKET of each socket, its message queues included
    app,       \* where the task that owns the socket is
    written,   \* history: how many messages kwrite() was called for
    got,       \* history: the messages kread() has returned
    tx,        \* networking_tx_poll(): the branch it is in
    rx,        \* networking_rx_sort(): the segment and the socket it is at
    peer,      \* external: the state of the other end
    toPeer,    \* frames sent on each connection, in order
    toKernel,  \* frames on the way to networking_rx_sort(), in order
    cut        \* history: the sockets that have lost a frame to their peer

vars == <<sck, app, written, got, tx, rx, peer, toPeer, toKernel, cut>>

Statuses  == {"S_SYN", "S_ACK", "S_FIN", "S_OPEN", "S_WRITE", "S_NULL"}
Locations == {"new", "connecting", "open", "queued", "closeWait", "closeSet", "closed"}
Messages  == [sck : Sockets, byte : Nat]
RxSteps   == {"test", "match", "store", "status", "push"}
Kinds     == {"synAck", "fin", "psh", "ack", "none"}
Segments  == [sck : Sockets, flags : SUBSET {"SYN", "ACK", "PSH", "FIN"},
              seq : Nat, ack : Nat, data : Seq(Messages)]

NoSegment == [flags |-> {}]

SOCKET == [seq : Nat, ack : Nat, status : Statuses, connectStatus : Statuses,
           queueIn : Seq(Messages), queueOut : Seq(Messages)]
PeerStates == [listening : BOOLEAN, finSeen : BOOLEAN, rcvNxt : Nat, sndUna : Nat,
               sndNxt : Nat, received : Seq(Messages)]

TypeOK ==
    /\ sck \in [Sockets -> SOCKET]
    /\ app \in [Sockets -> Locations]
    /\ written \in [Sockets -> 0 .. MaxWrites]
    /\ got \in [Sockets -> Seq(Messages)]
    /\ tx \in [at : {"idle", "clear", "build", "send"}, job : Statuses, sck : Sockets,
               seg : Segments \union {NoSegment}]
    /\ tx.at = "send" => tx.seg \in Segments
    /\ rx \in [at : 0 .. Len(SocketList), step : RxSteps, kind : Kinds,
               seg : Segments \union {NoSegment}]
    /\ rx.at # 0 => rx.seg \in Segments
    /\ peer \in [Sockets -> PeerStates]
    /\ toPeer \in [Sockets -> Seq(Segments)]
    /\ toKernel \in Seq(Segments) /\ Len(toKernel) <= MaxWire
    /\ cut \subseteq Sockets

TxIdle == [at |-> "idle", job |-> "S_NULL", sck |-> SocketList[1], seg |-> NoSegment]
RxIdle == [at |-> 0, step |-> "test", kind |-> "none", seg |-> NoSegment]

\* ksocket() has made the sockets, their protocol field is 0: TCP.
Init ==
    /\ sck = [s \in Sockets |->
                [seq |-> 0, ack |-> 0, status |-> "S_NULL", connectStatus |-> "S_NULL",
                 queueIn |-> <<>>, queueOut |-> <<>>]]
    /\ app = [s \in Sockets |-> "new"]
    /\ written = [s \in Sockets |-> 0]
    /\ got = [s \in Sockets |-> <<>>]
    /\ tx = TxIdle
    /\ rx = RxIdle
    /\ peer = [s \in Sockets |->
                 [listening |-> TRUE, finSeen |-> FALSE, rcvNxt |-> 0,
                  sndUna |-> Isn[s], sndNxt |-> Isn[s], received |-> <<>>]]
    /\ toPeer = [s \in Sockets |-> <<>>]
    /\ toKernel = <<>>
    /\ cut = {}

-----------------------------------------------------------------------------
(* The task that owns socket s.                                              *)

Goto(s, from, to) == app[s] = from /\ app' = [app EXCEPT ![s] = to]

\* kconnect() once the address of the peer is known.  Its stores are one
\* step: a TX visit between them ends in a sleep(10) before the next one.
Connect(s) ==
    /\ Goto(s, "new", "connecting")
    /\ sck' = [sck EXCEPT ![s].seq = 0, ![s].ack = 0,
                          ![s].status = "S_SYN", ![s].connectStatus = "S_SYN"]
    /\ UNCHANGED <<written, got, tx, rx, peer, toPeer, toKernel, cut>>

\* The loop of kconnect() ends.
Connected(s) ==
    /\ sck[s].connectStatus = "S_OPEN"
    /\ Goto(s, "connecting", "open")
    /\ UNCHANGED <<sck, written, got, tx, rx, peer, toPeer, toKernel, cut>>

\* kwrite(): the message is queued, and the status is stored afterwards.
WriteQueue(s) ==
    /\ Goto(s, "open", "queued")
    /\ written[s] < MaxWrites
    /\ written' = [written EXCEPT ![s] = @ + 1]
    /\ sck' = [sck EXCEPT ![s].queueOut = Append(@, [sck |-> s, byte |-> written[s] + 1])]
    /\ UNCHANGED <<got, tx, rx, peer, toPeer, toKernel, cut>>

WriteStatus(s) ==
    /\ Goto(s, "queued", "open")
    /\ sck' = [sck EXCEPT ![s].status = "S_WRITE"]
    /\ UNCHANGED <<written, got, tx, rx, peer, toPeer, toKernel, cut>>

\* kread() when there is a message.
Read(s) ==
    /\ app[s] = "open"
    /\ sck[s].queueIn # <<>>
    /\ got' = [got EXCEPT ![s] = Append(@, Head(sck[s].queueIn))]
    /\ sck' = [sck EXCEPT ![s].queueIn = Tail(@)]
    /\ UNCHANGED <<app, written, tx, rx, peer, toPeer, toKernel, cut>>

\* kclose(): called, past its loop, and the store of S_FIN.
CloseCall(s) ==
    /\ Goto(s, "open", "closeWait")
    /\ UNCHANGED <<sck, written, got, tx, rx, peer, toPeer, toKernel, cut>>

CloseTest(s) ==
    /\ sck[s].status = "S_OPEN"
    /\ Goto(s, "closeWait", "closeSet")
    /\ UNCHANGED <<sck, written, got, tx, rx, peer, toPeer, toKernel, cut>>

CloseStatus(s) ==
    /\ Goto(s, "closeSet", "closed")
    /\ sck' = [sck EXCEPT ![s].status = "S_FIN"]
    /\ UNCHANGED <<written, got, tx, rx, peer, toPeer, toKernel, cut>>

-----------------------------------------------------------------------------
(* networking_tx_poll(), TCP.  S_SYN, S_FIN and S_ACK are cleared to S_OPEN  *)
(* before the segment is built; S_WRITE is left.                             *)

TxSelect(s) ==
    /\ tx.at = "idle"
    /\ \/ sck[s].status \in {"S_SYN", "S_FIN", "S_ACK"}
       \/ sck[s].status = "S_WRITE" /\ sck[s].queueOut # <<>>
    /\ tx' = [TxIdle EXCEPT !.at = IF sck[s].status = "S_WRITE" THEN "build" ELSE "clear",
                            !.job = sck[s].status, !.sck = s]
    /\ UNCHANGED <<sck, app, written, got, rx, peer, toPeer, toKernel, cut>>

\* Mutant: S_ACK is not cleared.
ClearedStatusMutant(job) == IF job = "S_ACK" THEN "S_ACK" ELSE "S_OPEN"
ClearedStatus(job) == "S_OPEN"

TxClear ==
    /\ tx.at = "clear"
    /\ sck' = [sck EXCEPT ![tx.sck].status = ClearedStatus(tx.job)]
    /\ tx' = [tx EXCEPT !.at = "build"]
    /\ UNCHANGED <<app, written, got, rx, peer, toPeer, toKernel, cut>>

TxFlags ==
    CASE tx.job = "S_SYN"   -> {"SYN"}
      [] tx.job = "S_FIN"   -> {"FIN", "ACK"}
      [] tx.job = "S_ACK"   -> {"ACK"}
      [] tx.job = "S_WRITE" -> {"PSH", "ACK"}

\* queue_pop() for S_WRITE, and tcp_req() with the numbers of the moment.
TxBuild ==
    LET s == tx.sck
        data == IF tx.job = "S_WRITE" THEN <<Head(sck[s].queueOut)>> ELSE <<>>
    IN  /\ tx.at = "build"
        /\ tx' = [tx EXCEPT !.at = "send",
                            !.seg = [sck |-> s, flags |-> TxFlags, data |-> data,
                                     seq |-> sck[s].seq, ack |-> sck[s].ack]]
        /\ sck' = [sck EXCEPT ![s].queueOut = IF tx.job = "S_WRITE" THEN Tail(@) ELSE @]
        /\ UNCHANGED <<app, written, got, rx, peer, toPeer, toKernel, cut>>

\* The sequence numbers a segment uses up.
SeqLen(seg) == Len(seg.data) + IF seg.flags \cap {"SYN", "FIN"} # {} THEN 1 ELSE 0

\* Mutant: an ACK uses up a number like SYN and FIN.
SentSeqMutant(seg) == sck[seg.sck].seq + (IF seg.data = <<>> THEN 1 ELSE Len(seg.data))
SentSeq(seg) == sck[seg.sck].seq + SeqLen(seg)

TxConnectStatus(s) ==
    IF tx.job = "S_ACK" /\ sck[s].connectStatus = "S_SYN" THEN "S_OPEN" ELSE sck[s].connectStatus

\* tx_send(), and what follows it for S_ACK.
TxSend ==
    LET s == tx.sck IN
    /\ tx.at = "send"
    /\ sck' = [sck EXCEPT ![s].seq = SentSeq(tx.seg), ![s].connectStatus = TxConnectStatus(s)]
    /\ toPeer' = [toPeer EXCEPT ![s] = Append(@, tx.seg)]
    /\ tx' = TxIdle
    /\ UNCHANGED <<app, written, got, rx, peer, toKernel, cut>>

-----------------------------------------------------------------------------
(* networking_rx_sort(), TCP: every socket of every process is tried, in     *)
(* list order; ports are not compared.                                       *)

RxTake ==
    /\ rx.at = 0 /\ toKernel # <<>>
    /\ rx' = [RxIdle EXCEPT !.at = 1, !.seg = Head(toKernel)]
    /\ toKernel' = Tail(toKernel)
    /\ UNCHANGED <<sck, app, written, got, tx, peer, toPeer, cut>>

RxSocket == SocketList[rx.at]
RxAt(step) == rx.at # 0 /\ rx.step = step
RxNext == IF rx.at = Len(SocketList) THEN RxIdle
          ELSE [RxIdle EXCEPT !.at = rx.at + 1, !.seg = rx.seg]

RxTest ==
    /\ RxAt("test")
    /\ rx' = IF sck[RxSocket].status \in {"S_OPEN", "S_WRITE"}
             THEN [rx EXCEPT !.step = "match"] ELSE RxNext
    /\ UNCHANGED <<sck, app, written, got, tx, peer, toPeer, toKernel, cut>>

\* The segment acknowledges everything sent and starts where the last ended.
Expected(c, seg) == c.seq = seg.ack /\ c.ack = seg.seq

\* Mutant: data is taken wherever it starts.
KindMutant(c, seg) ==
    CASE "SYN" \in seg.flags /\ c.ack = 0 /\ c.seq = seg.ack -> "synAck"
      [] "FIN" \in seg.flags /\ Expected(c, seg) -> "fin"
      [] "PSH" \in seg.flags /\ c.seq = seg.ack -> "psh"
      [] {"FIN", "PSH"} \cap seg.flags = {} /\ "ACK" \in seg.flags /\ Expected(c, seg) -> "ack"
      [] OTHER -> "none"

\* What a segment is to a socket; the first test that holds decides.
Kind(c, seg) ==
    CASE "SYN" \in seg.flags /\ c.ack = 0 /\ c.seq = seg.ack -> "synAck"
      [] "FIN" \in seg.flags /\ Expected(c, seg) -> "fin"
      [] "PSH" \in seg.flags /\ Expected(c, seg) -> "psh"
      [] {"FIN", "PSH"} \cap seg.flags = {} /\ "ACK" \in seg.flags /\ Expected(c, seg) -> "ack"
      [] OTHER -> "none"

RxMatch ==
    LET kind == Kind(sck[RxSocket], rx.seg) IN
    /\ RxAt("match")
    /\ rx' = IF kind = "none" THEN RxNext ELSE [rx EXCEPT !.step = "store", !.kind = kind]
    /\ UNCHANGED <<sck, app, written, got, tx, peer, toPeer, toKernel, cut>>

\* Mutant: the segment is acknowledged as if it carried one byte more.
AckAfterMutant(ack, kind) ==
    IF kind = "psh" THEN ack + Len(rx.seg.data) + 1 ELSE rx.seg.seq + 1
AckAfter(ack, kind) ==
    IF kind = "psh" THEN ack + Len(rx.seg.data) ELSE rx.seg.seq + 1

\* Mutant: a SYN-ACK is taken without asking the TX task for an ACK.
AnsweredMutant(kind) == kind \in {"fin", "psh"}
Answered(kind) == kind \in {"synAck", "fin", "psh"}

\* The first store of a branch: the acknowledgment number, or for an
\* acknowledgment, which is not answered, connect_status.
RxStore ==
    /\ RxAt("store")
    /\ sck' = IF rx.kind = "ack"
              THEN [sck EXCEPT ![RxSocket].connectStatus = "S_OPEN"]
              ELSE [sck EXCEPT ![RxSocket].ack = AckAfter(@, rx.kind)]
    /\ rx' = IF Answered(rx.kind) THEN [rx EXCEPT !.step = "status"] ELSE RxNext
    /\ UNCHANGED <<app, written, got, tx, peer, toPeer, toKernel, cut>>

\* Whatever status was, S_WRITE too, gives way to S_ACK.
RxStatus ==
    /\ RxAt("status")
    /\ sck' = [sck EXCEPT ![RxSocket].status = "S_ACK"]
    /\ rx' = IF rx.kind = "psh" THEN [rx EXCEPT !.step = "push"] ELSE RxNext
    /\ UNCHANGED <<app, written, got, tx, peer, toPeer, toKernel, cut>>

\* The message is queued last, and ends the walk over the sockets.
RxPush ==
    /\ RxAt("push")
    /\ sck' = [sck EXCEPT ![RxSocket].queueIn = @ \o rx.seg.data]
    /\ rx' = RxIdle
    /\ UNCHANGED <<app, written, got, tx, peer, toPeer, toKernel, cut>>

-----------------------------------------------------------------------------
(* External: the peer of socket s, and the wire.                             *)

\* What the peer sends at place n of its stream.
PeerFlags(s, n) ==
    IF n = Isn[s] THEN {"SYN", "ACK"}
    ELSE IF n <= Isn[s] + PeerBytes THEN {"PSH", "ACK"} ELSE {"FIN", "ACK"}

PeerSegment(s, n, rcvNxt) ==
    [sck |-> s, flags |-> PeerFlags(s, n), seq |-> n, ack |-> rcvNxt,
     data |-> IF "PSH" \in PeerFlags(s, n) THEN <<[sck |-> s, byte |-> n - Isn[s]]>> ELSE <<>>]

PureAck(s, p) ==
    [sck |-> s, flags |-> {"ACK"}, seq |-> p.sndNxt, ack |-> p.rcvNxt, data |-> <<>>]

\* The peer accepts the SYN and answers.
PeerAccept(s) ==
    LET seg == Head(toPeer[s]) IN
    /\ toPeer[s] # <<>> /\ "SYN" \in seg.flags /\ peer[s].listening
    /\ Len(toKernel) < MaxWire
    /\ peer' = [peer EXCEPT ![s].listening = FALSE, ![s].rcvNxt = seg.seq + 1,
                            ![s].sndNxt = Isn[s] + 1]
    /\ toPeer' = [toPeer EXCEPT ![s] = Tail(@)]
    /\ toKernel' = Append(toKernel, PeerSegment(s, Isn[s], seg.seq + 1))
    /\ UNCHANGED <<sck, app, written, got, tx, rx, cut>>

\* Any other segment: its acknowledgment counts if it is of something sent,
\* its data if it is the next; data and FIN are acknowledged.
PeerReceive(s) ==
    LET seg   == Head(toPeer[s])
        p     == peer[s]
        next  == seg.seq = p.rcvNxt
        moved == [p EXCEPT
                    !.sndUna = IF seg.ack \in p.sndUna .. p.sndNxt THEN seg.ack ELSE @,
                    !.rcvNxt = IF next THEN @ + SeqLen(seg) ELSE @,
                    !.received = IF next THEN @ \o seg.data ELSE @,
                    !.finSeen = @ \/ (next /\ "FIN" \in seg.flags)]
    IN  /\ toPeer[s] # <<>> /\ "SYN" \notin seg.flags /\ ~p.listening
        /\ peer' = [peer EXCEPT ![s] = moved]
        /\ toPeer' = [toPeer EXCEPT ![s] = Tail(@)]
        /\ IF SeqLen(seg) = 0 THEN UNCHANGED toKernel
           ELSE Len(toKernel) < MaxWire /\ toKernel' = Append(toKernel, PureAck(s, moved))
        /\ UNCHANGED <<sck, app, written, got, tx, rx, cut>>

\* The next byte, or the FIN after all bytes once the kernel has sent its own.
PeerSendNew(s) ==
    LET n == peer[s].sndNxt IN
    /\ ~peer[s].listening /\ peer[s].sndUna > Isn[s]
    /\ \/ n <= Isn[s] + PeerBytes
       \/ n = Isn[s] + PeerBytes + 1 /\ peer[s].finSeen
    /\ Len(toKernel) < MaxWire
    /\ toKernel' = Append(toKernel, PeerSegment(s, n, peer[s].rcvNxt))
    /\ peer' = [peer EXCEPT ![s].sndNxt = @ + 1]
    /\ UNCHANGED <<sck, app, written, got, tx, rx, toPeer, cut>>

PeerSendAgain(s) ==
    /\ peer[s].sndUna < peer[s].sndNxt
    /\ Len(toKernel) < MaxWire
    /\ toKernel' = Append(toKernel, PeerSegment(s, peer[s].sndUna, peer[s].rcvNxt))
    /\ UNCHANGED <<sck, app, written, got, tx, rx, peer, toPeer, cut>>

LoseToKernel ==
    /\ MayLose /\ toKernel # <<>>
    /\ toKernel' = Tail(toKernel)
    /\ UNCHANGED <<sck, app, written, got, tx, rx, peer, toPeer, cut>>

LoseToPeer(s) ==
    /\ MayLose /\ toPeer[s] # <<>>
    /\ toPeer' = [toPeer EXCEPT ![s] = Tail(@)]
    /\ cut' = cut \union {s}
    /\ UNCHANGED <<sck, app, written, got, tx, rx, peer, toKernel>>

-----------------------------------------------------------------------------
App(s) ==
    \/ Connect(s) \/ Connected(s) \/ WriteQueue(s) \/ WriteStatus(s)
    \/ Read(s) \/ CloseCall(s) \/ CloseTest(s) \/ CloseStatus(s)
Tx == (\E s \in Sockets : TxSelect(s)) \/ TxClear \/ TxBuild \/ TxSend
Rx == RxTake \/ RxTest \/ RxMatch \/ RxStore \/ RxStatus \/ RxPush
Peer(s) == PeerAccept(s) \/ PeerReceive(s) \/ PeerSendNew(s) \/ PeerSendAgain(s)

Next ==
    \/ \E s \in Sockets : App(s) \/ Peer(s) \/ LoseToPeer(s)
    \/ Tx \/ Rx \/ LoseToKernel

Spec == Init /\ [][Next]_vars

(***************************************************************************)
(* Fairness.  Scheduler gives every ready task the CPU again and again, so *)
(* each task goes on with what it has begun, and the TX task, which walks  *)
(* all sockets in turn, comes to each of them.  Of a peer that sends again *)
(* and again not every frame is lost; any of the kernel's can be.  The     *)
(* peer answers, and sends again what is not acknowledged.  Nothing makes  *)
(* a task call the socket functions.                                       *)
(***************************************************************************)
KernelFairness ==
    /\ WF_vars(TxClear \/ TxBuild \/ TxSend)
    /\ SF_vars(RxTake) /\ WF_vars(RxTest \/ RxMatch \/ RxStore \/ RxStatus \/ RxPush)
    /\ \A s \in Sockets :
        SF_vars(TxSelect(s)) /\ WF_vars(Connected(s) \/ WriteStatus(s) \/ CloseStatus(s))

PeerFairness ==
    \A s \in Sockets :
        SF_vars(PeerAccept(s) \/ PeerReceive(s)) /\ SF_vars(PeerSendAgain(s))

FairSpec == Spec /\ KernelFairness /\ PeerFairness

-----------------------------------------------------------------------------
(* Properties.                                                               *)

InSequence(seq) == {seq[i] : i \in DOMAIN seq}

\* What the RX task has delivered to a socket, read or not.
Delivered(s) == got[s] \o sck[s].queueIn

\* Bytes are delivered to the socket of their connection, in order, each
\* once, although the peer sends again and segments are dropped while the
\* status is S_ACK.
DeliveredInOrder ==
    \A s \in Sockets : \A i \in DOMAIN Delivered(s) :
        Delivered(s)[i] = [sck |-> s, byte |-> i]

\* The byte the RX task has counted and not yet queued: between the store of
\* the number and queue_push() the TX task can already acknowledge it.
BeingQueued(s) ==
    IF rx.at # 0 /\ RxSocket = s /\ rx.kind = "psh" /\ rx.step \in {"status", "push"}
    THEN rx.seg.data ELSE <<>>

Taken(s) == Delivered(s) \o BeingQueued(s)

\* Nothing is acknowledged that the RX task has not taken in order: what a
\* socket would acknowledge next is the SYN, the bytes in its queue or read
\* from it, the one that is being queued, and the FIN once all bytes are
\* there; and what it did acknowledge is no more.
AcksTaken ==
    \A s \in Sockets :
        /\ \A i \in DOMAIN Taken(s) : Taken(s)[i] = [sck |-> s, byte |-> i]
        /\ sck[s].ack # 0 =>
            \/ sck[s].ack = Isn[s] + 1 + Len(Taken(s))
            \/ Len(Taken(s)) = PeerBytes /\ sck[s].ack = Isn[s] + 2 + PeerBytes
        /\ \A seg \in InSequence(toPeer[s]) : seg.ack <= sck[s].ack
        /\ peer[s].sndUna > Isn[s] => peer[s].sndUna <= sck[s].ack

\* The sequence numbers sent name the bytes written: message k goes out with
\* number k, the SYN with 0, and the peer takes the messages in order.
SentInOrder ==
    \A s \in Sockets :
        /\ \A seg \in InSequence(toPeer[s]) :
            /\ "SYN" \in seg.flags => seg.seq = 0
            /\ seg.data # <<>> => seg.seq = seg.data[1].byte
        /\ \A i \in DOMAIN peer[s].received : peer[s].received[i] = [sck |-> s, byte |-> i]

\* The SYN was sent and lost: nothing sends it again.
SynLost(s) ==
    s \in cut /\ sck[s].seq = 1 /\ peer[s].listening /\ toPeer[s] = <<>>

\* kconnect() does not wait for ever, unless its only SYN was lost.
ConnectReturns ==
    \A s \in Sockets : []<>(app[s] # "connecting") \/ <>[]SynLost(s)

\* kwrite() has stored S_WRITE over an S_ACK the TX task had not seen, after
\* the message was sent: there is nothing to write, so nothing is sent, and
\* the peer, which waits for the acknowledgment, sends old bytes only.
AckReplaced(s) ==
    /\ sck[s].status = "S_WRITE" /\ sck[s].queueOut = <<>>
    /\ peer[s].sndUna < sck[s].ack

\* A frame of the kernel was lost, and it sends nothing again: the peer does
\* not learn what the kernel took, and repeats it in vain, or lacks what the
\* kernel sent, and acknowledges less than the kernel expects.
OutOfStep(s) ==
    s \in cut /\ (peer[s].sndUna < sck[s].ack \/ peer[s].rcvNxt < sck[s].seq)

AllDelivered(s) ==
    \A k \in 1 .. PeerBytes : peer[s].sndNxt > Isn[s] + k => Len(Delivered(s)) >= k

\* Every byte the peer sends is delivered in the end, although frames to the
\* kernel are lost and segments dropped while the status is S_ACK, unless a
\* kwrite() that is the last one has replaced the S_ACK for good, or a frame
\* of the kernel was lost and the two ends disagree for good.
PeerBytesArrive ==
    \A s \in Sockets :
        <>[]AllDelivered(s) \/ <>[]AckReplaced(s) \/ <>[]OutOfStep(s)

\* What networking_tx_poll() says it does: messages are sent until the
\* outbound message queue is empty.
QueueDrains == \A s \in Sockets : sck[s].queueOut # <<>> ~> sck[s].queueOut = <<>>
=============================================================================
