------------------------------ MODULE HostSetup ------------------------------
(***************************************************************************)
(* How the kernel gets an address and finds its first host: dhcp_client()  *)
(* and the address resolution of kconnect() in Main, the ARP and UDP       *)
(* branches of the networking TX and RX tasks, and the ARP list they       *)
(* share.  DHCP servers and the other hosts of the network are external.   *)
(*                                                                         *)
(* The three tasks are preempted anywhere but in critical sections, so an  *)
(* action is the code between two accesses to shared state.  An address is *)
(* a number, 0 is "no address"; a subnet mask is the size of its blocks, 0 *)
(* where the option was missing; the MAC address of a host is written as   *)
(* its IP address.                                                         *)
(***************************************************************************)
EXTENDS Naturals, Sequences, FiniteSets

CONSTANTS
  Servers,      \* the addresses of the DHCP servers
  OfferOf,      \* the address each server offers to this kernel
  MaskOf,       \* the mask each server sends, 0 if none
  Targets,      \* the addresses Main may connect to
  Hosts,        \* the hosts that answer ARP requests
  OtherLease,   \* what the servers lease to another client
  MaxOthers,    \* a bound on the frames nobody in the kernel asked for
  MaxReplies,   \* a bound on the ARP replies of the hosts
  MaxConnects   \* a bound on the connections Main makes

ASSUME SetupAssumption ==
  /\ Servers \subseteq Nat \ {0} /\ Targets \subseteq Nat \ {0}
  /\ Hosts \subseteq Nat \ {0} /\ IsFiniteSet(Hosts) /\ OtherLease \in Nat \ {0}
  /\ MaxOthers \in Nat /\ MaxReplies \in Nat /\ MaxConnects \in Nat
  /\ OfferOf \in [Servers -> Nat \ {0}] /\ MaskOf \in [Servers -> Nat]

VARIABLES
  main,      \* where Main is in dhcp_client() and kconnect()
  target,    \* ip_out of kconnect()
  connects,  \* how many connections Main has begun
  intf,      \* the network interface: ip_addr, ip_addr_dhcp, subnet_mask
  offer,     \* offer_ip, offer_dhcp and offer_subnet_mask of dhcp_client()
  arpSck,    \* Main's ARP socket: "none", "raw" until written, "ready"
  arpOut,    \* message_queue_out of the ARP socket
  udpSck,    \* the queues of the DHCP socket: "none", "raw", "ready"
  udpOut, udpIn,   \* message_queue_out and message_queue_in
  tcpStatus, \* the status of the TCP socket
  arpList,   \* g_arp_list: "none", "raw" or "ready"
  arpHead,   \* its entries
  rarCount,  \* rar_count of the device
  tx,        \* where the TX task is in its loop
  rx,        \* the frame the RX task is sorting, NoFrame if none
  wild,      \* the functions that used the ARP list before it was written
  sent,      \* the frames the kernel has sent
  wire,      \* the frames on their way to the kernel
  offered, leased,  \* the servers that have sent an OFFER, an ACK
  others,    \* the frames that answer nothing the kernel sent, each once
  replies,   \* how many ARP replies were sent
  lost       \* whether a frame was lost

net == <<target, connects, intf, offer>>
askVars == <<arpSck, arpOut>>
udpVars == <<udpSck, udpOut, udpIn>>
sckVars == <<askVars, udpVars, tcpStatus>>
arpVars == <<arpList, arpHead, rarCount>>
outside == <<wire, offered, leased, others, replies, lost>>
world == <<tx, rx, sent, outside>>
vars == <<main, net, sckVars, arpVars, wild, world>>

NoLease == [ip |-> 0, dhcp |-> 0, mask |-> 0]

Frame(kind, ip, from) == [kind |-> kind, ip |-> ip, from |-> from]
NoFrame == Frame("NONE", 0, 0)
Hung == Frame("HUNG", 0, 0)

Init ==
  /\ main = "ksocket" /\ target \in Targets /\ connects = 1 /\ intf = NoLease /\ offer = NoLease
  /\ arpSck = "none" /\ arpOut = <<>>
  /\ udpSck = "none" /\ udpOut = <<>> /\ udpIn = <<>> /\ tcpStatus = "S_NULL"
  /\ arpList = "none" /\ arpHead = <<>> /\ rarCount = 1
  /\ tx = "arp" /\ rx = NoFrame /\ wild = {} /\ sent = {}
  /\ wire = {} /\ offered = {} /\ leased = {} /\ others = {} /\ replies = 0 /\ lost = FALSE

(* mask & ip, for the masks of subnets *)
Masked(mask, ip) == IF mask = 0 THEN 0 ELSE ip - (ip % mask)

(* queue_pop() *)
Popped(queue) == Tail(queue)

(* arp_lookup() finds ip on the list. *)
Listed(ip) == \E k \in DOMAIN arpHead : arpHead[k].ip = ip

(* function reads the head of the ARP list, whether or not it was written. *)
WildRead(function) == wild' = IF arpList = "ready" THEN wild ELSE wild \union {function}

-----------------------------------------------------------------------------
(* Main: dhcp_client() *)

(* ksocket() stores the page of the ARP socket in the task's record and   *)
(* writes it after that, with interrupts on.                              *)
KsocketArp ==
  /\ main = "ksocket" /\ main' = "ksocket2" /\ arpSck' = "raw"
  /\ UNCHANGED <<net, arpOut, udpVars, tcpStatus, arpVars, wild, world>>

KsocketArpReady ==
  /\ main = "ksocket2" /\ main' = "kconnect" /\ arpSck' = "ready" /\ arpOut' = <<>>
  /\ UNCHANGED <<net, udpVars, tcpStatus, arpVars, wild, world>>

(* kconnect() does the same with the queues of a UDP socket that is on    *)
(* the task's socket list already.                                        *)
KconnectUdp ==
  /\ main = "kconnect" /\ main' = "kconnect2" /\ udpSck' = "raw"
  /\ UNCHANGED <<net, askVars, udpOut, udpIn, tcpStatus, arpVars, wild, world>>

KconnectUdpReady ==
  /\ main = "kconnect2" /\ main' = "discover" /\ udpSck' = "ready" /\ udpOut' = <<>> /\ udpIn' = <<>>
  /\ UNCHANGED <<net, askVars, tcpStatus, arpVars, wild, world>>

WriteDiscover ==
  /\ main = "discover" /\ main' = "offer"
  /\ udpOut' = Append(udpOut, Frame("DISCOVER", 0, 0))
  /\ UNCHANGED <<net, askVars, udpSck, udpIn, tcpStatus, arpVars, wild, world>>

IsOffer(msg) == msg.kind = "OFFER"
IsAckMutant(msg) == msg.kind \in {"ACK", "OFFER"}
IsAck(msg) == msg.kind = "ACK"

(* kread() of the answer to DHCP_DISCOVER and what is taken from it *)
ReadOffer ==
  /\ main = "offer" /\ udpIn # <<>> /\ udpIn' = Popped(udpIn)
  /\ LET msg == Head(udpIn) IN
       IF IsOffer(msg)
         THEN main' = "request" /\ offer' = [ip |-> msg.ip, dhcp |-> msg.from, mask |-> MaskOf[msg.from]]
         ELSE main' = "failed" /\ UNCHANGED offer
  /\ UNCHANGED <<target, connects, intf, askVars, udpSck, udpOut, tcpStatus, arpVars, wild, world>>

WriteRequest ==
  /\ main = "request" /\ main' = "ack"
  /\ udpOut' = Append(udpOut, Frame("REQUEST", offer.ip, offer.dhcp))
  /\ UNCHANGED <<net, askVars, udpSck, udpIn, tcpStatus, arpVars, wild, world>>

(* kread() of the answer to DHCP_REQUEST; only an ACK sets the interface. *)
ReadAck ==
  /\ main = "ack" /\ udpIn # <<>> /\ udpIn' = Popped(udpIn)
  /\ IF IsAck(Head(udpIn))
       THEN main' = "configured" /\ intf' = offer
       ELSE main' = "failed" /\ UNCHANGED intf
  /\ UNCHANGED <<target, connects, offer, askVars, udpSck, udpOut, tcpStatus, arpVars, wild, world>>

-----------------------------------------------------------------------------
(* Main: kconnect() of a TCP socket *)

OnSubnet(ip) == Masked(intf.mask, intf.ip) = Masked(intf.mask, ip)

(* kernel_main() goes on whatever dhcp_client() returned; without an      *)
(* address kconnect() fails.                                              *)
KconnectTcp ==
  /\ \/ main = "failed" /\ main' = "refused"
     \/ main = "configured" /\ main' = IF OnSubnet(target) THEN "lookup" ELSE "syn"
  /\ UNCHANGED <<net, sckVars, arpVars, wild, world>>

(* The first arp_lookup() makes the list and fails: g_arp_list is stored  *)
(* in one step and its head in another.                                   *)
LookupMakesList ==
  /\ main = "lookup" /\ arpList = "none"
  /\ main' = "lookup2" /\ arpList' = "raw"
  /\ UNCHANGED <<net, sckVars, arpHead, rarCount, wild, world>>

LookupListReady ==
  /\ main = "lookup2" /\ main' = "ask" /\ arpList' = "ready" /\ arpHead' = <<>>
  /\ UNCHANGED <<net, sckVars, rarCount, wild, world>>

Lookup ==
  /\ main = "lookup" /\ arpList # "none"
  /\ main' = IF Listed(target) THEN "syn" ELSE "ask"
  /\ WildRead("arp_lookup")
  /\ UNCHANGED <<net, sckVars, arpVars, world>>

AskArpNotMutant ==
  /\ main = "ask" /\ main' = "wait"
  /\ UNCHANGED <<net, sckVars, arpVars, wild, world>>

(* kwrite() to the ARP socket, once *)
AskArp ==
  /\ main = "ask" /\ main' = "wait" /\ arpOut' = Append(arpOut, target)
  /\ UNCHANGED <<net, arpSck, udpVars, tcpStatus, arpVars, wild, world>>

WaitArpMutant ==
  /\ main = "wait" /\ main' = "syn"
  /\ UNCHANGED <<net, sckVars, arpVars, wild, world>>

(* while (arp_lookup(ip_out, NULL) == E_FAIL) sleep(1); *)
WaitArp ==
  /\ main = "wait" /\ Listed(target) /\ main' = "syn"
  /\ UNCHANGED <<net, sckVars, arpVars, wild, world>>

SetSyn ==
  /\ main = "syn" /\ main' = "connecting" /\ tcpStatus' = "S_SYN"
  /\ UNCHANGED <<net, askVars, udpVars, arpVars, wild, world>>

(* Main connects another socket after the handshake of this one. *)
ConnectAgain ==
  /\ main = "connecting" /\ tcpStatus = "S_OPEN" /\ tx \in {"arp", "udp"}
  /\ \E f \in sent : f.kind = "SYN" /\ f.ip = target /\ f.from # 0
  /\ connects < MaxConnects /\ connects' = connects + 1
  /\ target' \in Targets /\ main' = "configured"
  /\ UNCHANGED <<intf, offer, sckVars, arpVars, wild, world>>

-----------------------------------------------------------------------------
(* The networking TX task *)

(* The TX task tests the pointers it follows; the page of a socket or a   *)
(* queue that is not yet written holds zeros, that is, an empty queue.    *)

(* One message of the ARP socket becomes a broadcast ARP request. *)
TxArp ==
  /\ tx = "arp" /\ arpSck = "ready" /\ arpOut # <<>>
  /\ sent' = sent \union {Frame("ARP_REQUEST", Head(arpOut), 0)}
  /\ arpOut' = Popped(arpOut)
  /\ UNCHANGED <<main, net, arpSck, udpVars, tcpStatus, arpVars, wild, tx, rx, outside>>

(* No message, or no socket: on to the sockets of the process *)
TxArpDone ==
  /\ tx = "arp" /\ (arpSck = "ready" => arpOut = <<>>) /\ tx' = "udp"
  /\ UNCHANGED <<main, net, sckVars, arpVars, wild, rx, sent, outside>>

(* One message of the DHCP socket is broadcast: its ip_out is 0. *)
TxUdp ==
  /\ tx = "udp" /\ udpSck = "ready" /\ udpOut # <<>>
  /\ sent' = sent \union {Head(udpOut)}
  /\ udpOut' = Popped(udpOut)
  /\ UNCHANGED <<main, net, askVars, udpSck, udpIn, tcpStatus, arpVars, wild, tx, rx, outside>>

TxUdpDone ==
  /\ tx = "udp" /\ (udpSck = "ready" => udpOut = <<>>)
  /\ IF tcpStatus = "S_SYN"
       THEN tcpStatus' = "S_OPEN" /\ tx' = "resolve"
       ELSE tx' = "arp" /\ UNCHANGED tcpStatus
  /\ UNCHANGED <<main, net, askVars, udpVars, arpVars, wild, rx, sent, outside>>

(* ipv4_req(): the host itself if it is on the subnet of the DHCP server, *)
(* the DHCP server otherwise                                              *)
NextHop(ip) ==
  IF Masked(intf.mask, ip) = Masked(intf.mask, intf.dhcp) THEN ip ELSE intf.dhcp

(* ether_req() looks the next hop up and does not ask whether it was       *)
(* found: if not, the frame goes to what its buffer held, written as 0.    *)
TxSyn ==
  /\ tx = "resolve" /\ arpList # "none"
  /\ sent' = sent \union {Frame("SYN", target, IF Listed(NextHop(target)) THEN NextHop(target) ELSE 0)}
  /\ tx' = "arp" /\ WildRead("arp_lookup")
  /\ UNCHANGED <<main, net, sckVars, arpVars, rx, outside>>

(* Here too the first arp_lookup() makes the list. *)
TxMakesList ==
  /\ tx = "resolve" /\ arpList = "none" /\ tx' = "resolve2" /\ arpList' = "raw"
  /\ UNCHANGED <<main, net, sckVars, arpHead, rarCount, wild, rx, sent, outside>>

TxListReady ==
  /\ tx = "resolve2" /\ tx' = "arp" /\ arpList' = "ready" /\ arpHead' = <<>>
  /\ sent' = sent \union {Frame("SYN", target, 0)}
  /\ UNCHANGED <<main, net, sckVars, rarCount, wild, rx, outside>>

Tx == TxArp \/ TxArpDone \/ TxUdp \/ TxUdpDone \/ TxSyn \/ TxMakesList \/ TxListReady

-----------------------------------------------------------------------------
(* The RX task *)

(* rx_poll finds a frame in the ring: ether_decode() and the decoders     *)
(* below it                                                               *)
RxTake ==
  /\ rx = NoFrame
  /\ \E f \in wire : rx' = f /\ wire' = wire \ {f}
  /\ UNCHANGED <<main, net, sckVars, arpVars, tx, wild, sent, offered, leased, others, replies, lost>>

RxDone == rx' = NoFrame /\ UNCHANGED <<main, net, tx, sent, outside>>

(* networking_rx_sort(), UDP: to the DHCP socket if its queues are there  *)
RxUdp ==
  /\ rx.kind \in {"OFFER", "ACK", "NAK"}
  /\ udpIn' = IF udpSck = "none" THEN udpIn ELSE Append(udpIn, rx)
  /\ RxDone /\ UNCHANGED <<askVars, udpSck, udpOut, tcpStatus, arpVars, wild>>

IsReplyMutant(frame) == TRUE

(* arp_sort() does nothing with a request. *)
IsReply(frame) == frame.kind = "ARP_REPLY"

AlreadyListedMutant(frame) == FALSE

(* A reply of a host that is listed already *)
AlreadyListed(frame) == Listed(frame.ip)

Entry(frame) == [ip |-> frame.ip, eth |-> frame.from]

(* networking_rx_sort(), ARP: arp_sort() lists the sender and tells the   *)
(* device its address.  Nobody else writes the head of a list that is     *)
(* ready.                                                                 *)
RxArp ==
  /\ rx.kind \in {"ARP_REQUEST", "ARP_REPLY"} /\ (IsReply(rx) => arpList = "ready")
  /\ IF IsReply(rx) /\ ~AlreadyListed(rx)
       THEN arpHead' = <<Entry(rx)>> \o arpHead /\ rarCount' = rarCount + 1
       ELSE UNCHANGED <<arpHead, rarCount>>
  /\ RxDone /\ UNCHANGED <<sckVars, arpList, wild>>

(* arp_sort() does not ask whether there is a list.  Without one it walks  *)
(* whatever memory there is from address 0 and may find the sender there,  *)
(* store its entry there and take a register for it, be overtaken by the   *)
(* task that makes the list, or never come to an end; a list whose head is *)
(* not yet written can lose the entry.  No property but NoWildRead and     *)
(* LeaseHeld says anything of what follows.                                *)
RxArpWild ==
  /\ rx.kind \in {"ARP_REQUEST", "ARP_REPLY"} /\ IsReply(rx) /\ arpList # "ready"
  /\ WildRead("arp_sort")
  /\ \/ rx' \in {rx, NoFrame, Hung} /\ UNCHANGED <<arpHead, rarCount>>
     \/ /\ rx' = NoFrame /\ rarCount' = rarCount + 1
        /\ arpHead' = IF arpList = "none" THEN arpHead ELSE <<Entry(rx)>> \o arpHead
  /\ UNCHANGED <<main, net, tx, sent, outside, sckVars, arpList>>

Rx == RxTake \/ RxUdp \/ RxArp \/ RxArpWild

-----------------------------------------------------------------------------
(* The network.  Frames can be lost and overtake each other; a request is  *)
(* answered once by a server, and any number of times by a host.           *)

Deliver(frame) == wire' = wire \union {frame}

kernel == <<main, net, sckVars, arpVars, tx, rx, wild, sent>>

ServerOffers ==
  \E s \in Servers \ offered :
    /\ Frame("DISCOVER", 0, 0) \in sent
    /\ Deliver(Frame("OFFER", OfferOf[s], s)) /\ offered' = offered \union {s}
    /\ UNCHANGED <<kernel, leased, others, replies, lost>>

(* A server leases what it offered and refuses what it did not offer.      *)
ServerAnswersRequest ==
  \E s \in Servers \ leased : \E ip \in {f.ip : f \in sent} :
    /\ Frame("REQUEST", ip, s) \in sent
    /\ leased' = leased \union {s}
    /\ Deliver(Frame(IF ip = OfferOf[s] THEN "ACK" ELSE "NAK", ip, s))
    /\ UNCHANGED <<kernel, offered, others, replies, lost>>

(* The messages of another client reach the device as well: broadcasts,    *)
(* and on a bridge also unicast frames, which the device does not filter.  *)
ServerAnswersOther ==
  /\ Cardinality(others) < MaxOthers
  /\ \E s \in Servers, kind \in {"OFFER", "ACK"} :
       LET frame == Frame(kind, OtherLease, s) IN
         frame \notin others /\ others' = others \union {frame} /\ Deliver(frame)
  /\ UNCHANGED <<kernel, offered, leased, replies, lost>>

HostReplies ==
  \E h \in Hosts :
    /\ Frame("ARP_REQUEST", h, 0) \in sent /\ replies < MaxReplies
    /\ Deliver(Frame("ARP_REPLY", h, h)) /\ replies' = replies + 1
    /\ UNCHANGED <<kernel, offered, leased, others, lost>>

(* An ARP reply the kernel did not ask for: a host announces itself to all, *)
(* or answers another machine, whose frames the device lets through too.   *)
HostAnnounces ==
  /\ Cardinality(others) < MaxOthers
  /\ \E h \in Hosts :
       LET frame == Frame("ARP_REPLY", h, h) IN
         frame \notin others /\ others' = others \union {frame} /\ Deliver(frame)
  /\ UNCHANGED <<kernel, offered, leased, replies, lost>>

(* A server asks whether an address is in use before it offers it.         *)
ServerProbes ==
  /\ Cardinality(others) < MaxOthers
  /\ \E s \in Servers \ offered :
       LET frame == Frame("ARP_REQUEST", OfferOf[s], s) IN
         frame \notin others /\ others' = others \union {frame} /\ Deliver(frame)
  /\ UNCHANGED <<kernel, offered, leased, replies, lost>>

Lose ==
  /\ \E f \in wire : wire' = wire \ {f}
  /\ lost' = TRUE
  /\ UNCHANGED <<kernel, offered, leased, others, replies>>

-----------------------------------------------------------------------------
DhcpClient == KsocketArp \/ KsocketArpReady \/ KconnectUdp \/ KconnectUdpReady
                \/ WriteDiscover \/ ReadOffer \/ WriteRequest \/ ReadAck

Kconnect == KconnectTcp \/ LookupMakesList \/ LookupListReady \/ Lookup
              \/ AskArp \/ WaitArp \/ SetSyn \/ ConnectAgain

Network == ServerOffers \/ ServerAnswersRequest \/ HostReplies
             \/ ServerProbes \/ ServerAnswersOther \/ HostAnnounces

Next == DhcpClient \/ Kconnect \/ Tx \/ Rx \/ Network \/ Lose

Spec == Init /\ [][Next]_vars

(* The scheduler runs every task again and again, every server answers and *)
(* so does the host that is asked for.                                     *)
FairSpec ==
  /\ Spec
  /\ WF_vars(DhcpClient \/ Kconnect) /\ WF_vars(Tx) /\ WF_vars(Rx)
  /\ WF_vars(ServerOffers) /\ WF_vars(ServerAnswersRequest) /\ WF_vars(HostReplies)

-----------------------------------------------------------------------------
(* Properties *)

Kinds == {"DISCOVER", "OFFER", "REQUEST", "ACK", "NAK", "ARP_REQUEST", "ARP_REPLY", "SYN"}
Frames == [kind : Kinds, ip : Nat, from : Nat]

(* The types of the variables; udpOut never holds more than the two         *)
(* requests of dhcp_client(), and arpOut one question for a connection      *)
(* (socket.c:182-203, dhcp_client.c:29-103, networking.c:128-189).          *)
TypeOK ==
  /\ target \in Targets
  /\ {intf, offer} \subseteq [ip : Nat, dhcp : Nat, mask : Nat]
  /\ {arpSck, udpSck, arpList} \subseteq {"none", "raw", "ready"}
  /\ tcpStatus \in {"S_NULL", "S_SYN", "S_OPEN"}
  /\ \A k \in DOMAIN udpIn : udpIn[k] \in Frames
  /\ Len(udpOut) <= 2 /\ Len(arpOut) <= connects
  /\ rx \in Frames \union {NoFrame, Hung} /\ wire \subseteq Frames /\ sent \subseteq Frames
  /\ others \subseteq Frames /\ wild \subseteq {"arp_lookup", "arp_sort"}
  /\ offered \subseteq Servers /\ leased \subseteq Servers

(* When dhcp_client() has set the interface, the server it names holds a    *)
(* lease of exactly that address for this kernel, whichever servers answer  *)
(* and whichever answer comes next, unless the messages of another client   *)
(* came in between, which are not told apart (dhcp_client.c:89-151).        *)
LeaseHeld ==
  intf.ip # 0 /\ (\A f \in others : f.kind \notin {"OFFER", "ACK"}) =>
    /\ intf.dhcp \in leased
    /\ intf.ip = OfferOf[intf.dhcp] /\ intf.mask = MaskOf[intf.dhcp]

(* The SYN goes to the MAC address of its next hop, unless the next hop is  *)
(* a host kconnect() did not resolve: the DHCP server in place of a router, *)
(* because ipv4_req() and kconnect() compare with different addresses, or   *)
(* the target where kconnect() found it off the subnet (socket.c:79-110,    *)
(* ipv4.c:55-63).                                                           *)
SynAddressed ==
  wild = {} =>
    \A f \in sent : f.kind = "SYN" /\ OnSubnet(f.ip) /\ NextHop(f.ip) = f.ip => f.from = f.ip

(* Hosts that answer or announce themselves again and again are listed once *)
(* and take one receive address register each (arp.c:113-133).              *)
OneEntryPerHost ==
  wild = {} =>
    /\ \A k, l \in DOMAIN arpHead : arpHead[k].ip = arpHead[l].ip => k = l
    /\ rarCount <= 1 + Cardinality(Hosts)

(* The hosts that sent an ARP reply the kernel did not ask for              *)
Announced == {h \in Hosts : Frame("ARP_REPLY", h, h) \in others}

(* The ARP list is ready whenever Main or the TX task looks an address up   *)
(* and whenever the RX task sorts the answer to a question of the kernel:   *)
(* the only use of a list that is not written, or of NULL in its place, is  *)
(* by arp_sort() for a reply nobody in the kernel asked for, which nothing  *)
(* in the code prevents (arp.c:53-63, arp.c:115, socket.c:83-101).          *)
NoWildRead == wild \subseteq {"arp_sort"} /\ (wild # {} => Announced # {})

(* When no frame is lost, dhcp_client() returns, and after it kconnect()     *)
(* sends the SYN to whatever target Main connects to: nobody waits for an   *)
(* answer to something that was not asked, or for an ARP entry that does    *)
(* not come (dhcp_client.c:36-105, socket.c:88-128).                        *)
SetupEnds ==
  /\ <>(lost \/ wild # {} \/ main \in {"refused", "connecting"})
  /\ \A ip \in Targets :
       (main = "configured" /\ target = ip) ~>
         lost \/ wild # {} \/ \E f \in sent : f.kind = "SYN" /\ f.ip = ip
=============================================================================
