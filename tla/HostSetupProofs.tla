--------------------------- MODULE HostSetupProofs ---------------------------
(***************************************************************************)
(* Theorems about HostSetup for any DHCP servers, hosts, targets and masks,*)
(* any number of replies, of connections and of frames of other clients,   *)
(* and every order in which frames arrive or are lost.                     *)
(***************************************************************************)
EXTENDS HostSetup, FiniteSetTheorems, TLAPS

-----------------------------------------------------------------------------
(* The inductive invariant.                                                *)

(* Where Main is until dhcp_client() has written its request, and until it *)
(* has set the interface                                                   *)
BeforeRequest ==
  {"ksocket", "ksocket2", "kconnect", "kconnect2", "discover", "offer", "request"}
Unset == BeforeRequest \union {"ack", "failed", "refused"}
Connecting == {"configured", "lookup", "lookup2", "ask", "wait", "syn", "connecting"}

Entries == [ip : Nat, eth : Nat]

Types ==
  /\ TypeOK
  /\ main \in Unset \union Connecting
  /\ tx \in {"arp", "udp", "resolve", "resolve2"}
  /\ udpIn \in Seq(Frames) /\ udpOut \in Seq(Frames) /\ arpOut \in Seq(Nat)
  /\ arpHead \in Seq(Entries) /\ rarCount \in Nat /\ connects \in Nat

(* The frames that were sent to the kernel and that it has not used up     *)
InFlight == wire \union {rx} \union {udpIn[k] : k \in DOMAIN udpIn}

Request(ip) == Frame("ARP_REQUEST", ip, 0)

(* Answers come from servers, ARP replies from hosts, and what they answer *)
(* was asked unless they are among the frames nobody asked for.            *)
ReplyOK(f) ==
  f.from = f.ip /\ f.ip \in Hosts /\ (Request(f.ip) \in sent \/ f.ip \in Announced)

FramesOK ==
  \A f \in InFlight :
    /\ f.kind \in {"OFFER", "ACK", "NAK"} => f.from \in Servers
    /\ f.kind = "ARP_REPLY" => ReplyOK(f)

(* Nothing that a server sent to another client has reached the kernel.    *)
Quiet == \A f \in others : f.kind \notin {"OFFER", "ACK"}

(* An ACK answers a request of the kernel.                                 *)
AnswersOK ==
  Quiet => \A f \in InFlight :
    /\ f.kind = "OFFER" => f.ip = OfferOf[f.from]
    /\ f.kind = "ACK" => /\ f.from \in leased /\ f.ip = OfferOf[f.from]
                         /\ Frame("REQUEST", f.ip, f.from) \in sent

(* There is one request, for what was offered.                             *)
IsTheRequest(f) == f = Frame("REQUEST", offer.ip, offer.dhcp) /\ main \notin BeforeRequest

OfferOK ==
  /\ offer # NoLease =>
       /\ offer.dhcp \in Servers /\ offer.mask = MaskOf[offer.dhcp]
       /\ Quiet => offer.ip = OfferOf[offer.dhcp]
  /\ \A f \in sent : f.kind = "REQUEST" => IsTheRequest(f)
  /\ \A k \in DOMAIN udpOut :
       /\ udpOut[k].kind \in {"DISCOVER", "REQUEST"}
       /\ udpOut[k].kind = "REQUEST" => IsTheRequest(udpOut[k])

QueueOK ==
  /\ main \in {"ksocket", "ksocket2", "kconnect", "kconnect2", "discover"} => udpOut = <<>>
  /\ main \in {"offer", "request"} => Len(udpOut) <= 1

(* The interface is set last.                                              *)
LeaseOK == (main \in Unset => intf = NoLease) /\ LeaseHeld

(* There are no entries without a list, and it is made by one task before   *)
(* anything is asked for.                                                  *)
ListOK ==
  /\ arpList = "none" => arpHead = <<>>
  /\ arpList = "raw" <=> main = "lookup2" \/ tx = "resolve2"
  /\ main \in {"ask", "wait"} => arpList = "ready"

(* Where Main can still ask for the target of this connection              *)
MayAsk == Unset \union {"configured", "lookup", "lookup2", "ask"}

AskedOK ==
  /\ (\E f \in sent : f.kind = "ARP_REQUEST") \/ arpOut # <<>> => arpList = "ready"
  /\ main \in MayAsk => Len(arpOut) + 1 <= connects

(* Entries are of hosts, one for each, and each has taken a register.      *)
EntriesOK ==
  wild = {} =>
    /\ \A k \in DOMAIN arpHead : arpHead[k].ip \in Hosts /\ arpHead[k].eth = arpHead[k].ip
    /\ \A k, l \in DOMAIN arpHead : arpHead[k].ip = arpHead[l].ip => k = l
    /\ rarCount = 1 + Len(arpHead) /\ (arpList # "ready" => arpHead = <<>>)

(* The TX task resolves an address only when Main has found it on the list *)
(* or off the subnet.                                                      *)
ResolvedOK ==
  \A f \in sent : f.kind = "SYN" /\ OnSubnet(f.ip) /\ NextHop(f.ip) = f.ip => f.from = f.ip

SynOK ==
  /\ tcpStatus = "S_SYN" \/ tx \in {"resolve", "resolve2"} => main = "connecting"
  /\ main \in {"syn", "connecting"} /\ OnSubnet(target) => Listed(target)
  /\ tx = "resolve2" => ~OnSubnet(target)
  /\ \A f \in sent : f.kind = "SYN" => main \notin Unset
  /\ ResolvedOK

IInv ==
  /\ Types /\ FramesOK /\ AnswersOK /\ OfferOK /\ QueueOK /\ LeaseOK
  /\ ListOK /\ AskedOK /\ EntriesOK /\ SynOK /\ NoWildRead

-----------------------------------------------------------------------------
(* What a step keeps when it leaves the variables of a part alone.         *)

LEMMA AnswersKept ==
  ASSUME FramesOK, AnswersOK, InFlight' \subseteq InFlight, sent \subseteq sent',
         leased' = leased, others' = others
  PROVE  FramesOK' /\ AnswersOK'
  BY DEF FramesOK, ReplyOK, Announced, AnswersOK, Quiet

\* A step that reads no unwritten list
LEMMA WildKept ==
  ASSUME NoWildRead, wild' = wild, others \subseteq others'
  PROVE  NoWildRead'
  BY DEF NoWildRead, Announced

LEMMA RequestKept ==
  ASSUME OfferOK, LeaseOK, UNCHANGED <<offer, others, sent, udpOut, intf, leased>>,
         main' \in BeforeRequest => main \in BeforeRequest,
         main' \in Unset => main \in Unset
  PROVE  OfferOK' /\ LeaseOK'
  BY DEF OfferOK, IsTheRequest, Quiet, LeaseOK, LeaseHeld

Asking == {"lookup2", "ask", "wait"}

LEMMA ArpKept ==
  ASSUME ListOK, AskedOK, EntriesOK,
         UNCHANGED <<arpList, arpHead, rarCount, connects, arpOut, wild>>,
         \A f \in sent' : f.kind = "ARP_REQUEST" => f \in sent,
         tx' = "resolve2" <=> tx = "resolve2",
         main' = main \/ {main, main'} \cap Asking = {},
         main' \in MayAsk => main \in MayAsk
  PROVE  ListOK' /\ AskedOK' /\ EntriesOK'
<1>1. ListOK' /\ EntriesOK'
  BY DEF ListOK, EntriesOK, Asking
<1>2. AskedOK'
  BY DEF AskedOK
<1> QED
  BY <1>1, <1>2

LEMMA SynKept ==
  ASSUME SynOK, UNCHANGED <<target, intf, tcpStatus>>,
         tx' \in {"resolve", "resolve2"} => tx' = tx,
         \A f \in sent' : f.kind = "SYN" => f \in sent,
         \A ip \in Nat : Listed(ip) => Listed(ip)', target \in Nat,
         main' \in Unset => main \in Unset,
         main' \in {"syn", "connecting"} => main \in {"syn", "connecting"},
         main = "connecting" => main' = "connecting"
  PROVE  SynOK'
  BY DEF SynOK, ResolvedOK, OnSubnet, NextHop

LEMMA InitInv == Init => IInv
<1> SUFFICES ASSUME Init PROVE IInv
  OBVIOUS
<1>1. Types
  <2>1. NoLease \in [ip : Nat, dhcp : Nat, mask : Nat]
    BY DEF NoLease
  <2>2. TypeOK
    <3>1. Len(<<>>) = 0 /\ DOMAIN <<>> = {}
      OBVIOUS
    <3>2. /\ target \in Targets /\ intf = NoLease /\ offer = NoLease /\ rx = NoFrame
          /\ arpSck = "none" /\ udpSck = "none" /\ arpList = "none" /\ tcpStatus = "S_NULL"
          /\ udpIn = <<>> /\ udpOut = <<>> /\ arpOut = <<>> /\ wild = {} /\ connects = 1
          /\ wire = {} /\ sent = {} /\ others = {} /\ offered = {} /\ leased = {}
      BY DEF Init
    <3>3. /\ {intf, offer} \subseteq [ip : Nat, dhcp : Nat, mask : Nat]
          /\ {arpSck, udpSck, arpList} \subseteq {"none", "raw", "ready"}
      BY <2>1, <3>2
    <3>4. Len(udpOut) <= 2 /\ Len(arpOut) <= 1 /\ \A k \in DOMAIN udpIn : udpIn[k] \in Frames
      BY <3>1, <3>2
    <3> QED
      BY <3>2, <3>3, <3>4 DEF TypeOK
  <2> QED
    BY <2>2 DEF Init, Types, Unset, BeforeRequest
<1>2. FramesOK /\ AnswersOK
  BY DEF Init, FramesOK, AnswersOK, InFlight, NoFrame, Frame
<1>3. OfferOK /\ QueueOK /\ LeaseOK
  BY DEF Init, OfferOK, QueueOK, LeaseOK, LeaseHeld, NoLease
<1>4. ListOK /\ AskedOK /\ EntriesOK
  <2>1. DOMAIN <<>> = {} /\ Len(<<>>) = 0
    OBVIOUS
  <2>2. /\ main = "ksocket" /\ arpList = "none" /\ arpHead = <<>> /\ arpOut = <<>> /\ sent = {}
        /\ rarCount = 1 /\ connects = 1 /\ tx = "arp"
    BY DEF Init
  <2> QED
    BY <2>1, <2>2 DEF ListOK, AskedOK, EntriesOK
<1>5. SynOK /\ NoWildRead
  BY DEF Init, SynOK, ResolvedOK, NoWildRead
<1> QED
  BY <1>1, <1>2, <1>3, <1>4, <1>5 DEF IInv

-----------------------------------------------------------------------------
(* Main in dhcp_client()                                                   *)

LEMMA QueueTypes ==
  ASSUME Types
  PROVE  /\ udpIn # <<>> => /\ Head(udpIn) \in Frames /\ Head(udpIn) \in InFlight
                            /\ Tail(udpIn) \in Seq(Frames)
                            /\ \A k \in DOMAIN Tail(udpIn) : Tail(udpIn)[k] \in InFlight
         /\ udpOut # <<>> => /\ Head(udpOut) \in Frames
                             /\ \E k \in DOMAIN udpOut : Head(udpOut) = udpOut[k]
                             /\ Tail(udpOut) \in Seq(Frames)
                             /\ Len(Tail(udpOut)) = Len(udpOut) - 1
                             /\ \A k \in DOMAIN Tail(udpOut) :
                                  \E l \in DOMAIN udpOut : Tail(udpOut)[k] = udpOut[l]
         /\ Len(udpOut) \in Nat /\ Len(udpIn) \in Nat /\ Len(arpOut) \in Nat
<1>1. udpIn \in Seq(Frames) /\ udpOut \in Seq(Frames) /\ arpOut \in Seq(Nat)
  BY DEF Types
<1>2. ASSUME udpIn # <<>>
      PROVE  /\ Head(udpIn) \in Frames /\ Head(udpIn) \in InFlight
             /\ Tail(udpIn) \in Seq(Frames)
             /\ \A k \in DOMAIN Tail(udpIn) : Tail(udpIn)[k] \in InFlight
  <2>1. /\ 1 \in DOMAIN udpIn /\ Head(udpIn) = udpIn[1] /\ Tail(udpIn) \in Seq(Frames)
        /\ \A k \in DOMAIN Tail(udpIn) : k + 1 \in DOMAIN udpIn /\ Tail(udpIn)[k] = udpIn[k + 1]
    BY <1>1, <1>2
  <2> QED
    BY <1>1, <2>1 DEF InFlight
<1>3. ASSUME udpOut # <<>>
      PROVE  /\ Head(udpOut) \in Frames
             /\ \E k \in DOMAIN udpOut : Head(udpOut) = udpOut[k]
             /\ Tail(udpOut) \in Seq(Frames)
             /\ Len(Tail(udpOut)) = Len(udpOut) - 1
             /\ \A k \in DOMAIN Tail(udpOut) :
                  \E l \in DOMAIN udpOut : Tail(udpOut)[k] = udpOut[l]
  <2>1. /\ 1 \in DOMAIN udpOut /\ Head(udpOut) = udpOut[1] /\ Tail(udpOut) \in Seq(Frames)
        /\ Len(Tail(udpOut)) = Len(udpOut) - 1
        /\ \A k \in DOMAIN Tail(udpOut) :
              k + 1 \in DOMAIN udpOut /\ Tail(udpOut)[k] = udpOut[k + 1]
    BY <1>1, <1>3
  <2> QED
    BY <1>1, <2>1
<1> QED
  BY <1>1, <1>2, <1>3

\* Appending one message to the queue of the DHCP socket.
LEMMA Written ==
  ASSUME Types, NEW f \in Frames, udpOut' = Append(udpOut, f)
  PROVE  /\ udpOut' \in Seq(Frames) /\ Len(udpOut') = Len(udpOut) + 1
         /\ \A k \in DOMAIN udpOut' : udpOut'[k] = f \/ \E l \in DOMAIN udpOut : udpOut'[k] = udpOut[l]
<1>1. udpOut \in Seq(Frames)
  BY DEF Types
<1>2. \A k \in DOMAIN udpOut' :
        udpOut'[k] = f \/ (k \in DOMAIN udpOut /\ udpOut'[k] = udpOut[k])
  BY <1>1
<1> QED
  BY <1>1, <1>2

LEMMA DhcpOthersKept ==
  ASSUME IInv, DhcpClient
  PROVE  /\ FramesOK' /\ AnswersOK' /\ ListOK' /\ AskedOK' /\ EntriesOK' /\ SynOK' /\ wild' = wild
         /\ UNCHANGED <<target, connects, tcpStatus, arpVars, wild, world>>
         /\ main \in BeforeRequest \union {"ack"} /\ main' \in Unset \union {"configured"}
         /\ arpOut' \in {arpOut, <<>>}
<1>1. /\ UNCHANGED <<target, connects, tcpStatus, arpVars, wild, world>>
      /\ main \in BeforeRequest \union {"ack"} /\ main' \in Unset \union {"configured"}
      /\ udpIn' \in {udpIn, <<>>} \/ (udpIn # <<>> /\ udpIn' = Tail(udpIn))
      /\ arpOut' \in {arpOut, <<>>}
  BY DEF DhcpClient, KsocketArp, KsocketArpReady, KconnectUdp, KconnectUdpReady, WriteDiscover,
     ReadOffer, WriteRequest, ReadAck, Popped, net, askVars, udpVars, BeforeRequest, Unset
<1>2. Types /\ FramesOK /\ AnswersOK /\ ListOK /\ AskedOK /\ EntriesOK /\ SynOK /\ NoWildRead
  BY DEF IInv
<1>3. UNCHANGED <<tx, rx, sent, wire, leased, others, arpList, arpHead>>
  BY <1>1 DEF world, outside, arpVars
<1>4. {main, main'} \cap (Asking \union {"syn", "connecting", "wait"}) = {}
  BY <1>1 DEF Unset, BeforeRequest, Asking
<1>5. Len(arpOut') <= Len(arpOut) /\ Len(arpOut') \in Nat /\ Len(arpOut) \in Nat
  <2>1. Len(arpOut) \in Nat /\ Len(<<>>) = 0
    BY <1>2 DEF Types
  <2> QED
    BY <1>1, <2>1
<1>6. InFlight' \subseteq InFlight
  <2>1. CASE udpIn' = udpIn
    BY <1>3, <2>1 DEF InFlight
  <2>2. CASE udpIn' = <<>>
    BY <1>3, <2>2 DEF InFlight
  <2>3. CASE udpIn # <<>> /\ udpIn' = Tail(udpIn)
    BY <1>2, <1>3, <2>3, QueueTypes DEF InFlight
  <2> QED
    BY <1>1, <2>1, <2>2, <2>3
<1>7. FramesOK' /\ AnswersOK'
  BY <1>2, <1>3, <1>6, AnswersKept
<1>8. ListOK' /\ AskedOK' /\ EntriesOK'
  <2>1. ListOK' /\ EntriesOK'
    BY <1>1, <1>2, <1>3, <1>4 DEF ListOK, EntriesOK, arpVars, Asking
  <2>2. main \in MayAsk
    BY <1>1 DEF MayAsk, Unset
  <2>3. AskedOK'
    BY <1>1, <1>2, <1>3, <1>5, <2>2 DEF AskedOK, Types
  <2> QED
    BY <2>1, <2>3
<1>9. SynOK'
  <2>1. main \in Unset
    BY <1>1 DEF Unset
  <2>2. \A f \in sent : f.kind # "SYN"
    BY <1>2, <2>1 DEF SynOK
  <2> QED
    BY <1>1, <1>2, <1>3, <1>4, <2>2 DEF SynOK, ResolvedOK
<1> QED
  BY <1>1, <1>2, <1>7, <1>8, <1>9

LEMMA DhcpClientStep ==
  ASSUME IInv, DhcpClient
  PROVE  IInv'
<1>1. /\ FramesOK' /\ AnswersOK' /\ ListOK' /\ AskedOK' /\ EntriesOK' /\ SynOK' /\ wild' = wild
      /\ UNCHANGED <<target, connects, tcpStatus, arpVars, wild, world>>
      /\ main \in BeforeRequest \union {"ack"} /\ main' \in Unset \union {"configured"}
      /\ arpOut' \in {arpOut, <<>>}
  BY DhcpOthersKept
<1>2. Types /\ FramesOK /\ AnswersOK /\ OfferOK /\ QueueOK /\ LeaseOK /\ TypeOK
  BY DEF IInv, Types
<1>3. UNCHANGED <<tx, rx, sent, wire, offered, leased, others, arpList, arpHead, rarCount>>
  BY <1>1 DEF world, outside, arpVars
<1>4. /\ main' \in Unset \union Connecting
      /\ arpOut' \in Seq(Nat) /\ Len(arpOut') <= connects
  <2>1. <<>> \in Seq(Nat) /\ Len(<<>>) = 0
    OBVIOUS
  <2>2. arpOut \in Seq(Nat) /\ Len(arpOut) <= connects /\ connects \in Nat
    BY <1>2 DEF Types, TypeOK
  <2>3. arpOut' \in Seq(Nat) /\ Len(arpOut') <= connects
    <3>1. CASE arpOut' = arpOut
      BY <2>2, <3>1
    <3>2. CASE arpOut' = <<>>
      <4>1. 0 <= connects
        BY <2>2
      <4> QED
        BY <2>1, <3>2, <4>1
    <3> QED
      BY <1>1, <3>1, <3>2
  <2> QED
    BY <1>1, <2>3 DEF Connecting
<1>5. ASSUME KsocketArp \/ KsocketArpReady \/ KconnectUdp
      PROVE  Types' /\ OfferOK' /\ QueueOK' /\ LeaseOK'
  <2>1. /\ UNCHANGED <<intf, offer, udpIn, udpOut>>
        /\ arpSck' \in {arpSck, "raw", "ready"} /\ udpSck' \in {udpSck, "raw"}
        /\ main \in {"ksocket", "ksocket2", "kconnect"}
        /\ main' \in {"ksocket2", "kconnect", "kconnect2"}
    BY <1>5 DEF KsocketArp, KsocketArpReady, KconnectUdp, net, udpVars, askVars
  <2>2. Types'
    BY <1>1, <1>2, <1>3, <1>4, <2>1 DEF Types, TypeOK
  <2>3. OfferOK' /\ LeaseOK'
    BY <1>2, <1>3, <2>1, RequestKept DEF BeforeRequest, Unset
  <2> QED
    BY <1>2, <2>1, <2>2, <2>3 DEF QueueOK
<1>6. ASSUME KconnectUdpReady
      PROVE  Types' /\ OfferOK' /\ QueueOK' /\ LeaseOK'
  <2>1. /\ UNCHANGED <<intf, offer, arpSck>> /\ udpIn' = <<>> /\ udpOut' = <<>>
        /\ udpSck' = "ready" /\ main = "kconnect2" /\ main' = "discover"
    BY <1>6 DEF KconnectUdpReady, net, askVars
  <2>2. udpOut = <<>>
    BY <1>2, <2>1 DEF QueueOK
  <2>3. Types'
    BY <1>1, <1>2, <1>3, <1>4, <2>1 DEF Types, TypeOK
  <2>4. OfferOK' /\ LeaseOK'
    BY <1>2, <1>3, <2>1, <2>2, RequestKept DEF BeforeRequest, Unset
  <2> QED
    BY <2>1, <2>3, <2>4 DEF QueueOK
<1>7. ASSUME WriteDiscover
      PROVE  Types' /\ OfferOK' /\ QueueOK' /\ LeaseOK'
  <2> DEFINE f == Frame("DISCOVER", 0, 0)
  <2>1. /\ UNCHANGED <<intf, offer, arpSck, udpSck, udpIn>>
        /\ udpOut' = Append(udpOut, f) /\ main = "discover" /\ main' = "offer"
    BY <1>7 DEF WriteDiscover, net, askVars
  <2>2. f \in Frames /\ f.kind = "DISCOVER"
    BY DEF Frame, Frames, Kinds
  <2>3. /\ udpOut' \in Seq(Frames) /\ Len(udpOut') = 1
        /\ \A k \in DOMAIN udpOut' : udpOut'[k] = f
    BY <1>2, <2>1, <2>2, Written DEF QueueOK
  <2>4. Types'
    BY <1>1, <1>2, <1>3, <1>4, <2>1, <2>3 DEF Types, TypeOK
  <2>5. OfferOK'
    BY <1>2, <1>3, <2>1, <2>2, <2>3 DEF OfferOK, IsTheRequest, Quiet, BeforeRequest
  <2>6. LeaseOK'
    BY <1>2, <1>3, <2>1 DEF LeaseOK, LeaseHeld, Unset, BeforeRequest
  <2> QED
    BY <2>1, <2>3, <2>4, <2>5, <2>6 DEF QueueOK
<1>8. ASSUME ReadOffer
      PROVE  Types' /\ OfferOK' /\ QueueOK' /\ LeaseOK'
  <2> DEFINE msg == Head(udpIn)
  <2>1. /\ UNCHANGED <<intf, arpSck, udpSck, udpOut>> /\ udpIn' = Tail(udpIn) /\ udpIn # <<>>
        /\ main = "offer"
        /\ \/ /\ IsOffer(msg) /\ main' = "request"
              /\ offer' = [ip |-> msg.ip, dhcp |-> msg.from, mask |-> MaskOf[msg.from]]
           \/ main' = "failed" /\ offer' = offer
    BY <1>8 DEF ReadOffer, askVars, Popped
  <2>2. msg \in Frames /\ msg \in InFlight /\ udpIn' \in Seq(Frames)
    BY <1>2, <2>1, QueueTypes
  <2>3. \A k \in DOMAIN udpIn' : udpIn'[k] \in Frames
    BY <2>2
  <2>4. CASE IsOffer(msg) /\ main' = "request"
             /\ offer' = [ip |-> msg.ip, dhcp |-> msg.from, mask |-> MaskOf[msg.from]]
    <3>1. msg.from \in Servers /\ msg.ip \in Nat /\ (Quiet => msg.ip = OfferOf[msg.from])
      BY <1>2, <2>2, <2>4 DEF IsOffer, FramesOK, AnswersOK, Frames
    <3>2. msg.from \in Nat /\ MaskOf[msg.from] \in Nat
      BY <3>1, SetupAssumption
    <3>3. Types'
      <4>1. offer' \in [ip : Nat, dhcp : Nat, mask : Nat]
        BY <2>4, <3>1, <3>2
      <4> QED
        BY <1>1, <1>2, <1>3, <1>4, <2>1, <2>2, <2>3, <4>1 DEF Types, TypeOK
    <3>4. /\ \A f \in sent : f.kind # "REQUEST"
          /\ \A k \in DOMAIN udpOut : udpOut[k].kind = "DISCOVER"
      BY <1>2, <2>1 DEF OfferOK, IsTheRequest, BeforeRequest
    <3>5. OfferOK'
      BY <1>3, <2>1, <2>4, <3>1, <3>4 DEF OfferOK, Quiet
    <3>6. LeaseOK'
      BY <1>2, <1>3, <2>1, <2>4 DEF LeaseOK, LeaseHeld, Unset, BeforeRequest
    <3> QED
      BY <1>2, <2>1, <2>4, <3>3, <3>5, <3>6 DEF QueueOK
  <2>5. CASE main' = "failed" /\ offer' = offer
    <3>1. Types'
      BY <1>1, <1>2, <1>3, <1>4, <2>1, <2>2, <2>3, <2>5 DEF Types, TypeOK
    <3>2. OfferOK' /\ LeaseOK'
      BY <1>2, <1>3, <2>1, <2>5, RequestKept DEF BeforeRequest, Unset
    <3> QED
      BY <2>5, <3>1, <3>2 DEF QueueOK
  <2> QED
    BY <2>1, <2>4, <2>5
<1>9. ASSUME WriteRequest
      PROVE  Types' /\ OfferOK' /\ QueueOK' /\ LeaseOK'
  <2> DEFINE f == Frame("REQUEST", offer.ip, offer.dhcp)
  <2>1. /\ UNCHANGED <<intf, offer, arpSck, udpSck, udpIn>>
        /\ udpOut' = Append(udpOut, f) /\ main = "request" /\ main' = "ack"
    BY <1>9 DEF WriteRequest, net, askVars
  <2>2. f \in Frames
    BY <1>2 DEF Frame, Frames, Kinds, TypeOK
  <2>3. /\ udpOut' \in Seq(Frames) /\ Len(udpOut') <= 2
        /\ \A k \in DOMAIN udpOut' :
              udpOut'[k] = f \/ \E l \in DOMAIN udpOut : udpOut'[k] = udpOut[l]
    BY <1>2, <2>1, <2>2, Written, QueueTypes DEF QueueOK
  <2>4. Types'
    BY <1>1, <1>2, <1>3, <1>4, <2>1, <2>3 DEF Types, TypeOK
  <2>5. OfferOK'
    <3>1. f.kind = "REQUEST" /\ main' \notin BeforeRequest
      BY <2>1 DEF Frame, BeforeRequest
    <3>2. \A k \in DOMAIN udpOut : /\ udpOut[k].kind \in {"DISCOVER", "REQUEST"}
                                   /\ udpOut[k].kind = "REQUEST" => udpOut[k] = f
      BY <1>2 DEF OfferOK, IsTheRequest
    <3>3. \A g \in sent : g.kind = "REQUEST" => g = f
      BY <1>2 DEF OfferOK, IsTheRequest
    <3>4. offer' # NoLease => /\ offer'.dhcp \in Servers /\ offer'.mask = MaskOf[offer'.dhcp]
                              /\ Quiet' => offer'.ip = OfferOf[offer'.dhcp]
      BY <1>2, <1>3, <2>1 DEF OfferOK, Quiet
    <3>5. f = Frame("REQUEST", offer'.ip, offer'.dhcp) /\ sent' = sent
      BY <1>3, <2>1
    <3> HIDE DEF f
    <3>6. \A k \in DOMAIN udpOut' : /\ udpOut'[k].kind \in {"DISCOVER", "REQUEST"}
                                    /\ udpOut'[k].kind = "REQUEST" => udpOut'[k] = f
      BY <2>3, <3>1, <3>2
    <3> QED
      BY <3>1, <3>3, <3>4, <3>5, <3>6 DEF OfferOK, IsTheRequest
  <2>6. LeaseOK'
    BY <1>2, <1>3, <2>1 DEF LeaseOK, LeaseHeld, Unset, BeforeRequest
  <2> QED
    BY <2>1, <2>4, <2>5, <2>6 DEF QueueOK
<1>10. ASSUME ReadAck
      PROVE  Types' /\ OfferOK' /\ QueueOK' /\ LeaseOK'
  <2> DEFINE msg == Head(udpIn)
  <2>1. /\ UNCHANGED <<offer, arpSck, udpSck, udpOut>> /\ udpIn' = Tail(udpIn) /\ udpIn # <<>>
        /\ main = "ack"
        /\ \/ IsAck(msg) /\ main' = "configured" /\ intf' = offer
           \/ main' = "failed" /\ intf' = intf
    BY <1>10 DEF ReadAck, askVars, Popped
  <2>2. msg \in Frames /\ msg \in InFlight /\ udpIn' \in Seq(Frames)
    BY <1>2, <2>1, QueueTypes
  <2>3. \A k \in DOMAIN udpIn' : udpIn'[k] \in Frames
    BY <2>2
  <2>4. Types'
    BY <1>1, <1>2, <1>3, <1>4, <2>1, <2>2, <2>3 DEF Types, TypeOK
  <2>5. OfferOK'
    BY <1>2, <1>3, <2>1 DEF OfferOK, IsTheRequest, Quiet, BeforeRequest
  <2>6. QueueOK'
    BY <2>1 DEF QueueOK
  <2>7. LeaseOK'
    <3>1. CASE IsAck(msg) /\ main' = "configured" /\ intf' = offer
      <4> SUFFICES ASSUME Quiet
                   PROVE  /\ offer.dhcp \in leased
                          /\ offer.ip = OfferOf[offer.dhcp] /\ offer.mask = MaskOf[offer.dhcp]
        BY <1>3, <3>1 DEF LeaseOK, LeaseHeld, Quiet, Unset, BeforeRequest
      <4>1. /\ msg.from \in leased /\ msg.ip = OfferOf[msg.from]
            /\ Frame("REQUEST", msg.ip, msg.from) \in sent
        BY <1>2, <2>2, <3>1 DEF IsAck, AnswersOK
      <4>2. offer.ip = msg.ip /\ offer.dhcp = msg.from
        BY <1>2, <4>1 DEF OfferOK, IsTheRequest, Frame
      <4>3. offer # NoLease
        BY <1>2, <4>1, <4>2, SetupAssumption DEF NoLease, TypeOK
      <4> QED
        BY <1>2, <4>1, <4>2, <4>3 DEF OfferOK
    <3>2. CASE main' = "failed" /\ intf' = intf
      BY <1>2, <1>3, <2>1, <3>2 DEF LeaseOK, LeaseHeld, Unset, BeforeRequest
    <3> QED
      BY <2>1, <3>1, <3>2
  <2> QED
    BY <2>4, <2>5, <2>6, <2>7
<1>11. Types' /\ OfferOK' /\ QueueOK' /\ LeaseOK'
  BY <1>5, <1>6, <1>7, <1>8, <1>9, <1>10 DEF DhcpClient
<1>12. NoWildRead'
  BY <1>1, <1>3, WildKept DEF IInv
<1> QED
  BY <1>1, <1>11, <1>12 DEF IInv

-----------------------------------------------------------------------------
(* Main in kconnect()                                                      *)

LEMMA KconnectOthersKept ==
  ASSUME IInv, Kconnect
  PROVE  /\ FramesOK' /\ AnswersOK' /\ OfferOK' /\ QueueOK' /\ LeaseOK'
         /\ UNCHANGED <<intf, offer, arpSck, udpVars, rarCount, world>>
         /\ main \in Connecting \union {"failed"} /\ main' \in Connecting \union {"refused"}
<1>1. /\ UNCHANGED <<intf, offer, arpSck, udpVars, rarCount, world>>
      /\ main \in Connecting \union {"failed"}
      /\ main' \in Connecting \/ (main = "failed" /\ main' = "refused")
  BY DEF Kconnect, KconnectTcp, LookupMakesList, LookupListReady, Lookup, AskArp, WaitArp, SetSyn,
     ConnectAgain, net, sckVars, askVars, arpVars, Connecting
<1>2. UNCHANGED <<tx, rx, sent, wire, leased, others, udpIn, udpOut>>
  BY <1>1 DEF world, outside, udpVars
<1>3. FramesOK' /\ AnswersOK'
  BY <1>2, AnswersKept DEF IInv, InFlight
<1>4. main' \notin BeforeRequest /\ (main' \in Unset => main \in Unset)
  BY <1>1 DEF BeforeRequest, Unset, Connecting
<1>5. OfferOK' /\ LeaseOK'
  BY <1>1, <1>2, <1>4, RequestKept DEF IInv
<1>6. QueueOK'
  BY <1>4 DEF QueueOK, BeforeRequest
<1> QED
  BY <1>1, <1>3, <1>5, <1>6

LEMMA KconnectStep ==
  ASSUME IInv, Kconnect
  PROVE  IInv'
<1>1. /\ FramesOK' /\ AnswersOK' /\ OfferOK' /\ QueueOK' /\ LeaseOK'
      /\ UNCHANGED <<intf, offer, arpSck, udpVars, rarCount, world>>
      /\ main \in Connecting \union {"failed"} /\ main' \in Connecting \union {"refused"}
  BY KconnectOthersKept
<1>2. Types /\ TypeOK /\ ListOK /\ AskedOK /\ EntriesOK /\ SynOK /\ NoWildRead
  BY DEF IInv, Types
<1>3. UNCHANGED <<tx, rx, sent, wire, offered, leased, others, udpSck, udpIn, udpOut>>
  BY <1>1 DEF world, outside, udpVars
<1>4. main' \in Unset \union Connecting
  BY <1>1 DEF Unset
<1>5. /\ target \in Nat /\ Len(arpOut) \in Nat /\ connects \in Nat
      /\ rarCount \in Nat /\ rarCount' = rarCount
  BY <1>1, <1>2, SetupAssumption DEF Types, TypeOK
<1>6. ASSUME KconnectTcp
      PROVE  Types' /\ ListOK' /\ AskedOK' /\ EntriesOK' /\ SynOK' /\ wild' = wild
  <2>1. /\ main \in {"failed", "configured"} /\ main' \in {"refused", "lookup", "syn"}
        /\ main' = "refused" => main = "failed"
        /\ main' = "syn" => ~OnSubnet(target)
        /\ UNCHANGED <<target, connects, arpList, arpHead, arpOut, tcpStatus, wild>>
    BY <1>6 DEF KconnectTcp, net, sckVars, askVars, arpVars
  <2>2. Types'
    BY <1>1, <1>2, <1>3, <1>4, <2>1 DEF Types, TypeOK
  <2>3. ListOK' /\ AskedOK' /\ EntriesOK'
    BY <1>2, <1>3, <1>5, <2>1, ArpKept DEF Asking, MayAsk, Unset
  <2>4. SynOK'
    BY <1>1, <1>2, <1>3, <2>1 DEF SynOK, ResolvedOK, OnSubnet, NextHop, Unset, BeforeRequest
  <2> QED
    BY <1>2, <2>1, <2>2, <2>3, <2>4
<1>7. ASSUME LookupMakesList
      PROVE  Types' /\ ListOK' /\ AskedOK' /\ EntriesOK' /\ SynOK' /\ wild' = wild
  <2>1. /\ main = "lookup" /\ main' = "lookup2" /\ arpList = "none" /\ arpList' = "raw"
        /\ UNCHANGED <<target, connects, arpHead, arpOut, tcpStatus, wild>>
    BY <1>7 DEF LookupMakesList, net, sckVars, askVars
  <2>2. Types'
    BY <1>1, <1>2, <1>3, <1>4, <2>1 DEF Types, TypeOK
  <2>3. ListOK' /\ EntriesOK'
    BY <1>2, <1>3, <1>5, <2>1 DEF ListOK, EntriesOK
  <2>4. AskedOK'
    BY <1>2, <1>3, <2>1 DEF AskedOK, MayAsk
  <2>5. SynOK'
    BY <1>2, <1>3, <1>5, <1>1, <2>1, SynKept DEF Listed, Unset, BeforeRequest
  <2> QED
    BY <1>2, <2>1, <2>2, <2>3, <2>4, <2>5
<1>8. ASSUME LookupListReady
      PROVE  Types' /\ ListOK' /\ AskedOK' /\ EntriesOK' /\ SynOK' /\ wild' = wild
  <2>1. /\ main = "lookup2" /\ main' = "ask" /\ arpList' = "ready" /\ arpHead' = <<>>
        /\ UNCHANGED <<target, connects, arpOut, tcpStatus, wild>>
    BY <1>8 DEF LookupListReady, net, sckVars, askVars
  <2>2. arpList = "raw" /\ tx # "resolve2"
    BY <1>2, <2>1 DEF ListOK, SynOK
  <2>3. Types'
    BY <1>1, <1>2, <1>3, <1>4, <2>1 DEF Types, TypeOK
  <2>4. ListOK'
    BY <1>2, <1>3, <2>1, <2>2 DEF ListOK
  <2>5. EntriesOK'
    BY <1>2, <1>5, <2>1, <2>2 DEF EntriesOK
  <2>6. AskedOK'
    BY <1>2, <1>3, <2>1 DEF AskedOK, MayAsk
  <2>7. SynOK'
    BY <1>1, <1>2, <1>3, <2>1, <2>2
      DEF SynOK, ResolvedOK, OnSubnet, NextHop, Unset, BeforeRequest
  <2> QED
    BY <1>2, <2>1, <2>3, <2>4, <2>5, <2>6, <2>7
<1>9. ASSUME Lookup
      PROVE  Types' /\ ListOK' /\ AskedOK' /\ EntriesOK' /\ SynOK' /\ wild' = wild
  <2>1. /\ main = "lookup" /\ arpList # "none" /\ main' = (IF Listed(target) THEN "syn" ELSE "ask")
        /\ wild' = IF arpList = "ready" THEN wild ELSE wild \union {"arp_lookup"}
        /\ UNCHANGED <<target, connects, arpList, arpHead, arpOut, tcpStatus>>
    BY <1>9 DEF Lookup, WildRead, net, sckVars, askVars, arpVars
  <2>2. tx \notin {"resolve", "resolve2"} /\ tcpStatus # "S_SYN"
    BY <1>2, <2>1 DEF SynOK
  <2>3. arpList = "ready" /\ wild' = wild
    BY <1>2, <2>1, <2>2 DEF ListOK, TypeOK
  <2>4. Types'
    BY <1>1, <1>2, <1>3, <1>4, <2>1, <2>3 DEF Types, TypeOK
  <2>5. ListOK' /\ EntriesOK'
    BY <1>2, <1>3, <1>5, <2>1, <2>2, <2>3 DEF ListOK, EntriesOK
  <2>6. AskedOK'
    BY <1>2, <1>3, <2>1 DEF AskedOK, MayAsk
  <2>7. SynOK'
    BY <1>1, <1>2, <1>3, <2>1, <2>2
      DEF SynOK, ResolvedOK, OnSubnet, NextHop, Listed, Unset, BeforeRequest
  <2> QED
    BY <1>2, <2>3, <2>4, <2>5, <2>6, <2>7
<1>10. ASSUME AskArp
       PROVE  Types' /\ ListOK' /\ AskedOK' /\ EntriesOK' /\ SynOK' /\ wild' = wild
  <2>1. /\ main = "ask" /\ main' = "wait" /\ arpOut' = Append(arpOut, target)
        /\ UNCHANGED <<target, connects, arpList, arpHead, tcpStatus, wild>>
    BY <1>10 DEF AskArp, net, arpVars
  <2>2. /\ arpOut' \in Seq(Nat) /\ Len(arpOut') = Len(arpOut) + 1
        /\ Len(arpOut) + 1 <= connects /\ arpList = "ready"
    BY <1>2, <1>5, <2>1 DEF AskedOK, MayAsk, ListOK, Types
  <2>3. Types'
    BY <1>1, <1>2, <1>3, <1>4, <2>1, <2>2 DEF Types, TypeOK
  <2>4. ListOK' /\ EntriesOK'
    BY <1>2, <1>3, <1>5, <2>1 DEF ListOK, EntriesOK
  <2>5. AskedOK'
    BY <2>1, <2>2 DEF AskedOK, MayAsk, Unset, BeforeRequest
  <2>6. SynOK'
    BY <1>2, <1>3, <1>5, <1>1, <2>1, SynKept DEF Listed, Unset, BeforeRequest
  <2> QED
    BY <1>2, <2>1, <2>3, <2>4, <2>5, <2>6
<1>11. ASSUME WaitArp
       PROVE  Types' /\ ListOK' /\ AskedOK' /\ EntriesOK' /\ SynOK' /\ wild' = wild
  <2>1. /\ main = "wait" /\ main' = "syn" /\ Listed(target)
        /\ UNCHANGED <<target, connects, arpList, arpHead, arpOut, tcpStatus, wild>>
    BY <1>11 DEF WaitArp, net, sckVars, askVars, arpVars
  <2>2. Types'
    BY <1>1, <1>2, <1>3, <1>4, <2>1 DEF Types, TypeOK
  <2>3. ListOK' /\ EntriesOK'
    BY <1>2, <1>3, <1>5, <2>1 DEF ListOK, EntriesOK
  <2>4. AskedOK'
    BY <1>2, <1>3, <2>1 DEF AskedOK, MayAsk, Unset, BeforeRequest
  <2>5. SynOK'
    BY <1>1, <1>2, <1>3, <2>1
      DEF SynOK, ResolvedOK, OnSubnet, NextHop, Listed, Unset, BeforeRequest
  <2> QED
    BY <1>2, <2>1, <2>2, <2>3, <2>4, <2>5
<1>12. ASSUME SetSyn
       PROVE  Types' /\ ListOK' /\ AskedOK' /\ EntriesOK' /\ SynOK' /\ wild' = wild
  <2>1. /\ main = "syn" /\ main' = "connecting" /\ tcpStatus' = "S_SYN"
        /\ UNCHANGED <<target, connects, arpList, arpHead, arpOut, wild>>
    BY <1>12 DEF SetSyn, net, askVars, arpVars
  <2>2. Types'
    BY <1>1, <1>2, <1>3, <1>4, <2>1 DEF Types, TypeOK
  <2>3. ListOK' /\ AskedOK' /\ EntriesOK'
    BY <1>2, <1>3, <1>5, <2>1, ArpKept DEF Asking, MayAsk, Unset, BeforeRequest
  <2>4. SynOK'
    BY <1>1, <1>2, <1>3, <2>1
      DEF SynOK, ResolvedOK, OnSubnet, NextHop, Listed, Unset, BeforeRequest
  <2> QED
    BY <1>2, <2>1, <2>2, <2>3, <2>4
<1>13. ASSUME ConnectAgain
       PROVE  Types' /\ ListOK' /\ AskedOK' /\ EntriesOK' /\ SynOK' /\ wild' = wild
  <2>1. /\ main = "connecting" /\ main' = "configured" /\ tcpStatus = "S_OPEN"
        /\ tx \in {"arp", "udp"} /\ target' \in Targets /\ connects' = connects + 1
        /\ UNCHANGED <<arpList, arpHead, arpOut, tcpStatus, wild>>
    BY <1>13 DEF ConnectAgain, sckVars, askVars, arpVars
  <2>2. Len(arpOut) <= connects
    BY <1>2 DEF TypeOK
  <2>3. Types'
    BY <1>1, <1>2, <1>3, <1>4, <1>5, <2>1, <2>2 DEF Types, TypeOK
  <2>4. ListOK' /\ EntriesOK'
    BY <1>2, <1>3, <1>5, <2>1 DEF ListOK, EntriesOK
  <2>5. AskedOK'
    BY <1>2, <1>3, <1>5, <2>1, <2>2 DEF AskedOK
  <2>6. SynOK'
    BY <1>1, <1>2, <1>3, <2>1
      DEF SynOK, ResolvedOK, OnSubnet, NextHop, Listed, Unset, BeforeRequest
  <2> QED
    BY <1>2, <2>1, <2>3, <2>4, <2>5, <2>6
<1>14. Types' /\ ListOK' /\ AskedOK' /\ EntriesOK' /\ SynOK' /\ wild' = wild
  BY <1>6, <1>7, <1>8, <1>9, <1>10, <1>11, <1>12, <1>13 DEF Kconnect
<1>15. NoWildRead'
  BY <1>2, <1>3, <1>14, WildKept
<1> QED
  BY <1>1, <1>14, <1>15 DEF IInv

-----------------------------------------------------------------------------
(* The TX task                                                             *)

LEMMA TxStep ==
  ASSUME IInv, Tx
  PROVE  IInv'
<1> DEFINE Rest == AnswersOK' /\ OfferOK' /\ QueueOK' /\ LeaseOK'
<1>1. /\ UNCHANGED <<main, net, arpSck, udpSck, udpIn, rarCount, rx, outside>>
      /\ sent \subseteq sent'
  BY DEF Tx, TxArp, TxArpDone, TxUdp, TxUdpDone, TxSyn, TxMakesList, TxListReady, sckVars, askVars,
     udpVars, arpVars
<1>2. /\ Types /\ TypeOK /\ FramesOK /\ AnswersOK /\ OfferOK /\ QueueOK /\ LeaseOK
      /\ ListOK /\ AskedOK /\ EntriesOK /\ SynOK /\ NoWildRead
  BY DEF IInv, Types
<1>3. UNCHANGED <<target, connects, intf, offer, wire, offered, leased, others>>
  BY <1>1 DEF net, outside
<1>4. FramesOK' /\ AnswersOK'
  BY <1>1, <1>2, <1>3, AnswersKept DEF InFlight
<1>5. LeaseOK'
  BY <1>1, <1>2, <1>3 DEF LeaseOK, LeaseHeld
<1>6. /\ target \in Nat /\ Len(arpOut) \in Nat /\ connects \in Nat
      /\ rarCount \in Nat /\ rarCount' = rarCount
  BY <1>1, <1>2, SetupAssumption DEF Types, TypeOK
<1>7. NextHop(target) \in Nat
  BY <1>2, <1>6 DEF NextHop, TypeOK
<1>8. ASSUME UNCHANGED <<udpOut>>, \A f \in sent' : f.kind = "REQUEST" => f \in sent
      PROVE  OfferOK' /\ QueueOK'
  <2>1. \A f : IsTheRequest(f)' <=> IsTheRequest(f)
    BY <1>1, <1>3 DEF IsTheRequest
  <2>2. OfferOK'
    BY <1>2, <1>3, <1>8, <2>1 DEF OfferOK, IsTheRequest, Quiet
  <2> QED
    BY <1>1, <1>2, <1>8, <2>2 DEF QueueOK
<1>9. ASSUME TxArp
      PROVE  Types' /\ OfferOK' /\ QueueOK' /\ ListOK' /\ AskedOK' /\ EntriesOK' /\ SynOK' /\ wild' = wild
  <2>1. /\ arpOut # <<>> /\ sent' = sent \union {Request(Head(arpOut))} /\ arpOut' = Tail(arpOut)
        /\ UNCHANGED <<udpOut, tcpStatus, arpList, arpHead, wild, tx>>
    BY <1>9 DEF TxArp, Request, Popped, udpVars, arpVars
  <2>2. Head(arpOut) \in Nat /\ arpOut' \in Seq(Nat) /\ Len(arpOut') = Len(arpOut) - 1
    BY <1>2, <2>1 DEF Types
  <2> DEFINE q == Request(Head(arpOut))
  <2>3. q.kind = "ARP_REQUEST" /\ q \in Frames
    BY <2>2 DEF Request, Frame, Frames, Kinds
  <2>4. sent' = sent \union {q}
    BY <2>1
  <2> HIDE DEF q
  <2>5. Types'
    BY <1>1, <1>2, <1>3, <1>6, <2>1, <2>2, <2>3, <2>4 DEF Types, TypeOK
  <2>6. OfferOK' /\ QueueOK'
    BY <1>8, <2>1, <2>3, <2>4
  <2>7. ListOK' /\ EntriesOK'
    BY <1>1, <1>2, <2>1 DEF ListOK, EntriesOK
  <2>8. AskedOK'
    BY <1>1, <1>2, <1>3, <1>6, <2>1, <2>2 DEF AskedOK
  <2>9. SynOK'
    BY <1>1, <1>2, <1>3, <1>6, <2>1, <2>3, <2>4, SynKept DEF Listed
  <2> QED
    BY <1>2, <2>1, <2>5, <2>6, <2>7, <2>8, <2>9
<1>10. ASSUME TxArpDone
       PROVE  Types' /\ OfferOK' /\ QueueOK' /\ ListOK' /\ AskedOK' /\ EntriesOK' /\ SynOK' /\ wild' = wild
  <2>1. /\ tx = "arp" /\ tx' = "udp" /\ wild' = wild
        /\ UNCHANGED <<arpOut, udpOut, tcpStatus, arpList, arpHead, sent>>
    BY <1>2, <1>10 DEF TxArpDone, sckVars, askVars, udpVars, arpVars, TypeOK
  <2>2. Types'
    BY <1>1, <1>2, <1>3, <2>1 DEF Types, TypeOK
  <2>3. OfferOK' /\ QueueOK'
    BY <1>8, <2>1
  <2>4. ListOK' /\ AskedOK' /\ EntriesOK'
    BY <1>1, <1>2, <1>3, <1>6, <2>1, ArpKept
  <2>5. SynOK'
    BY <1>1, <1>2, <1>3, <1>6, <2>1, SynKept DEF Listed
  <2> QED
    BY <1>2, <2>1, <2>2, <2>3, <2>4, <2>5
<1>11. ASSUME TxUdp
       PROVE  Types' /\ OfferOK' /\ QueueOK' /\ ListOK' /\ AskedOK' /\ EntriesOK' /\ SynOK' /\ wild' = wild
  <2> DEFINE h == Head(udpOut)
  <2>1. /\ udpOut # <<>> /\ sent' = sent \union {h} /\ udpOut' = Tail(udpOut)
        /\ UNCHANGED <<arpOut, tcpStatus, arpList, arpHead, wild, tx>>
    BY <1>11 DEF TxUdp, Popped, askVars, arpVars
  <2>2. /\ h \in Frames /\ (\E k \in DOMAIN udpOut : h = udpOut[k]) /\ udpOut' \in Seq(Frames)
        /\ Len(udpOut') = Len(udpOut) - 1 /\ Len(udpOut) \in Nat
        /\ \A k \in DOMAIN udpOut' : \E l \in DOMAIN udpOut : udpOut'[k] = udpOut[l]
    BY <1>2, <2>1, QueueTypes
  <2>3. h.kind \in {"DISCOVER", "REQUEST"} /\ (h.kind = "REQUEST" => IsTheRequest(h))
    BY <1>2, <2>2 DEF OfferOK
  <2> HIDE DEF h
  <2>4. Types'
    BY <1>1, <1>2, <1>3, <2>1, <2>2 DEF Types, TypeOK
  <2>5. OfferOK' /\ QueueOK'
    <3>1. \A k \in DOMAIN udpOut' :
            /\ udpOut'[k].kind \in {"DISCOVER", "REQUEST"}
            /\ udpOut'[k].kind = "REQUEST" => IsTheRequest(udpOut'[k])
      BY <1>2, <2>2 DEF OfferOK
    <3>2. \A f \in sent' : f.kind = "REQUEST" => IsTheRequest(f)
      BY <1>2, <2>1, <2>3 DEF OfferOK
    <3>3. OfferOK'
      BY <1>1, <1>2, <1>3, <3>1, <3>2 DEF OfferOK, IsTheRequest, Quiet
    <3>4. QueueOK'
      <4>1. main \notin {"ksocket", "ksocket2", "kconnect", "kconnect2", "discover"}
        BY <1>2, <2>1 DEF QueueOK
      <4> QED
        BY <1>1, <1>2, <2>2, <4>1 DEF QueueOK
    <3> QED
      BY <3>3, <3>4
  <2>6. ListOK' /\ AskedOK' /\ EntriesOK'
    BY <1>1, <1>2, <1>3, <1>6, <2>1, <2>3, ArpKept
  <2>7. SynOK'
    BY <1>1, <1>2, <1>3, <1>6, <2>1, <2>3, SynKept DEF Listed
  <2> QED
    BY <1>2, <2>1, <2>4, <2>5, <2>6, <2>7
<1>12. ASSUME TxUdpDone
       PROVE  Types' /\ OfferOK' /\ QueueOK' /\ ListOK' /\ AskedOK' /\ EntriesOK' /\ SynOK' /\ wild' = wild
  <2>1. /\ tx = "udp" /\ wild' = wild
        /\ \/ tcpStatus = "S_SYN" /\ tcpStatus' = "S_OPEN" /\ tx' = "resolve"
           \/ tcpStatus # "S_SYN" /\ tcpStatus' = tcpStatus /\ tx' = "arp"
        /\ UNCHANGED <<arpOut, udpOut, arpList, arpHead, sent>>
    BY <1>2, <1>12 DEF TxUdpDone, askVars, udpVars, arpVars, TypeOK
  <2>2. Types'
    BY <1>1, <1>2, <1>3, <2>1 DEF Types, TypeOK
  <2>3. OfferOK' /\ QueueOK'
    BY <1>8, <2>1
  <2>4. ListOK' /\ AskedOK' /\ EntriesOK'
    BY <1>1, <1>2, <1>3, <1>6, <2>1, ArpKept
  <2>5. SynOK'
    BY <1>1, <1>2, <1>3, <2>1 DEF SynOK, ResolvedOK, OnSubnet, NextHop, Listed
  <2> QED
    BY <1>2, <2>1, <2>2, <2>3, <2>4, <2>5
<1> DEFINE SynTo(from) == Frame("SYN", target, from)
<1>13. \A from \in Nat : SynTo(from) \in Frames /\ SynTo(from).kind = "SYN"
                         /\ SynTo(from).ip = target /\ SynTo(from).from = from
  BY <1>6 DEF Frame, Frames, Kinds
<1> HIDE DEF SynTo
<1>14. ASSUME TxSyn
       PROVE  Types' /\ OfferOK' /\ QueueOK' /\ ListOK' /\ AskedOK' /\ EntriesOK' /\ SynOK' /\ wild' = wild
  <2> DEFINE from == IF Listed(NextHop(target)) THEN NextHop(target) ELSE 0
  <2>1. /\ tx = "resolve" /\ arpList # "none" /\ tx' = "arp"
        /\ wild' = (IF arpList = "ready" THEN wild ELSE wild \union {"arp_lookup"})
        /\ sent' = sent \union {SynTo(from)}
        /\ UNCHANGED <<arpOut, udpOut, tcpStatus, arpList, arpHead>>
    BY <1>14 DEF TxSyn, WildRead, sckVars, askVars, udpVars, arpVars, SynTo
  <2>2. from \in Nat /\ wild' = wild
    <3>1. main = "connecting"
      BY <1>2, <2>1 DEF SynOK
    <3>2. arpList = "ready"
      BY <1>2, <2>1, <3>1 DEF ListOK, TypeOK
    <3> QED
      BY <1>7, <2>1, <3>2
  <2>3. Types'
    BY <1>1, <1>2, <1>3, <1>13, <2>1, <2>2 DEF Types, TypeOK
  <2>4. OfferOK' /\ QueueOK'
    BY <1>8, <1>13, <2>1, <2>2
  <2>5. ListOK' /\ AskedOK' /\ EntriesOK'
    BY <1>1, <1>2, <1>3, <1>6, <1>13, <2>1, <2>2, ArpKept
  <2>6. OnSubnet(target) /\ NextHop(target) = target => from = target
    BY <1>2, <2>1 DEF SynOK
  <2> HIDE DEF from
  <2>7. SynOK'
    <3>1. main = "connecting" /\ main \notin Unset
      BY <1>2, <2>1 DEF SynOK, Unset, BeforeRequest
    <3>2. ResolvedOK'
      BY <1>2, <1>3, <1>13, <2>1, <2>2, <2>6 DEF SynOK, ResolvedOK, OnSubnet, NextHop
    <3> QED
      BY <1>1, <1>2, <1>3, <2>1, <3>1, <3>2 DEF SynOK, OnSubnet, Listed
  <2> QED
    BY <1>2, <2>2, <2>3, <2>4, <2>5, <2>7
<1>15. ASSUME TxMakesList
       PROVE  Types' /\ OfferOK' /\ QueueOK' /\ ListOK' /\ AskedOK' /\ EntriesOK' /\ SynOK' /\ wild' = wild
  <2>1. /\ tx = "resolve" /\ arpList = "none" /\ tx' = "resolve2" /\ arpList' = "raw"
        /\ UNCHANGED <<arpOut, udpOut, tcpStatus, arpHead, sent, wild>>
    BY <1>15 DEF TxMakesList, sckVars, askVars, udpVars
  <2>2. Types'
    BY <1>1, <1>2, <1>3, <2>1 DEF Types, TypeOK
  <2>3. OfferOK' /\ QueueOK'
    BY <1>8, <2>1
  <2>4. ListOK' /\ EntriesOK'
    BY <1>1, <1>2, <1>6, <2>1 DEF ListOK, EntriesOK
  <2>5. AskedOK'
    BY <1>1, <1>2, <1>3, <2>1 DEF AskedOK
  <2>6. ~OnSubnet(target) /\ main = "connecting"
    <3>1. DOMAIN <<>> = {}
      OBVIOUS
    <3>2. ~Listed(target)
      BY <1>2, <2>1, <3>1 DEF ListOK, Listed
    <3> QED
      BY <1>2, <2>1, <3>2 DEF SynOK
  <2>7. SynOK'
    BY <1>1, <1>2, <1>3, <2>1, <2>6 DEF SynOK, ResolvedOK, OnSubnet, NextHop, Listed
  <2> QED
    BY <1>2, <2>1, <2>2, <2>3, <2>4, <2>5, <2>7
<1>16. ASSUME TxListReady
       PROVE  Types' /\ OfferOK' /\ QueueOK' /\ ListOK' /\ AskedOK' /\ EntriesOK' /\ SynOK' /\ wild' = wild
  <2>1. /\ tx = "resolve2" /\ tx' = "arp" /\ arpList' = "ready" /\ arpHead' = <<>>
        /\ sent' = sent \union {SynTo(0)}
        /\ UNCHANGED <<arpOut, udpOut, tcpStatus, wild>>
    BY <1>16 DEF TxListReady, sckVars, askVars, udpVars, SynTo
  <2>2. arpList = "raw" /\ main = "connecting" /\ ~OnSubnet(target)
    BY <1>2, <2>1 DEF ListOK, SynOK
  <2>3. Types'
    BY <1>1, <1>2, <1>3, <1>13, <2>1 DEF Types, TypeOK
  <2>4. OfferOK' /\ QueueOK'
    BY <1>8, <1>13, <2>1
  <2>5. ListOK' /\ EntriesOK'
    BY <1>1, <1>2, <1>6, <2>1, <2>2 DEF ListOK, EntriesOK
  <2>6. AskedOK'
    BY <1>1, <1>2, <1>3, <2>1 DEF AskedOK
  <2>7. SynOK'
    <3>1. ResolvedOK'
      BY <1>2, <1>3, <1>13, <2>1, <2>2 DEF SynOK, ResolvedOK, OnSubnet, NextHop
    <3> QED
      BY <1>1, <1>2, <1>3, <2>1, <2>2, <3>1 DEF SynOK, OnSubnet, Unset, BeforeRequest
  <2> QED
    BY <1>2, <2>1, <2>3, <2>4, <2>5, <2>6, <2>7
<1>17. Types' /\ OfferOK' /\ QueueOK' /\ ListOK' /\ AskedOK' /\ EntriesOK' /\ SynOK' /\ wild' = wild
  BY <1>9, <1>10, <1>11, <1>12, <1>14, <1>15, <1>16 DEF Tx
<1>18. NoWildRead'
  BY <1>2, <1>3, <1>17, WildKept
<1> QED
  BY <1>4, <1>5, <1>17, <1>18 DEF IInv

-----------------------------------------------------------------------------
(* The RX task                                                             *)

\* What the RX task leaves alone whatever frame it takes or sorts
LEMMA RxOthersKept ==
  ASSUME IInv, Rx
  PROVE  /\ UNCHANGED <<main, target, connects, intf, offer, arpSck, arpOut, udpSck, udpOut, tcpStatus,
                        arpList, tx, sent, offered, leased, others>>
         /\ OfferOK' /\ QueueOK' /\ LeaseOK'
<1>1. UNCHANGED <<main, target, connects, intf, offer, arpSck, arpOut, udpSck, udpOut, tcpStatus,
                  arpList, tx, sent, offered, leased, others>>
  BY DEF Rx, RxTake, RxUdp, RxArp, RxArpWild, RxDone, net, sckVars, askVars, udpVars, arpVars, outside
<1>2. OfferOK /\ QueueOK /\ LeaseOK
  BY DEF IInv
<1> QED
  BY <1>1, <1>2, RequestKept DEF QueueOK

LEMMA RxTakeStep ==
  ASSUME IInv, RxTake
  PROVE  IInv'
<1>1. /\ UNCHANGED <<main, target, connects, intf, offer, arpSck, arpOut, udpSck, udpOut, tcpStatus,
                     arpList, tx, sent, offered, leased, others>>
      /\ OfferOK' /\ QueueOK' /\ LeaseOK'
  BY RxOthersKept DEF Rx
<1>2. Types /\ FramesOK /\ AnswersOK /\ ListOK /\ AskedOK /\ EntriesOK /\ SynOK /\ NoWildRead
  BY DEF IInv
<1>3. /\ UNCHANGED <<udpIn, arpHead, rarCount, wild>> /\ wire' \subseteq wire /\ rx' \in wire
  BY DEF RxTake, sckVars, udpVars, arpVars
<1>4. Types'
  BY <1>1, <1>2, <1>3 DEF Types, TypeOK
<1>5. FramesOK' /\ AnswersOK'
  BY <1>1, <1>2, <1>3, AnswersKept DEF InFlight
<1>6. target \in Nat
  BY <1>2, SetupAssumption DEF Types, TypeOK
<1>7. ListOK' /\ AskedOK' /\ EntriesOK'
  BY <1>1, <1>2, <1>3, ArpKept
<1>8. SynOK' /\ NoWildRead'
  BY <1>1, <1>2, <1>3, <1>6, SynKept, WildKept DEF Listed
<1> QED
  BY <1>1, <1>4, <1>5, <1>7, <1>8 DEF IInv

LEMMA RxUdpStep ==
  ASSUME IInv, RxUdp
  PROVE  IInv'
<1>1. /\ UNCHANGED <<main, target, connects, intf, offer, arpSck, arpOut, udpSck, udpOut, tcpStatus,
                     arpList, tx, sent, offered, leased, others>>
      /\ OfferOK' /\ QueueOK' /\ LeaseOK'
  BY RxOthersKept DEF Rx
<1>2. Types /\ TypeOK /\ FramesOK /\ AnswersOK /\ ListOK /\ AskedOK /\ EntriesOK /\ SynOK /\ NoWildRead
  BY DEF IInv, Types
<1>3. /\ UNCHANGED <<arpHead, rarCount, wire>> /\ rx' = NoFrame
      /\ wild' = wild
      /\ udpIn' = udpIn \/ udpIn' = Append(udpIn, rx)
  BY DEF RxUdp, RxDone, arpVars, outside
<1>4. rx \in Frames
  <2>1. rx \in Frames \union {NoFrame, Hung} /\ rx.kind \in {"OFFER", "ACK", "NAK"}
    BY <1>2 DEF RxUdp, TypeOK
  <2>2. NoFrame.kind = "NONE" /\ Hung.kind = "HUNG"
    BY DEF NoFrame, Hung, Frame
  <2> QED
    BY <2>1, <2>2
<1>5. udpIn' \in Seq(Frames) /\ \A k \in DOMAIN udpIn' : udpIn'[k] \in Frames /\ udpIn'[k] \in InFlight
  <2>1. udpIn \in Seq(Frames)
    BY <1>2 DEF Types
  <2>2. CASE udpIn' = udpIn
    BY <2>1, <2>2 DEF InFlight
  <2>3. CASE udpIn' = Append(udpIn, rx)
    <3>1. udpIn' \in Seq(Frames)
      BY <1>4, <2>1, <2>3
    <3>2. \A k \in DOMAIN udpIn' : udpIn'[k] = rx \/ (k \in DOMAIN udpIn /\ udpIn'[k] = udpIn[k])
      BY <1>4, <2>1, <2>3
    <3>3. \A k \in DOMAIN udpIn' : udpIn'[k] \in InFlight
      BY <3>2 DEF InFlight
    <3> QED
      BY <3>1, <3>3
  <2> QED
    BY <1>3, <2>2, <2>3
<1>6. Types'
  BY <1>1, <1>2, <1>3, <1>5 DEF Types, TypeOK
<1>7. NoFrame.kind = "NONE"
  BY DEF NoFrame, Frame
<1>8. \A f \in InFlight' : f = NoFrame \/ f \in InFlight
  BY <1>3, <1>5 DEF InFlight
<1>9. FramesOK' /\ AnswersOK'
  BY <1>1, <1>2, <1>7, <1>8 DEF FramesOK, ReplyOK, Announced, AnswersOK, Quiet
<1>10. target \in Nat
  BY <1>2, SetupAssumption DEF TypeOK
<1>11. ListOK' /\ AskedOK' /\ EntriesOK'
  BY <1>1, <1>2, <1>3, ArpKept
<1>12. SynOK' /\ NoWildRead'
  BY <1>1, <1>2, <1>3, <1>10, SynKept, WildKept DEF Listed
<1> QED
  BY <1>1, <1>6, <1>9, <1>11, <1>12 DEF IInv

(* The sender of frame put before the entries of the list                  *)
EntriesKept(frame) ==
  \A k \in DOMAIN arpHead' :
    \/ k = 1 /\ arpHead'[k] = Entry(frame)
    \/ k # 1 /\ k - 1 \in DOMAIN arpHead /\ arpHead'[k] = arpHead[k - 1]

LEMMA EntryAdded ==
  ASSUME arpHead \in Seq(Entries), NEW frame, Entry(frame) \in Entries,
         arpHead' = <<Entry(frame)>> \o arpHead
  PROVE  /\ arpHead' \in Seq(Entries) /\ Len(arpHead') = 1 + Len(arpHead)
         /\ \A ip : Listed(ip)' <=> ip = frame.ip \/ Listed(ip)
         /\ EntriesKept(frame)
<1> DEFINE e == Entry(frame)
<1>1. e.ip = frame.ip
  BY DEF Entry
<1>2. e \in Entries /\ arpHead' = <<e>> \o arpHead
  OBVIOUS
<1> HIDE DEF e
<1>3. /\ arpHead' \in Seq(Entries) /\ Len(arpHead') = 1 + Len(arpHead) /\ arpHead'[1] = e
      /\ DOMAIN arpHead' = 1..(1 + Len(arpHead)) /\ DOMAIN arpHead = 1..Len(arpHead)
      /\ \A k \in DOMAIN arpHead : arpHead'[k + 1] = arpHead[k]
  BY <1>2
<1>4. Len(arpHead) \in Nat
  OBVIOUS
<1>5. \A k \in DOMAIN arpHead' :
        \/ k = 1 /\ arpHead'[k] = e
        \/ k # 1 /\ k - 1 \in DOMAIN arpHead /\ arpHead'[k] = arpHead[k - 1]
  <2>1. \A k \in DOMAIN arpHead' : k # 1 => k - 1 \in DOMAIN arpHead /\ (k - 1) + 1 = k
    BY <1>3, <1>4
  <2> QED
    BY <1>3, <2>1
<1>6. ASSUME NEW ip, Listed(ip)'
      PROVE  ip = frame.ip \/ Listed(ip)
  BY <1>1, <1>5, <1>6 DEF Listed
<1>7. ASSUME NEW ip, ip = frame.ip
      PROVE  Listed(ip)'
  <2>1. 1 \in DOMAIN arpHead' /\ arpHead'[1].ip = ip
    BY <1>1, <1>3, <1>4, <1>7
  <2> QED
    BY <2>1 DEF Listed
<1>8. ASSUME NEW ip, Listed(ip)
      PROVE  Listed(ip)'
  <2>1. PICK k \in DOMAIN arpHead : arpHead[k].ip = ip
    BY <1>8 DEF Listed
  <2>2. k + 1 \in DOMAIN arpHead' /\ arpHead'[k + 1].ip = ip
    BY <1>3, <1>4, <2>1
  <2> QED
    BY <2>2 DEF Listed
<1>9. EntriesKept(frame)
  BY <1>5 DEF EntriesKept, e
<1> QED
  BY <1>3, <1>6, <1>7, <1>8, <1>9

\* A host that was not listed adds to a list of different hosts.
LEMMA DistinctAdded ==
  ASSUME NEW frame, EntriesKept(frame), ~Listed(frame.ip), frame.ip \in Hosts,
         Entry(frame).ip = frame.ip, Entry(frame).eth = frame.ip,
         arpHead \in Seq(Entries), arpHead' \in Seq(Entries),
         \A k \in DOMAIN arpHead : arpHead[k].ip \in Hosts /\ arpHead[k].eth = arpHead[k].ip,
         \A k, l \in DOMAIN arpHead : arpHead[k].ip = arpHead[l].ip => k = l
  PROVE  /\ \A k \in DOMAIN arpHead' : arpHead'[k].ip \in Hosts /\ arpHead'[k].eth = arpHead'[k].ip
         /\ \A k, l \in DOMAIN arpHead' : arpHead'[k].ip = arpHead'[l].ip => k = l
<1>1. \A k \in DOMAIN arpHead' : arpHead'[k].ip \in Hosts /\ arpHead'[k].eth = arpHead'[k].ip
  BY DEF EntriesKept
<1>2. \A k \in DOMAIN arpHead : arpHead[k].ip # frame.ip
  BY DEF Listed
<1>3. ASSUME NEW k \in DOMAIN arpHead', NEW l \in DOMAIN arpHead', arpHead'[k].ip = arpHead'[l].ip
      PROVE  k = l
  <2>1. k \in Nat /\ l \in Nat
    OBVIOUS
  <2>2. CASE k = 1 \/ l = 1
    BY <1>2, <1>3, <2>2 DEF EntriesKept
  <2>3. CASE k # 1 /\ l # 1
    <3>1. k - 1 = l - 1
      BY <1>3, <2>3 DEF EntriesKept
    <3> QED
      BY <2>1, <3>1
  <2> QED
    BY <2>2, <2>3
<1> QED
  BY <1>1, <1>3

LEMMA RxArpStep ==
  ASSUME IInv, RxArp
  PROVE  IInv'
<1>1. /\ UNCHANGED <<main, target, connects, intf, offer, arpSck, arpOut, udpSck, udpOut, tcpStatus,
                     arpList, tx, sent, offered, leased, others>>
      /\ OfferOK' /\ QueueOK' /\ LeaseOK'
  BY RxOthersKept DEF Rx
<1>2. Types /\ TypeOK /\ FramesOK /\ AnswersOK /\ ListOK /\ AskedOK /\ EntriesOK /\ SynOK /\ NoWildRead
  BY DEF IInv, Types
<1>3. UNCHANGED <<udpIn, wire, wild>> /\ rx' = NoFrame /\ (IsReply(rx) => arpList = "ready")
  BY DEF RxArp, RxDone, sckVars, udpVars, outside
<1>4. NoFrame.kind = "NONE"
  BY DEF NoFrame, Frame
<1>5. FramesOK' /\ AnswersOK'
  <2>1. \A f \in InFlight' : f = NoFrame \/ f \in InFlight
    BY <1>3 DEF InFlight
  <2> QED
    BY <1>1, <1>2, <1>4, <2>1 DEF FramesOK, ReplyOK, Announced, AnswersOK, Quiet
<1>6. target \in Nat
  BY <1>2, SetupAssumption DEF TypeOK
<1>7. NoWildRead'
  BY <1>1, <1>2, <1>3, WildKept
<1>8. CASE UNCHANGED <<arpHead, rarCount>>
  <2>1. Types'
    BY <1>1, <1>2, <1>3, <1>8 DEF Types, TypeOK
  <2>2. ListOK' /\ AskedOK' /\ EntriesOK'
    BY <1>1, <1>2, <1>3, <1>8, ArpKept
  <2>3. SynOK'
    BY <1>1, <1>2, <1>6, <1>8, SynKept DEF Listed
  <2> QED
    BY <1>1, <1>5, <1>7, <2>1, <2>2, <2>3 DEF IInv
<1>9. CASE IsReply(rx) /\ ~Listed(rx.ip)
  <2>1. arpHead' = <<Entry(rx)>> \o arpHead /\ rarCount' = rarCount + 1 /\ arpList = "ready"
    BY <1>3, <1>9 DEF RxArp, AlreadyListed
  <2>2. ReplyOK(rx)
    BY <1>2, <1>9 DEF FramesOK, InFlight, IsReply
  <2>3. Entry(rx) \in Entries /\ Entry(rx).ip = rx.ip /\ Entry(rx).eth = rx.ip /\ rx.ip \in Hosts
    BY <2>2, SetupAssumption DEF ReplyOK, Entry, Entries
  <2>4. /\ arpHead' \in Seq(Entries) /\ Len(arpHead') = 1 + Len(arpHead)
        /\ \A ip : Listed(ip)' <=> ip = rx.ip \/ Listed(ip)
        /\ EntriesKept(rx)
    BY <1>2, <2>1, <2>3, EntryAdded DEF Types
  <2>5. Types'
    BY <1>1, <1>2, <1>3, <2>1, <2>4 DEF Types, TypeOK
  <2>6. EntriesOK'
    <3>1. arpHead \in Seq(Entries) /\ rarCount \in Nat
      BY <1>2 DEF Types
    <3> QED
      BY <1>1, <1>2, <1>3, <1>9, <2>1, <2>3, <2>4, <3>1, DistinctAdded DEF EntriesOK
  <2>7. ListOK' /\ AskedOK'
    BY <1>1, <1>2, <2>1 DEF ListOK, AskedOK
  <2>8. SynOK'
    BY <1>1, <1>2, <1>6, <2>4, SynKept
  <2> QED
    BY <1>1, <1>5, <1>7, <2>5, <2>6, <2>7, <2>8 DEF IInv
<1> QED
  BY <1>8, <1>9 DEF RxArp, AlreadyListed

LEMMA RxArpWildStep ==
  ASSUME IInv, RxArpWild
  PROVE  IInv'
<1>1. /\ UNCHANGED <<main, target, connects, intf, offer, arpSck, arpOut, udpSck, udpOut, tcpStatus,
                     arpList, tx, sent, offered, leased, others>>
      /\ OfferOK' /\ QueueOK' /\ LeaseOK'
  BY RxOthersKept DEF Rx
<1>2. Types /\ TypeOK /\ FramesOK /\ AnswersOK /\ ListOK /\ AskedOK /\ EntriesOK /\ SynOK /\ NoWildRead
  BY DEF IInv, Types
<1>3. /\ UNCHANGED <<udpIn, wire>> /\ rx' \in {rx, NoFrame, Hung} /\ IsReply(rx)
      /\ arpList # "ready" /\ wild' = wild \union {"arp_sort"}
  BY DEF RxArpWild, WildRead, sckVars, udpVars, outside
<1>4. /\ rarCount' \in {rarCount, rarCount + 1}
      /\ \/ arpHead' = arpHead
         \/ arpList = "raw" /\ arpHead' = <<Entry(rx)>> \o arpHead
  BY <1>2, <1>3 DEF RxArpWild, TypeOK
<1>5. FramesOK' /\ AnswersOK'
  <2>1. \A f \in InFlight' : f \in {NoFrame, Hung} \/ f \in InFlight
    BY <1>3 DEF InFlight
  <2>2. NoFrame.kind = "NONE" /\ Hung.kind = "HUNG"
    BY DEF NoFrame, Hung, Frame
  <2> QED
    BY <1>1, <1>2, <2>1, <2>2 DEF FramesOK, ReplyOK, Announced, AnswersOK, Quiet
<1>6. ReplyOK(rx)
  BY <1>2, <1>3 DEF FramesOK, InFlight, IsReply
<1>7. NoWildRead'
  <2>1. Request(rx.ip) \notin sent
    BY <1>2, <1>3 DEF AskedOK, Request, Frame
  <2>2. rx.ip \in Announced
    BY <1>6, <2>1 DEF ReplyOK
  <2> QED
    BY <1>1, <1>2, <1>3, <2>2 DEF NoWildRead, Announced
<1>8. Entry(rx) \in Entries
  BY <1>6, SetupAssumption DEF ReplyOK, Entry, Entries
<1>9. arpHead' \in Seq(Entries) /\ \A ip : Listed(ip) => Listed(ip)'
  <2>1. CASE arpHead' = arpHead
    BY <1>2, <2>1 DEF Types, Listed
  <2>2. CASE arpHead' = <<Entry(rx)>> \o arpHead
    BY <1>2, <1>8, <2>2, EntryAdded DEF Types, Entry
  <2> QED
    BY <1>4, <2>1, <2>2
<1>10. Types'
  BY <1>1, <1>2, <1>3, <1>4, <1>9 DEF Types, TypeOK
<1>11. ListOK' /\ AskedOK' /\ EntriesOK'
  BY <1>1, <1>2, <1>3, <1>4 DEF ListOK, AskedOK, EntriesOK
<1>12. target \in Nat
  BY <1>2, SetupAssumption DEF TypeOK
<1>13. SynOK'
  BY <1>1, <1>2, <1>9, <1>12, SynKept
<1> QED
  BY <1>1, <1>5, <1>7, <1>10, <1>11, <1>13 DEF IInv

-----------------------------------------------------------------------------
(* The network                                                             *)

LEMMA KernelKept ==
  ASSUME IInv, UNCHANGED kernel, offered' \subseteq Servers, leased' \subseteq Servers,
         leased \subseteq leased', others \subseteq others', others' \subseteq Frames,
         wire' \subseteq Frames, FramesOK', AnswersOK'
  PROVE  IInv'
<1>1. UNCHANGED <<main, target, connects, intf, offer, arpSck, arpOut, udpSck, udpOut, udpIn, tcpStatus,
                  arpList, arpHead, rarCount, tx, rx, wild, sent>>
  BY DEF kernel, net, sckVars, askVars, udpVars, arpVars
<1>2. /\ Types /\ TypeOK /\ OfferOK /\ QueueOK /\ LeaseOK
      /\ ListOK /\ AskedOK /\ EntriesOK /\ SynOK /\ NoWildRead
  BY DEF IInv, Types
<1>3. Types'
  BY <1>1, <1>2 DEF Types, TypeOK
<1>4. Quiet' => Quiet
  BY DEF Quiet
<1>5. OfferOK'
  BY <1>1, <1>2, <1>4 DEF OfferOK, IsTheRequest
<1>6. QueueOK' /\ LeaseOK'
  BY <1>1, <1>2 DEF QueueOK, LeaseOK, LeaseHeld
<1>7. ListOK' /\ AskedOK' /\ EntriesOK'
  BY <1>1, <1>2, ArpKept
<1>8. target \in Nat
  BY <1>2, SetupAssumption DEF TypeOK
<1>9. SynOK' /\ NoWildRead'
  BY <1>1, <1>2, <1>8, SynKept, WildKept DEF Listed
<1> QED
  BY <1>3, <1>5, <1>6, <1>7, <1>9 DEF IInv

\* A frame that reaches the kernel is one of those in flight or the new one.
LEMMA Delivered ==
  ASSUME IInv, UNCHANGED kernel, NEW f \in Frames, wire' = wire \union {f},
         leased \subseteq leased', others \subseteq others',
         f.kind \in {"OFFER", "ACK", "NAK"} => f.from \in Servers,
         f.kind = "ARP_REPLY" =>
           f.from = f.ip /\ f.ip \in Hosts /\ (Request(f.ip) \in sent \/ f.ip \in Announced'),
         Quiet' /\ f.kind = "OFFER" => f.ip = OfferOf[f.from],
         Quiet' /\ f.kind = "ACK" => /\ f.from \in leased' /\ f.ip = OfferOf[f.from]
                                     /\ Frame("REQUEST", f.ip, f.from) \in sent
  PROVE  FramesOK' /\ AnswersOK' /\ wire' \subseteq Frames
<1>1. UNCHANGED <<udpIn, rx, sent>>
  BY DEF kernel, sckVars, udpVars
<1>2. FramesOK /\ AnswersOK /\ TypeOK
  BY DEF IInv, Types
<1>3. InFlight' = InFlight \union {f}
  BY <1>1 DEF InFlight
<1>4. Quiet' => Quiet
  BY DEF Quiet
<1>5. FramesOK'
  BY <1>1, <1>2, <1>3 DEF FramesOK, ReplyOK, Announced
<1>6. AnswersOK'
  BY <1>1, <1>2, <1>3, <1>4 DEF AnswersOK
<1> QED
  BY <1>2, <1>5, <1>6 DEF TypeOK

LEMMA NetworkStep ==
  ASSUME IInv, Network
  PROVE  IInv'
<1>1. Types /\ TypeOK
  BY DEF IInv, Types
<1>2. ASSUME ServerOffers
      PROVE  IInv'
  <2>1. PICK s \in Servers :
          /\ wire' = wire \union {Frame("OFFER", OfferOf[s], s)} /\ offered' = offered \union {s}
          /\ UNCHANGED <<kernel, leased, others, replies, lost>>
    BY <1>2 DEF ServerOffers, Deliver
  <2> DEFINE f == Frame("OFFER", OfferOf[s], s)
  <2>2. f \in Frames /\ f.kind = "OFFER" /\ f.ip = OfferOf[s] /\ f.from = s
    BY SetupAssumption DEF Frame, Frames, Kinds
  <2> HIDE DEF f
  <2>3. FramesOK' /\ AnswersOK' /\ wire' \subseteq Frames
    BY <2>1, <2>2, Delivered DEF f
  <2> QED
    BY <1>1, <2>1, <2>3, KernelKept DEF TypeOK
<1>3. ASSUME ServerAnswersRequest
      PROVE  IInv'
  <2>1. PICK s \in Servers, ip \in {f.ip : f \in sent} :
          /\ Frame("REQUEST", ip, s) \in sent /\ leased' = leased \union {s}
          /\ wire' = wire \union {Frame(IF ip = OfferOf[s] THEN "ACK" ELSE "NAK", ip, s)}
          /\ UNCHANGED <<kernel, offered, others, replies, lost>>
    BY <1>3 DEF ServerAnswersRequest, Deliver
  <2> DEFINE f == Frame(IF ip = OfferOf[s] THEN "ACK" ELSE "NAK", ip, s)
  <2>2. ip \in Nat
    BY <1>1, <2>1 DEF TypeOK, Frames
  <2>3. /\ f \in Frames /\ f.kind \in {"ACK", "NAK"} /\ f.ip = ip /\ f.from = s
        /\ f.kind = "ACK" => ip = OfferOf[s]
    BY <2>2, SetupAssumption DEF Frame, Frames, Kinds
  <2>4. wire' = wire \union {f}
    BY <2>1
  <2> HIDE DEF f
  <2>5. FramesOK' /\ AnswersOK' /\ wire' \subseteq Frames
    BY <2>1, <2>3, <2>4, Delivered
  <2> QED
    BY <1>1, <2>1, <2>5, KernelKept DEF TypeOK
<1>4. ASSUME HostReplies
      PROVE  IInv'
  <2>1. PICK h \in Hosts :
          /\ Request(h) \in sent /\ wire' = wire \union {Frame("ARP_REPLY", h, h)}
          /\ UNCHANGED <<kernel, offered, leased, others, lost>>
    BY <1>4 DEF HostReplies, Deliver, Request
  <2> DEFINE f == Frame("ARP_REPLY", h, h)
  <2>2. f \in Frames /\ f.kind = "ARP_REPLY" /\ f.ip = h /\ f.from = h
    BY SetupAssumption DEF Frame, Frames, Kinds
  <2> HIDE DEF f
  <2>3. FramesOK' /\ AnswersOK' /\ wire' \subseteq Frames
    BY <2>1, <2>2, Delivered DEF f
  <2> QED
    BY <1>1, <2>1, <2>3, KernelKept DEF TypeOK
<1>5. ASSUME ServerAnswersOther
      PROVE  IInv'
  <2>1. PICK s \in Servers, kind \in {"OFFER", "ACK"} :
          /\ others' = others \union {Frame(kind, OtherLease, s)}
          /\ wire' = wire \union {Frame(kind, OtherLease, s)}
          /\ UNCHANGED <<kernel, offered, leased, replies, lost>>
    BY <1>5 DEF ServerAnswersOther, Deliver
  <2> DEFINE f == Frame(kind, OtherLease, s)
  <2>2. f \in Frames /\ f.kind \in {"OFFER", "ACK"} /\ f.from = s
    BY SetupAssumption DEF Frame, Frames, Kinds
  <2> HIDE DEF f
  <2>3. others' = others \union {f} /\ wire' = wire \union {f}
    BY <2>1 DEF f
  <2>4. ~Quiet'
    BY <2>2, <2>3 DEF Quiet
  <2>5. FramesOK' /\ AnswersOK' /\ wire' \subseteq Frames
    BY <2>1, <2>2, <2>3, <2>4, Delivered
  <2> QED
    BY <1>1, <2>1, <2>2, <2>3, <2>5, KernelKept DEF TypeOK
<1>6. ASSUME ServerProbes
      PROVE  IInv'
  <2>1. PICK s \in Servers :
          /\ others' = others \union {Frame("ARP_REQUEST", OfferOf[s], s)}
          /\ wire' = wire \union {Frame("ARP_REQUEST", OfferOf[s], s)}
          /\ UNCHANGED <<kernel, offered, leased, replies, lost>>
    BY <1>6 DEF ServerProbes, Deliver
  <2> DEFINE f == Frame("ARP_REQUEST", OfferOf[s], s)
  <2>2. f \in Frames /\ f.kind = "ARP_REQUEST"
    BY SetupAssumption DEF Frame, Frames, Kinds
  <2> HIDE DEF f
  <2>3. others' = others \union {f} /\ wire' = wire \union {f}
    BY <2>1 DEF f
  <2>4. FramesOK' /\ AnswersOK' /\ wire' \subseteq Frames
    BY <2>1, <2>2, <2>3, Delivered
  <2> QED
    BY <1>1, <2>1, <2>2, <2>3, <2>4, KernelKept DEF TypeOK
<1>7. ASSUME HostAnnounces
      PROVE  IInv'
  <2>1. PICK h \in Hosts :
          /\ others' = others \union {Frame("ARP_REPLY", h, h)}
          /\ wire' = wire \union {Frame("ARP_REPLY", h, h)}
          /\ UNCHANGED <<kernel, offered, leased, replies, lost>>
    BY <1>7 DEF HostAnnounces, Deliver
  <2> DEFINE f == Frame("ARP_REPLY", h, h)
  <2>2. f \in Frames /\ f.kind = "ARP_REPLY" /\ f.ip = h /\ f.from = h
    BY SetupAssumption DEF Frame, Frames, Kinds
  <2>3. f.ip \in Announced'
    BY <2>1, <2>2 DEF Announced
  <2> HIDE DEF f
  <2>4. others' = others \union {f} /\ wire' = wire \union {f}
    BY <2>1 DEF f
  <2>5. FramesOK' /\ AnswersOK' /\ wire' \subseteq Frames
    BY <2>1, <2>2, <2>3, <2>4, Delivered
  <2> QED
    BY <1>1, <2>1, <2>2, <2>4, <2>5, KernelKept DEF TypeOK
<1> QED
  BY <1>2, <1>3, <1>4, <1>5, <1>6, <1>7 DEF Network

LEMMA LoseStep ==
  ASSUME IInv, Lose
  PROVE  IInv'
<1>1. wire' \subseteq wire /\ UNCHANGED <<kernel, offered, leased, others, replies>>
  BY DEF Lose
<1>2. UNCHANGED <<udpIn, rx, sent>>
  BY <1>1 DEF kernel, sckVars, udpVars
<1>3. FramesOK /\ AnswersOK /\ TypeOK
  BY DEF IInv, Types
<1>4. FramesOK' /\ AnswersOK'
  BY <1>1, <1>2, <1>3, AnswersKept DEF InFlight
<1> QED
  BY <1>1, <1>3, <1>4, KernelKept DEF TypeOK

LEMMA NextInv ==
  ASSUME IInv, [Next]_vars
  PROVE  IInv'
<1>1. CASE DhcpClient
  BY <1>1, DhcpClientStep
<1>2. CASE Kconnect
  BY <1>2, KconnectStep
<1>3. CASE Tx
  BY <1>3, TxStep
<1>4. CASE Rx
  BY <1>4, RxTakeStep, RxUdpStep, RxArpStep, RxArpWildStep DEF Rx
<1>5. CASE Network
  BY <1>5, NetworkStep
<1>6. CASE Lose
  BY <1>6, LoseStep
<1>7. CASE UNCHANGED vars
  <2>1. UNCHANGED <<kernel, wire, offered, leased, others>>
    BY <1>7 DEF vars, kernel, world, outside
  <2>2. UNCHANGED <<udpIn, rx, sent>>
    BY <2>1 DEF kernel, sckVars, udpVars
  <2>3. FramesOK /\ AnswersOK /\ TypeOK
    BY DEF IInv, Types
  <2>4. FramesOK' /\ AnswersOK'
    BY <2>1, <2>2, <2>3, AnswersKept DEF InFlight
  <2> QED
    BY <2>1, <2>3, <2>4, KernelKept DEF TypeOK
<1> QED
  BY <1>1, <1>2, <1>3, <1>4, <1>5, <1>6, <1>7 DEF Next

LEMMA Invariance == Spec => []IInv
<1>1. Init => IInv
  BY InitInv
<1>2. IInv /\ [Next]_vars => IInv'
  BY NextInv
<1> QED
  BY <1>1, <1>2, PTL DEF Spec

-----------------------------------------------------------------------------
(* The variables keep their types, and the sockets of dhcp_client() never   *)
(* queue more than its two requests and the one question of kconnect()      *)
(* (socket.c:182-203, dhcp_client.c:29-103, networking.c:128-189).          *)
THEOREM TypeCorrect == Spec => []TypeOK
<1>1. IInv => TypeOK
  BY DEF IInv, Types
<1> QED
  BY <1>1, Invariance, PTL

(* The address, the server and the mask dhcp_client() takes are a lease of  *)
(* this kernel, however many servers answer and in whatever order the       *)
(* frames come, as long as no answer to another client reaches the DHCP     *)
(* socket (dhcp_client.c:89-151).                                           *)
THEOREM LeaseIsHeld == Spec => []LeaseHeld
<1>1. IInv => LeaseHeld
  BY DEF IInv, LeaseOK
<1> QED
  BY <1>1, Invariance, PTL

(* A SYN to a host of the subnet of both kconnect() and ipv4_req() carries  *)
(* the host's own MAC address: the TX task resolves it only after Main has  *)
(* seen it on the ARP list, and no entry ever leaves that list              *)
(* (socket.c:79-128, ipv4.c:55-63, ethernet.c:21-46).                       *)
THEOREM SynReachesHost == Spec => []SynAddressed
<1>1. IInv => SynAddressed
  BY DEF IInv, SynOK, ResolvedOK, SynAddressed
<1> QED
  BY <1>1, Invariance, PTL

(* However often the hosts answer, each is listed once and takes one        *)
(* receive address register (arp.c:113-133).                                *)
THEOREM HostsListedOnce == Spec => []OneEntryPerHost
<1>1. ASSUME IInv, wild = {}
      PROVE  /\ \A k, l \in DOMAIN arpHead : arpHead[k].ip = arpHead[l].ip => k = l
             /\ rarCount <= 1 + Cardinality(Hosts)
  <2> DEFINE f == [k \in DOMAIN arpHead |-> arpHead[k].ip]
  <2>1. EntriesOK /\ arpHead \in Seq(Entries) /\ rarCount = 1 + Len(arpHead)
    BY <1>1 DEF IInv, Types, EntriesOK
  <2>2. f \in Injection(DOMAIN arpHead, Hosts)
    BY <1>1, <2>1 DEF EntriesOK, Injection, IsInjective
  <2>3. Cardinality(DOMAIN arpHead) <= Cardinality(Hosts) /\ IsFiniteSet(Hosts)
    BY <2>2, SetupAssumption, FS_Injection
  <2>4. DOMAIN arpHead = 1..Len(arpHead) /\ Len(arpHead) \in Nat
    BY <2>1
  <2>5. Cardinality(1..Len(arpHead)) = Len(arpHead)
    <3>1. \A n \in Nat : Cardinality(1..n) = IF 1 > n THEN 0 ELSE n - 1 + 1
      BY FS_Interval
    <3> QED
      BY <2>4, <3>1
  <2>6. Cardinality(Hosts) \in Nat
    BY <2>3, FS_CardinalityType
  <2>7. rarCount <= 1 + Cardinality(Hosts)
    BY <2>1, <2>3, <2>4, <2>5, <2>6
  <2> QED
    BY <1>1, <2>1, <2>7 DEF EntriesOK
<1>2. IInv => OneEntryPerHost
  BY <1>1 DEF OneEntryPerHost
<1> QED
  BY <1>2, Invariance, PTL

(* Wherever Main, the TX task and the RX task are preempted, nobody looks   *)
(* an address up in an ARP list that is still being made, and the answer to *)
(* a question of the kernel finds the list ready: only a reply that nobody  *)
(* in the kernel asked for makes arp_sort() read a list that was not        *)
(* written, or NULL in its place (arp.c:53-63, arp.c:115, socket.c:83-101). *)
THEOREM AnswersFindTheList == Spec => []NoWildRead
<1>1. IInv => NoWildRead
  BY DEF IInv
<1> QED
  BY <1>1, Invariance, PTL
=============================================================================
