------------------------------- MODULE TxPages --------------------------------
(***************************************************************************)
(* The pages a sent message takes: TxRing with kwrite(), which copies the  *)
(* caller's buffer into pages of its own, the outgoing queue of a socket,  *)
(* the TX task, which copies the message into a page for the frame and     *)
(* frees what kwrite() has allocated, and the device, which reads the page *)
(* of the frame some time after tx_send() has returned.                    *)
(*                                                                         *)
(* The TX task never frees the page of a frame ("TODO: Make sure to        *)
(* kfree() in tx_send()", networking.c:142): each frame keeps one.         *)
(***************************************************************************)
EXTENDS TxRing, FiniteSets

CONSTANTS
  Pages,       \* the pages of the heap
  MaxWrites    \* bound: the calls of kwrite()

ASSUME TxPagesAssumption == IsFiniteSet(Pages) /\ MaxWrites \in Nat

VARIABLES
  free,      \* the pages kalloc() may give
  writes,    \* the calls of kwrite() so far
  queue,     \* message_queue_out: entries with their message
  message,   \* net_msg, popped by the TX task, NoMessage if none
  wrap,      \* wrap_buf: the set of the page the frame is assembled in
  pageOf,    \* addr_low of each descriptor: the set of its page
  misuse     \* whether a page was read, written or freed that was free

pageVars == <<free, writes, queue, message, wrap, pageOf, misuse>>
txPagesVars == <<vars, pageVars>>

NoMessage == <<>>
APage(pages) == CHOOSE p \in pages : TRUE
Uses(pages) == misuse' = (misuse \/ pages \cap free # {})
PagesOf(msg) == IF msg = NoMessage THEN {} ELSE {msg.msg, msg.buf}

TxPagesInit ==
  /\ Init /\ free = Pages /\ writes = 0 /\ queue = <<>> /\ message = NoMessage
  /\ wrap = {} /\ pageOf = [d \in Descs |-> {}] /\ misuse = FALSE

(* kwrite(): copy_buf, net_msg, and the entry of queue_push()              *)
Kwrite ==
  /\ writes < MaxWrites /\ writes' = writes + 1 /\ Cardinality(free) >= 3
  /\ LET b == APage(free) IN LET m == APage(free \ {b}) IN LET e == APage(free \ {b, m}) IN
       /\ queue' = Append(queue, [entry |-> e, msg |-> m, buf |-> b])
       /\ free' = free \ {b, m, e}
  /\ UNCHANGED <<vars, message, wrap, pageOf, misuse>>

(* queue_pop() frees the entry, then wrap_buf is allocated.                *)
PopMessage ==
  /\ pc = "idle" /\ wrap = {} /\ queue # <<>>
  /\ LET first == Head(queue)
         left  == free \union {first.entry}
     IN  /\ message' = [msg |-> first.msg, buf |-> first.buf]
         /\ wrap' = {APage(left)} /\ free' = left \ wrap'
         /\ Uses({first.entry})
  /\ queue' = Tail(queue)
  /\ UNCHANGED <<vars, writes, pageOf>>

(* memcpy(wrap_buf + 0x100, net_msg->buf, net_msg->len), and both pages of *)
(* the message are freed.                                                  *)
CopyMessage ==
  /\ message # NoMessage /\ free' = free \union PagesOf(message)
  /\ message' = NoMessage /\ Uses(PagesOf(message) \union wrap)
  /\ UNCHANGED <<vars, writes, queue, wrap, pageOf>>

(* A SYN, ACK or FIN has no message.                                       *)
WrapOnly ==
  /\ pc = "idle" /\ wrap = {} /\ free # {} /\ called < Frames
  /\ wrap' = {APage(free)} /\ free' = free \ wrap'
  /\ UNCHANGED <<vars, writes, queue, message, pageOf, misuse>>

FillFrame ==
  /\ Fill /\ wrap # {} /\ message = NoMessage
  /\ pageOf' = [pageOf EXCEPT ![Slot] = wrap] /\ wrap' = {}
  /\ Uses(wrap) /\ UNCHANGED <<free, writes, queue, message>>

OtherSendStep == MoveTail /\ UNCHANGED pageVars

(* Mutant: the page is freed as soon as the device knows of it.            *)
SendFrameMutant ==
  /\ WriteTail /\ free' = free \union pageOf[(tx_tail + DescCount - 1) % DescCount]
  /\ UNCHANGED <<writes, queue, message, wrap, pageOf, misuse>>

SendFrame == WriteTail /\ UNCHANGED pageVars

(* The device reads the page of the frame at its head.                     *)
TransmitFrame ==
  /\ Transmit /\ Uses(pageOf[TDH])
  /\ UNCHANGED <<free, writes, queue, message, wrap, pageOf>>

TxPagesNext ==
  \/ Kwrite \/ PopMessage \/ CopyMessage \/ WrapOnly
  \/ FillFrame \/ OtherSendStep \/ SendFrame \/ TransmitFrame

TxPagesSpec == TxPagesInit /\ [][TxPagesNext]_txPagesVars

-----------------------------------------------------------------------------
(* Properties *)

QueuePages == UNION {{queue[k].entry, queue[k].msg, queue[k].buf} : k \in DOMAIN queue}

InUse == QueuePages \union PagesOf(message) \union wrap

(* The descriptors the device has still to read *)
Unsent == {d \in Descs : \E frame \in 1 .. called : desc[d] = frame /\ Pending(frame)}

(* Nobody is given a page that somebody still needs.                        *)
NoPageReused ==
  /\ ~misuse /\ InUse \cap free = {}
  /\ \A d \in Unsent : pageOf[d] \cap (free \union InUse) = {}

(* Each frame keeps its page for ever, and nothing else does.               *)
FramesKeepPages == Cardinality(Pages \ (free \union InUse)) = called

(* What kwrite() has copied and what the device has still to send is in a   *)
(* page nobody else is given: the caller, the TX task and the device never  *)
(* read a page after it was freed, though the device reads long after       *)
(* tx_send() has returned; the price is that exactly the pages of frames    *)
(* never come back (socket.c:189-207, networking.c:140-172, 207, 247,       *)
(* 262-280, intel_8254xx.c:339-356).                                        *)
PagesAccounted == NoPageReused /\ FramesKeepPages
=============================================================================
