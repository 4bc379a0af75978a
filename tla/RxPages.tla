------------------------------- MODULE RxPages --------------------------------
(***************************************************************************)
(* The pages a received frame takes: RxRing with the two pages rx_poll     *)
(* allocates for each frame, what the branches of networking_rx_sort() do  *)
(* with them, the queue entries of a socket, and the task that reads from  *)
(* the socket with kread().                                                *)
(*                                                                         *)
(* kalloc() gives any page that is free.  With no page left it would go on *)
(* from the end of the free list; the module ends there (bound).           *)
(***************************************************************************)
EXTENDS RxRing, FiniteSets

CONSTANTS
  Pages,     \* the pages of the heap
  KindMaps   \* what the frames may be, see Kinds

(* "undecodable": ether_decode() fails.  "stray": a UDP message no socket  *)
(* matches.  "data": one a socket takes, UDP or a TCP segment with PSH.    *)
(* "reply": an ARP reply of a new host.  "other": any other ARP or TCP     *)
(* message.                                                                *)
Kinds == {"undecodable", "stray", "data", "reply", "other"}

ASSUME PagesAssumption ==
  IsFiniteSet(Pages) /\ KindMaps \subseteq [1 .. Frames -> Kinds]

VARIABLES
  free,      \* the pages kalloc() may give
  held,      \* msg and msg->buf of rx_poll, NoMessage if none
  kindOf,    \* what each frame is
  queue,     \* message_queue_in of the socket: entries with their message
  reader,    \* the message kread() has popped, NoMessage if none
  arpPages,  \* the pages of the ARP list's entries
  dropped,   \* how many frames kept their pages: see SortDropped
  misuse     \* whether a page was read, written or freed that was free

pageVars == <<free, held, kindOf, queue, reader, arpPages, dropped, misuse>>
rxPagesVars == <<vars, pageVars>>

NoMessage == <<>>

(* What the frame is that rx_poll has decoded. *)
Kind == kindOf[msg]

APage(pages) == CHOOSE p \in pages : TRUE

Uses(pages) == misuse' = (misuse \/ pages \cap free # {})
UsesNothing == UNCHANGED misuse

PagesOf(message) == IF message = NoMessage THEN {} ELSE {message.msg, message.buf}

RxPagesInit ==
  /\ Init /\ free = Pages /\ held = NoMessage /\ kindOf \in KindMaps /\ queue = <<>>
  /\ reader = NoMessage /\ arpPages = {} /\ dropped = 0 /\ misuse = FALSE

(* msg and msg_buf, and ether_decode() writes into both *)
DecodeFrame ==
  /\ Decode /\ Cardinality(free) >= 2
  /\ LET m == APage(free) IN LET b == APage(free \ {m}) IN
       held' = [msg |-> m, buf |-> b] /\ free' = free \ {m, b}
  /\ UNCHANGED <<kindOf, queue, reader, arpPages, dropped>> /\ UsesNothing

(* kfree(msg->buf, 1); kfree(msg, 1); *)
FreeMessage(message, pages) == free' = pages \union PagesOf(message)

(* rx_poll does not call networking_rx_sort(), or its UDP branch comes to  *)
(* the end of the sockets: nobody frees the message.                       *)
SortDropped ==
  /\ Sort /\ Kind \in {"undecodable", "stray"}
  /\ dropped' = dropped + 1 /\ held' = NoMessage
  /\ UNCHANGED <<free, kindOf, queue, reader, arpPages>> /\ UsesNothing

(* The message, pushed, then freed as if the branch had not returned.      *)
SortQueuedMutant ==
  /\ Sort /\ Kind = "data" /\ free # {}
  /\ LET e == APage(free) IN
       /\ queue' = Append(queue, [entry |-> e, msg |-> held.msg, buf |-> held.buf])
       /\ FreeMessage(held, free \ {e})
  /\ held' = NoMessage
  /\ UNCHANGED <<kindOf, reader, arpPages, dropped>> /\ Uses(PagesOf(held))

(* queue_push(sck->message_queue_in, msg); return; *)
SortQueued ==
  /\ Sort /\ Kind = "data" /\ free # {}
  /\ LET e == APage(free) IN
       /\ queue' = Append(queue, [entry |-> e, msg |-> held.msg, buf |-> held.buf])
       /\ free' = free \ {e}
  /\ held' = NoMessage
  /\ UNCHANGED <<kindOf, reader, arpPages, dropped>> /\ UsesNothing

(* arp_sort() copies from the message to a page of its own.               *)
SortListed ==
  /\ Sort /\ Kind = "reply" /\ free # {}
  /\ LET e == APage(free) IN arpPages' = arpPages \union {e} /\ FreeMessage(held, free \ {e})
  /\ held' = NoMessage
  /\ UNCHANGED <<kindOf, queue, reader, dropped>> /\ Uses(PagesOf(held))

SortFreedKeptMutant ==
  /\ Sort /\ Kind = "other"
  /\ held' = NoMessage
  /\ UNCHANGED <<free, kindOf, queue, reader, arpPages, dropped>> /\ Uses(PagesOf(held))

SortFreed ==
  /\ Sort /\ Kind = "other"
  /\ FreeMessage(held, free) /\ held' = NoMessage
  /\ UNCHANGED <<kindOf, queue, reader, arpPages, dropped>> /\ Uses(PagesOf(held))

(* The test, the clear and the device touch no page of these.             *)
OtherRingStep == (Receive \/ Test \/ Clear) /\ UNCHANGED pageVars

(* kread(): queue_pop() frees the entry after it was read,                 *)
ReadPop ==
  /\ reader = NoMessage /\ queue # <<>>
  /\ LET first == Head(queue) IN
       /\ reader' = [msg |-> first.msg, buf |-> first.buf]
       /\ free' = free \union {first.entry} /\ Uses({first.entry})
  /\ queue' = Tail(queue)
  /\ UNCHANGED <<vars, held, kindOf, arpPages, dropped>>

(* and the message is copied to the caller and freed.                      *)
ReadFree ==
  /\ reader # NoMessage /\ Uses(PagesOf(reader))
  /\ FreeMessage(reader, free) /\ reader' = NoMessage
  /\ UNCHANGED <<vars, held, kindOf, queue, arpPages, dropped>>

RxPagesNext ==
  \/ DecodeFrame \/ SortDropped \/ SortQueued \/ SortListed \/ SortFreed
  \/ OtherRingStep \/ ReadPop \/ ReadFree

RxPagesSpec == RxPagesInit /\ [][RxPagesNext]_rxPagesVars

(* The scheduler runs the polling task again and again. *)
RxPagesFairSpec == RxPagesSpec /\ WF_vars(RxPoll)

-----------------------------------------------------------------------------
(* Properties *)

QueuePages == UNION {{queue[k].entry, queue[k].msg, queue[k].buf} : k \in DOMAIN queue}

InUse == PagesOf(held) \union QueuePages \union PagesOf(reader) \union arpPages

(* Nobody reads, writes or frees a page that was freed before, and a page  *)
(* somebody still has is not given to anyone else, while rx_poll and a     *)
(* task in kread() pass messages on and free them (networking.c:371-376,   *)
(* 389-392, 476-479, intel_8254xx.c:315-324, queue.c:10-28,                *)
(* socket.c:218-230).                                                      *)
NoPageReused == ~misuse /\ InUse \cap free = {}

(* Each message is in one place, and the only pages that never come back   *)
(* are the two of each frame that could not be decoded and of each UDP     *)
(* message without a socket (networking.c:340-381, intel_8254xx.c:321-324).*)
OnlyDroppedLeak ==
  Cardinality(Pages \ (free \union InUse)) = 2 * dropped
=============================================================================
