-------------------------------- MODULE RxRing --------------------------------
(***************************************************************************)
(* The receive ring of the Intel 8254xx driver: the device writes frames   *)
(* into the descriptors and the task intel_8254xx_rx_poll() scans them     *)
(* from 0 to the last one, for ever.                                       *)
(*                                                                         *)
(* The driver leaves the tail register at the number of descriptors, which *)
(* the head never reaches: the device has a free descriptor at all times   *)
(* and goes round the ring whether or not the driver keeps up.  A frame is *)
(* the number of its arrival; the module counts Frames of them.            *)
(***************************************************************************)
EXTENDS Naturals, Sequences

CONSTANTS
  DescCount,   \* INTEL_8254XX_RX_DESC_COUNT
  Frames       \* how many frames arrive

ASSUME RxAssumption == DescCount \in Nat \ {0} /\ Frames \in Nat

VARIABLES
  head,     \* RDH of the device
  buf,      \* the frame in the buffer of each descriptor, 0 at first
  dd,       \* bit 0 of the status of each descriptor
  arrived,  \* how many frames have arrived
  i,        \* the descriptor rx_poll looks at
  pc,       \* "test", "decode", "sort" or "clear"
  msg,      \* the frame rx_poll has copied
  sorted,   \* the frames done with, in order: sorted, or refused by ether_decode()
  overrun   \* whether a frame came when the ring had no free descriptor

device == <<head, buf, arrived, overrun>>
vars == <<head, buf, dd, arrived, i, pc, msg, sorted, overrun>>

Descs == 0 .. DescCount - 1

Init ==
  /\ head = 0 /\ buf = [d \in Descs |-> 0] /\ dd = [d \in Descs |-> FALSE] /\ arrived = 0
  /\ i = 0 /\ pc = "test" /\ msg = 0 /\ sorted = <<>> /\ overrun = FALSE

FollowingSkipMutant(d) == IF d + 2 >= DescCount THEN 0 ELSE d + 1

(* for (size_t i = 0; i < INTEL_8254XX_RX_DESC_COUNT; ++i), again and again *)
Following(d) == IF d + 1 = DescCount THEN 0 ELSE d + 1

(* The device stores a frame and then the status, and moves its head.      *)
Receive ==
  /\ arrived < Frames /\ arrived' = arrived + 1
  /\ buf' = [buf EXCEPT ![head] = arrived + 1]
  /\ dd' = [dd EXCEPT ![head] = TRUE]
  /\ head' = IF head + 1 = DescCount THEN 0 ELSE head + 1
  /\ overrun' = (overrun \/ dd[head])
  /\ UNCHANGED <<i, pc, msg, sorted>>

(* if (device_ptr->rxdl[i].status & 1) *)
Test ==
  /\ pc = "test"
  /\ IF dd[i] THEN pc' = "decode" /\ UNCHANGED i
              ELSE i' = Following(i) /\ UNCHANGED pc
  /\ UNCHANGED <<device, dd, msg, sorted>>

(* ether_decode() copies the frame into a message of its own. *)
Decode ==
  /\ pc = "decode" /\ pc' = "sort" /\ msg' = buf[i]
  /\ UNCHANGED <<device, dd, i, sorted>>

(* networking_rx_sort(), unless ether_decode() has failed *)
Sort ==
  /\ pc = "sort" /\ pc' = "clear" /\ sorted' = Append(sorted, msg)
  /\ UNCHANGED <<device, dd, i, msg>>

StatusKeptMutant == dd
StatusAfter == [dd EXCEPT ![i] = FALSE]

(* device_ptr->rxdl[i].status = 0; and on to the next descriptor *)
Clear ==
  /\ pc = "clear" /\ pc' = "test" /\ dd' = StatusAfter /\ i' = Following(i)
  /\ UNCHANGED <<device, msg, sorted>>

RxPoll == Test \/ Decode \/ Sort \/ Clear

Next == Receive \/ RxPoll

Spec == Init /\ [][Next]_vars

(* The scheduler runs the polling task again and again. *)
FairSpec == Spec /\ WF_vars(RxPoll)

-----------------------------------------------------------------------------
(* Properties *)

Sorted(frame) == \E k \in DOMAIN sorted : sorted[k] = frame
Waiting(frame) ==
  \/ \E d \in Descs : dd[d] /\ buf[d] = frame /\ (d = i => pc # "clear")
  \/ pc = "sort" /\ msg = frame

(* The types of the variables (intel_8254xx.c:213-337). *)
TypeOK ==
  /\ head \in Descs /\ i \in Descs /\ pc \in {"test", "decode", "sort", "clear"}
  /\ buf \in [Descs -> 0 .. Frames] /\ dd \in [Descs -> BOOLEAN]
  /\ arrived \in 0 .. Frames /\ msg \in 0 .. Frames /\ overrun \in BOOLEAN
  /\ sorted \in Seq(1 .. Frames)

(* No frame is sorted twice, however often the device goes round the ring   *)
(* while the driver is between its test and its clear.                      *)
SortedOnce == \A k, l \in DOMAIN sorted : sorted[k] = sorted[l] => k = l

(* As long as the device has found every descriptor free, every frame that  *)
(* has arrived was sorted or still waits in the ring.                       *)
NothingLost ==
  ~overrun => \A frame \in 1 .. arrived : Sorted(frame) \/ Waiting(frame)

(* The scan from 0 and the clear after the processing neither lose a frame  *)
(* nor take one again (intel_8254xx.c:307-329).                             *)
SortedExactlyOnce == SortedOnce /\ NothingLost

(* Every frame is sorted in the end while the ring is not overrun: the scan  *)
(* comes back to every descriptor (intel_8254xx.c:305-333).                 *)
FramesSorted ==
  \A frame \in 1 .. Frames : (arrived >= frame) ~> (overrun \/ Sorted(frame))
=============================================================================
