-------------------------------- MODULE TxRing --------------------------------
(***************************************************************************)
(* The transmit ring of the Intel 8254xx driver: intel_8254xx_tx_send()    *)
(* fills the descriptor at the tail and moves the tail register; the       *)
(* device sends from its head to the tail.  The driver never asks whether  *)
(* the device is done with a descriptor, so the tail can catch up with the *)
(* head, which the device takes for an empty ring.                         *)
(*                                                                         *)
(* Only the TX task calls tx_send.  A frame is the number of its call.     *)
(***************************************************************************)
EXTENDS Naturals, Sequences

CONSTANTS
  DescCount,   \* INTEL_8254XX_TX_DESC_COUNT
  Frames       \* how many frames are sent

ASSUME TxAssumption == DescCount \in Nat \ {0} /\ Frames \in Nat

VARIABLES
  desc,      \* the frame each descriptor points to, 0 at first
  tx_tail,   \* the driver's copy of the tail
  TDT, TDH,  \* the tail and head registers
  pc,        \* where tx_send is: "idle", "filled", "moved"
  called,    \* how many calls of tx_send have begun
  onWire,    \* the frames the device has sent, in order
  lapped     \* whether the tail has caught up with the head

driver == <<desc, tx_tail, TDT, pc, called, lapped>>
vars == <<desc, tx_tail, TDT, TDH, pc, called, onWire, lapped>>

Descs == 0 .. DescCount - 1

Init ==
  /\ desc = [d \in Descs |-> 0] /\ tx_tail = 0 /\ TDT = 0 /\ TDH = 0
  /\ pc = "idle" /\ called = 0 /\ onWire = <<>> /\ lapped = FALSE

(* &device_ptr->txdl[tx_tail] *)
Slot == tx_tail

NextTailShortMutant(tail) == (tail + 1) % (DescCount - 1)
NextTail(tail) == (tail + 1) % DescCount

Fill ==
  /\ pc = "idle" /\ called < Frames /\ called' = called + 1 /\ pc' = "filled"
  /\ desc' = [desc EXCEPT ![Slot] = called + 1]
  /\ UNCHANGED <<tx_tail, TDT, TDH, onWire, lapped>>

MoveTail ==
  /\ pc = "filled" /\ pc' = "moved" /\ tx_tail' = NextTail(tx_tail)
  /\ UNCHANGED <<desc, TDT, TDH, called, onWire, lapped>>

(* mmio_write(device_ptr->reg_base_addr, REG_TDT, device_ptr->tx_tail); *)
WriteTail ==
  /\ pc = "moved" /\ pc' = "idle" /\ TDT' = tx_tail
  /\ lapped' = (lapped \/ tx_tail = TDH)
  /\ UNCHANGED <<desc, tx_tail, TDH, called, onWire>>

TxSend == Fill \/ MoveTail \/ WriteTail

(* The device sends the frame at its head.                                 *)
Transmit ==
  /\ TDH # TDT
  /\ onWire' = Append(onWire, desc[TDH]) /\ TDH' = (TDH + 1) % DescCount
  /\ UNCHANGED driver

Next == TxSend \/ Transmit

Spec == Init /\ [][Next]_vars

-----------------------------------------------------------------------------
(* Properties *)

OnWire(frame) == \E k \in DOMAIN onWire : onWire[k] = frame
Handed == IF pc = "idle" THEN called ELSE called - 1
Pending(frame) ==
  \E d \in Descs : desc[d] = frame /\ IF TDH <= TDT THEN TDH <= d /\ d < TDT
                                                    ELSE TDH <= d \/ d < TDT

(* The types of the variables (intel_8254xx.c:261-356). *)
TypeOK ==
  /\ desc \in [Descs -> 0 .. Frames] /\ {tx_tail, TDT, TDH} \subseteq Descs
  /\ pc \in {"idle", "filled", "moved"} /\ called \in 0 .. Frames
  /\ onWire \in Seq(0 .. Frames) /\ lapped \in BOOLEAN

(* Frames leave in the order of the calls, no frame twice and no descriptor *)
(* that was not filled, even after the tail has caught up with the head     *)
(* (intel_8254xx.c:343-352).                                                *)
SentInOrder ==
  /\ \A k \in DOMAIN onWire : onWire[k] # 0
  /\ \A k, l \in DOMAIN onWire : k < l => onWire[k] < onWire[l]

(* As long as the tail has not caught up with the head, every frame handed  *)
(* to the device was sent or waits between head and tail                    *)
(* (intel_8254xx.c:346-352).                                                *)
NothingDropped ==
  ~lapped => \A frame \in 1 .. Handed : OnWire(frame) \/ Pending(frame)

(* A frame handed to the device is sent once and in its turn                *)
(* (intel_8254xx.c:343-352).                                                *)
SentExactlyOnce == SentInOrder /\ NothingDropped
=============================================================================
