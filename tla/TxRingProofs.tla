----------------------------- MODULE TxRingProofs -----------------------------
(***************************************************************************)
(* Proofs about TxRing for rings of any length and any number of frames:   *)
(* frames leave in the order of the calls, and none is dropped before the  *)
(* tail has caught up with the head.                                       *)
(***************************************************************************)
EXTENDS TxPages, FiniteSetTheorems, TLAPS

-----------------------------------------------------------------------------
(* The lists of frames.                                                      *)

\* What a queue is after queue_push() and queue_pop().
LEMMA QueueOperations ==
  ASSUME NEW S, NEW q \in Seq(S)
  PROVE  /\ \A e \in S :
              /\ Append(q, e) \in Seq(S)
              /\ DOMAIN Append(q, e) = (DOMAIN q) \union {Len(q) + 1}
              /\ Len(q) + 1 \notin DOMAIN q
              /\ Append(q, e)[Len(q) + 1] = e
              /\ \A k \in DOMAIN q : Append(q, e)[k] = q[k]
         /\ q # <<>> =>
              /\ 1 \in DOMAIN q /\ Head(q) = q[1] /\ Head(q) \in S
              /\ Tail(q) \in Seq(S)
              /\ \A k \in DOMAIN Tail(q) : k + 1 \in DOMAIN q /\ k + 1 # 1 /\ Tail(q)[k] = q[k + 1]
              /\ \A k, l \in DOMAIN Tail(q) : k # l => k + 1 # l + 1
              /\ \A k \in DOMAIN q : k = 1 \/ \E l \in DOMAIN Tail(q) : k = l + 1
<1>1. ASSUME NEW e \in S
      PROVE  /\ Append(q, e) \in Seq(S)
             /\ DOMAIN Append(q, e) = (DOMAIN q) \union {Len(q) + 1}
             /\ Len(q) + 1 \notin DOMAIN q
             /\ Append(q, e)[Len(q) + 1] = e
             /\ \A k \in DOMAIN q : Append(q, e)[k] = q[k]
  OBVIOUS
<1>2. ASSUME q # <<>>
      PROVE  /\ 1 \in DOMAIN q /\ Head(q) = q[1] /\ Head(q) \in S
             /\ Tail(q) \in Seq(S)
             /\ \A k \in DOMAIN Tail(q) : k + 1 \in DOMAIN q /\ k + 1 # 1 /\ Tail(q)[k] = q[k + 1]
             /\ \A k, l \in DOMAIN Tail(q) : k # l => k + 1 # l + 1
             /\ \A k \in DOMAIN q : k = 1 \/ \E l \in DOMAIN Tail(q) : k = l + 1
  <2>1. /\ Len(q) \in Nat \ {0} /\ DOMAIN q = 1 .. Len(q) /\ Tail(q) \in Seq(S)
        /\ Len(Tail(q)) = Len(q) - 1 /\ DOMAIN Tail(q) = 1 .. Len(q) - 1
    BY <1>2
  <2>2. ASSUME NEW k \in DOMAIN q, k # 1
        PROVE  \E l \in DOMAIN Tail(q) : k = l + 1
    <3>1. k - 1 \in DOMAIN Tail(q) /\ k = (k - 1) + 1
      BY <2>1, <2>2
    <3> QED
      BY <3>1
  <2> QED
    BY <1>2, <2>2
<1> QED
  BY <1>1, <1>2

-----------------------------------------------------------------------------
(* The inductive invariant.                                                *)

Following(d) == IF d + 1 = DescCount THEN 0 ELSE d + 1

(* The device has yet to send descriptor d, and sends d before e.          *)
InRing(d) == IF TDH <= TDT THEN TDH <= d /\ d < TDT ELSE TDH <= d \/ d < TDT
Before(d, e) == \/ TDH <= d /\ e < TDH
                \/ (TDH <= d <=> TDH <= e) /\ d < e

(* The driver's tail is the register's but for the time between the two     *)
(* assignments, and the frame it has not handed over is in its descriptor.  *)
Tails ==
  /\ tx_tail = IF pc = "moved" THEN Following(TDT) ELSE TDT
  /\ pc # "idle" => called # 0 /\ desc[TDT] = called

(* The device's part of the ring holds frames that were handed over and are *)
(* newer than those on the wire, in order.                                  *)
Queued ==
  /\ \A k \in DOMAIN onWire : onWire[k] # 0 /\ onWire[k] <= Handed
  /\ \A d \in Descs : InRing(d) => desc[d] # 0 /\ desc[d] <= Handed
  /\ \A k \in DOMAIN onWire : \A d \in Descs : InRing(d) => onWire[k] < desc[d]
  /\ \A d, e \in Descs : InRing(d) /\ InRing(e) /\ Before(d, e) => desc[d] < desc[e]

TxInv == TypeOK /\ Tails /\ Queued /\ SentInOrder /\ NothingDropped

-----------------------------------------------------------------------------
(* The next place, without a remainder.                                     *)
LEMMA NextPlace ==
  ASSUME NEW d \in Descs
  PROVE  (d + 1) % DescCount = Following(d) /\ Following(d) \in Descs
<1>1. CASE d + 1 = DescCount
  BY <1>1, TxAssumption DEF Descs, Following
<1>2. CASE d + 1 # DescCount
  BY <1>2, TxAssumption DEF Descs, Following
<1> QED
  BY <1>1, <1>2

(* What is appended to a sequence, and what stays.                          *)
LEMMA Appended ==
  ASSUME NEW S, NEW s \in Seq(S), NEW e \in S
  PROVE  /\ Len(s) \in Nat /\ DOMAIN s = 1 .. Len(s) /\ \A k \in DOMAIN s : s[k] \in S
         /\ DOMAIN Append(s, e) = 1 .. Len(s) + 1
         /\ \A k \in DOMAIN s : Append(s, e)[k] = s[k]
         /\ Append(s, e)[Len(s) + 1] = e
  OBVIOUS

(* The first call finds an empty ring.                                      *)
LEMMA InitInv == Init => TxInv
<1> SUFFICES ASSUME Init PROVE TxInv
  OBVIOUS
<1>1. 0 \in Descs /\ Descs \subseteq Nat
  BY TxAssumption DEF Descs
<1>2. TypeOK
  BY <1>1, TxAssumption DEF Init, TypeOK
<1>3. DOMAIN onWire = {} /\ Handed = 0 /\ \A d \in Descs : ~InRing(d)
  BY <1>1 DEF Init, Handed, InRing
<1>4. Tails /\ Queued /\ SentInOrder
  BY <1>3 DEF Init, Tails, Queued, SentInOrder
<1>5. NothingDropped
  BY <1>3 DEF NothingDropped
<1> QED
  BY <1>2, <1>4, <1>5 DEF TxInv

(* Filling a descriptor touches none that the device has yet to send.       *)
LEMMA FillInv == TxInv /\ Fill => TxInv'
<1> SUFFICES ASSUME TxInv, Fill PROVE TxInv'
  OBVIOUS
<1> USE DEF TxInv
<1>1. /\ pc = "idle" /\ pc' = "filled" /\ called \in Nat /\ called' = called + 1 /\ called' \in 0 .. Frames
      /\ tx_tail = TDT /\ TDT \in Descs /\ TDH \in Descs /\ Descs \subseteq Nat
      /\ desc \in [Descs -> 0 .. Frames] /\ desc' = [desc EXCEPT ![TDT] = called + 1]
      /\ UNCHANGED <<tx_tail, TDT, TDH, onWire, lapped>>
  BY TxAssumption DEF Fill, Slot, TypeOK, Tails, Descs
<1>2. \A d \in Descs : desc'[d] = IF d = TDT THEN called + 1 ELSE desc[d]
  BY <1>1
<1>3. Handed' = Handed /\ Handed = called
  BY <1>1 DEF Handed
<1>4. \A d \in Descs : (InRing(d)' <=> InRing(d)) /\ (InRing(d) => d # TDT)
  BY <1>1 DEF InRing
<1>5. TypeOK'
  BY <1>1 DEF TypeOK
<1>6. Tails'
  BY <1>1, <1>2 DEF Tails, Following
<1>7. Queued'
  <2>1. \A d, e \in Descs : Before(d, e)' <=> Before(d, e)
    BY <1>1 DEF Before
  <2> QED
    BY <1>1, <1>2, <1>3, <1>4, <2>1 DEF Queued
<1>8. SentInOrder'
  BY <1>1 DEF SentInOrder
<1>9. NothingDropped'
  <2>1. \A frame : (OnWire(frame)' <=> OnWire(frame)) /\ (Pending(frame) => Pending(frame)')
    BY <1>1, <1>2, <1>4 DEF OnWire, Pending, InRing
  <2> QED
    BY <1>1, <1>3, <2>1 DEF NothingDropped
<1> QED
  BY <1>5, <1>6, <1>7, <1>8, <1>9

(* The driver's own tail is not the device's.                               *)
LEMMA MoveTailInv == TxInv /\ MoveTail => TxInv'
<1> SUFFICES ASSUME TxInv, MoveTail PROVE TxInv'
  OBVIOUS
<1> USE DEF TxInv
<1>1. /\ pc = "filled" /\ pc' = "moved" /\ tx_tail = TDT /\ TDT \in Descs
      /\ tx_tail' = Following(TDT) /\ tx_tail' \in Descs
      /\ UNCHANGED <<desc, TDT, TDH, called, onWire, lapped>>
  BY NextPlace DEF MoveTail, NextTail, Tails, TypeOK
<1>2. Handed' = Handed
  BY <1>1 DEF Handed
<1>3. TypeOK' /\ Tails'
  BY <1>1 DEF TypeOK, Tails, Following
<1>4. Queued'
  BY <1>1, <1>2 DEF Queued, InRing, Before
<1>5. SentInOrder' /\ NothingDropped'
  BY <1>1, <1>2 DEF SentInOrder, NothingDropped, OnWire, Pending
<1> QED
  BY <1>3, <1>4, <1>5

(* Writing the register hands the frame over behind the others, or, when    *)
(* the tail has caught up with the head, empties the ring.                  *)
LEMMA WriteTailInv == TxInv /\ WriteTail => TxInv'
<1> SUFFICES ASSUME TxInv, WriteTail PROVE TxInv'
  OBVIOUS
<1> USE DEF TxInv
<1>1. /\ pc = "moved" /\ pc' = "idle" /\ TDT \in Descs /\ TDH \in Descs /\ Descs \subseteq Nat
      /\ TDT' = Following(TDT) /\ tx_tail = Following(TDT) /\ TDT' \in Descs
      /\ called \in Nat /\ called # 0 /\ desc[TDT] = called /\ DescCount \in Nat
      /\ lapped' = (lapped \/ Following(TDT) = TDH)
      /\ UNCHANGED <<desc, tx_tail, TDH, called, onWire>>
  BY TxAssumption DEF WriteTail, TypeOK, Tails, Descs
<1>2. Handed = called - 1 /\ Handed' = called
  BY <1>1 DEF Handed
<1>3. TypeOK' /\ Tails'
  <2>1. lapped' \in BOOLEAN
    BY <1>1, Zenon DEF TypeOK
  <2> QED
    BY <1>1, <2>1 DEF TypeOK, Tails
<1>4. SentInOrder'
  BY <1>1 DEF SentInOrder
<1>5. /\ \A d \in Descs : d < DescCount
      /\ \A k \in DOMAIN onWire : onWire[k] \in 0 .. Frames
  <2>1. 0 \in 0 .. Frames
    BY TxAssumption
  <2> QED
    BY SMTT(30), <2>1, Appended, TxAssumption DEF Descs, TypeOK
<1>6. CASE Following(TDT) = TDH
  <2>1. \A d \in Descs : ~InRing(d)'
    BY <1>1, <1>6 DEF InRing
  <2>2. Queued'
    <3>1. \A k \in DOMAIN onWire' : onWire'[k] # 0 /\ onWire'[k] <= Handed'
      BY <1>1, <1>2, <1>5 DEF Queued
    <3> QED
      BY <2>1, <3>1 DEF Queued
  <2>3. NothingDropped'
    BY <1>1, <1>6 DEF NothingDropped
  <2> QED
    BY <1>3, <1>4, <2>2, <2>3
<1>7. CASE Following(TDT) # TDH
  <2>1. \A d \in Descs : InRing(d)' <=> InRing(d) \/ d = TDT
    BY <1>1, <1>5, <1>7 DEF InRing, Following
  <2>2. \A d \in Descs : InRing(d) => d # TDT /\ desc[d] < called /\ desc[d] \in Nat
    BY <1>1, <1>2 DEF InRing, Queued, TypeOK
  <2>3. \A d \in Descs : InRing(d) => ~Before(TDT, d)
    BY <1>1 DEF InRing, Before
  <2>4. \A k \in DOMAIN onWire : onWire[k] < called /\ onWire[k] \in Nat
    BY <1>1, <1>2, <1>5 DEF Queued
  <2>5. Queued'
    <3>1. \A k \in DOMAIN onWire' : onWire'[k] # 0 /\ onWire'[k] <= Handed'
      BY <1>1, <1>2, <2>4 DEF Queued
    <3>2. \A d \in Descs : InRing(d)' => desc'[d] # 0 /\ desc'[d] <= Handed'
      BY <1>1, <1>2, <2>1, <2>2 DEF Queued
    <3>3. \A k \in DOMAIN onWire' : \A d \in Descs : InRing(d)' => onWire'[k] < desc'[d]
      BY <1>1, <2>1, <2>4 DEF Queued
    <3>4. \A d, e \in Descs : InRing(d)' /\ InRing(e)' /\ Before(d, e)' => desc'[d] < desc'[e]
      <4>1. \A d, e \in Descs : Before(d, e)' <=> Before(d, e)
        BY <1>1 DEF Before
      <4>2. ~Before(TDT, TDT)
        BY <1>1 DEF Before
      <4> QED
        BY <1>1, <2>1, <2>2, <2>3, <4>1, <4>2 DEF Queued
    <3> QED
      BY <3>1, <3>2, <3>3, <3>4 DEF Queued
  <2>6. NothingDropped'
    <3> SUFFICES ASSUME ~lapped', NEW frame \in 1 .. called PROVE OnWire(frame)' \/ Pending(frame)'
      BY <1>2 DEF NothingDropped
    <3>1. CASE frame = called
      BY <1>1, <2>1, <3>1 DEF Pending, InRing
    <3>2. CASE frame # called
      <4>1. OnWire(frame) \/ Pending(frame)
        <5>1. ~lapped
          BY <1>1
        <5>2. frame \in 1 .. Handed
          BY <1>1, <1>2, <3>2
        <5> QED
          BY <5>1, <5>2 DEF NothingDropped
      <4> QED
        BY <1>1, <2>1, <4>1 DEF OnWire, Pending, InRing
    <3> QED
      BY <3>1, <3>2
  <2> QED
    BY <1>3, <1>4, <2>5, <2>6
<1> QED
  BY <1>6, <1>7

(* The device sends the oldest frame it has.                                *)
LEMMA TransmitInv == TxInv /\ Transmit => TxInv'
<1> SUFFICES ASSUME TxInv, Transmit PROVE TxInv'
  OBVIOUS
<1> USE DEF TxInv
<1>1. /\ TDH # TDT /\ TDT \in Descs /\ TDH \in Descs /\ Descs \subseteq Nat /\ DescCount \in Nat
      /\ TDH' = Following(TDH) /\ TDH' \in Descs
      /\ onWire' = Append(onWire, desc[TDH]) /\ onWire \in Seq(0 .. Frames) /\ desc[TDH] \in 0 .. Frames
      /\ UNCHANGED <<desc, tx_tail, TDT, pc, called, lapped>>
  BY SMTT(30), TxAssumption, NextPlace DEF Transmit, driver, TypeOK, Descs
<1>2. Handed' = Handed
  BY <1>1 DEF Handed
<1>3. \A d \in Descs : d < DescCount
  BY TxAssumption DEF Descs
<1>4. InRing(TDH) /\ \A d \in Descs : InRing(d)' <=> InRing(d) /\ d # TDH
  BY <1>1, <1>3 DEF InRing, Following
<1>5. \A d \in Descs : InRing(d) /\ d # TDH => Before(TDH, d)
  BY <1>1 DEF InRing, Before
<1>6. \A d, e \in Descs : InRing(d)' /\ InRing(e)' /\ Before(d, e)' => Before(d, e)
  BY <1>1, <1>3, <1>4 DEF InRing, Before, Following
<1>7. /\ DOMAIN onWire' = 1 .. Len(onWire) + 1 /\ DOMAIN onWire = 1 .. Len(onWire) /\ Len(onWire) \in Nat
      /\ \A k \in DOMAIN onWire : onWire'[k] = onWire[k] /\ onWire[k] \in Nat
      /\ onWire'[Len(onWire) + 1] = desc[TDH]
  <2>1. \A k \in DOMAIN onWire : onWire[k] \in 0 .. Frames
    BY <1>1, Appended
  <2> QED
    BY <1>1, <2>1, Appended, TxAssumption
<1>8. TypeOK'
  BY <1>1 DEF TypeOK
<1>9. Tails'
  BY <1>1 DEF Tails, Following
<1>10. \A k \in DOMAIN onWire' : k \in DOMAIN onWire \/ k = Len(onWire) + 1
  BY <1>7
<1>11. Queued'
  <2>1. \A k \in DOMAIN onWire' : onWire'[k] # 0 /\ onWire'[k] <= Handed'
    BY <1>1, <1>2, <1>4, <1>7, <1>10 DEF Queued
  <2>2. \A d \in Descs : InRing(d)' => desc'[d] # 0 /\ desc'[d] <= Handed'
    BY <1>1, <1>2, <1>4 DEF Queued
  <2>3. \A k \in DOMAIN onWire' : \A d \in Descs : InRing(d)' => onWire'[k] < desc'[d]
    BY <1>1, <1>4, <1>5, <1>7, <1>10 DEF Queued
  <2>4. \A d, e \in Descs : InRing(d)' /\ InRing(e)' /\ Before(d, e)' => desc'[d] < desc'[e]
    BY <1>1, <1>4, <1>6 DEF Queued
  <2> QED
    BY <2>1, <2>2, <2>3, <2>4 DEF Queued
<1>12. SentInOrder'
  <2>1. \A k \in DOMAIN onWire : onWire[k] < desc[TDH]
    BY <1>1, <1>4 DEF Queued
  <2>2. desc[TDH] # 0
    BY <1>1, <1>4 DEF Queued
  <2> QED
    BY <1>7, <1>10, <2>1, <2>2 DEF SentInOrder
<1>13. NothingDropped'
  <2> SUFFICES ASSUME ~lapped, NEW frame \in 1 .. Handed PROVE OnWire(frame)' \/ Pending(frame)'
    BY <1>1, <1>2 DEF NothingDropped
  <2>1. CASE OnWire(frame)
    BY <1>7, <2>1 DEF OnWire
  <2>2. CASE Pending(frame)
    <3>1. PICK d \in Descs : desc[d] = frame /\ InRing(d)
      BY <2>2 DEF Pending, InRing
    <3>2. CASE d = TDH
      BY <1>7, <3>1, <3>2 DEF OnWire
    <3>3. CASE d # TDH
      <4>1. InRing(d)' /\ desc'[d] = frame
        BY <1>1, <1>4, <3>1, <3>3
      <4> QED
        BY <4>1 DEF Pending, InRing
    <3> QED
      BY <3>2, <3>3
  <2> QED
    BY <2>1, <2>2 DEF NothingDropped
<1> QED
  BY <1>8, <1>9, <1>11, <1>12, <1>13

(* The invariant of the transmit ring holds for rings of every length.      *)
THEOREM TransmitInvariant == Spec => []TxInv
<1>1. Init => TxInv
  BY InitInv
<1>2. TxInv /\ [Next]_vars => TxInv'
  <2> SUFFICES ASSUME TxInv, UNCHANGED vars PROVE TxInv'
    BY FillInv, MoveTailInv, WriteTailInv, TransmitInv DEF Next, TxSend
  <2>1. UNCHANGED <<desc, tx_tail, TDT, TDH, pc, called, onWire, lapped>>
    BY DEF vars
  <2>2. TypeOK' /\ Tails'
    BY <2>1 DEF TxInv, TypeOK, Tails, Following
  <2>3. Queued'
    BY <2>1 DEF TxInv, Queued, InRing, Before, Handed
  <2>4. SentInOrder' /\ NothingDropped'
    BY <2>1 DEF TxInv, SentInOrder, NothingDropped, OnWire, Pending, Handed
  <2> QED
    BY <2>2, <2>3, <2>4 DEF TxInv
<1> QED
  BY <1>1, <1>2, PTL DEF Spec

(* The tail and the head stay on the ring (intel_8254xx.c:351).             *)
THEOREM TypeCorrect == Spec => []TypeOK
<1>1. TxInv => TypeOK
  BY DEF TxInv
<1> QED
  BY <1>1, TransmitInvariant, PTL

(* Frames leave in the order of the calls of tx_send, also after a lap, and *)
(* no frame handed to the device is dropped before the first lap.           *)
THEOREM FramesSentExactlyOnce == Spec => []SentExactlyOnce
<1>1. TxInv => SentExactlyOnce
  BY DEF TxInv, SentExactlyOnce
<1> QED
  BY <1>1, TransmitInvariant, PTL

(* What happens to the pages leaves the ring as it is.                      *)
THEOREM PagesKeepRing == TxPagesSpec => Spec
<1>1. TxPagesInit => Init
  BY DEF TxPagesInit
<1>2. [TxPagesNext]_txPagesVars => [Next]_vars
  BY DEF TxPagesNext, txPagesVars, Kwrite, PopMessage, CopyMessage, WrapOnly, FillFrame,
         OtherSendStep, SendFrame, TransmitFrame, Next, TxSend
<1> QED
  BY <1>1, <1>2, PTL DEF TxPagesSpec, Spec

(* So each frame is sent exactly once whatever becomes of its pages.        *)
THEOREM PagesSentExactlyOnce == TxPagesSpec => []SentExactlyOnce
  BY PagesKeepRing, FramesSentExactlyOnce, PTL

-----------------------------------------------------------------------------
(* The pages                                                               *)

QueueEntry == [entry : Pages, msg : Pages, buf : Pages]

EntryPages(q, k) == {q[k].entry, q[k].msg, q[k].buf}

(* The pages of the message the TX task has popped, and of the descriptors   *)
InHand == IF message = NoMessage THEN {} ELSE {message.msg, message.buf}
GivenOut == UNION {pageOf[d] : d \in Descs}

Apart(S, T) == S \cap T = {}

(* The inductive invariant of the pages: the queue, the TX task, the page    *)
(* that is filled and the descriptors have pages of their own.               *)
OwnersInv ==
  /\ ~misuse /\ queue \in Seq(QueueEntry) /\ pageOf \in [Descs -> SUBSET Pages]
  /\ free \subseteq Pages /\ InHand \subseteq Pages /\ wrap \subseteq Pages
  /\ Apart(free, InHand) /\ Apart(free, wrap) /\ Apart(free, GivenOut)
  /\ Apart(InHand, wrap) /\ Apart(InHand, GivenOut) /\ Apart(wrap, GivenOut)
  /\ \A k \in DOMAIN queue :
       /\ queue[k].entry \notin {queue[k].msg, queue[k].buf}
       /\ Apart(EntryPages(queue, k), free) /\ Apart(EntryPages(queue, k), InHand)
       /\ Apart(EntryPages(queue, k), wrap) /\ Apart(EntryPages(queue, k), GivenOut)
  /\ \A k, l \in DOMAIN queue : k # l => Apart(EntryPages(queue, k), EntryPages(queue, l))

(* What PagesOf() says of the message                                        *)
LEMMA HandPages == PagesOf(message) = InHand
  BY DEF PagesOf, InHand

(* Three calls of kalloc() give three pages.                                 *)
LEMMA ThreePages ==
  ASSUME free \subseteq Pages, Cardinality(free) >= 3,
         NEW b, NEW m, NEW e, b = APage(free), m = APage(free \ {b}), e = APage(free \ {b, m})
  PROVE  b \in free /\ m \in free \ {b} /\ e \in free \ {b, m}
<1>1. IsFiniteSet(free) /\ Cardinality(free) \in Nat
  BY TxPagesAssumption, FS_Subset, FS_CardinalityType
<1>2. free # {}
  BY FS_EmptySet
<1>3. b \in free
  BY <1>2 DEF APage
<1>4. IsFiniteSet(free \ {b}) /\ Cardinality(free \ {b}) = Cardinality(free) - 1
  BY <1>1, <1>3, FS_RemoveElement
<1>5. free \ {b} # {}
  BY <1>1, <1>4, FS_EmptySet
<1>6. m \in free \ {b}
  BY <1>5 DEF APage
<1>7. Cardinality((free \ {b}) \ {m}) = Cardinality(free \ {b}) - 1
  BY <1>4, <1>6, FS_RemoveElement
<1>8. (free \ {b}) \ {m} # {}
  BY <1>1, <1>4, <1>7, FS_EmptySet
<1>9. free \ {b, m} # {}
  BY <1>8
<1> QED
  BY <1>3, <1>6, <1>9 DEF APage

(* The pages at first                                                        *)
LEMMA OwnersInitInv == TxPagesInit => OwnersInv
<1> SUFFICES ASSUME TxPagesInit PROVE OwnersInv
  OBVIOUS
<1>1. InHand = {} /\ GivenOut = {} /\ wrap = {} /\ queue = <<>> /\ free = Pages /\ ~misuse
  BY DEF TxPagesInit, InHand, GivenOut
<1>2. pageOf \in [Descs -> SUBSET Pages]
  BY DEF TxPagesInit
<1> QED
  BY <1>1, <1>2 DEF OwnersInv, Apart

(* kwrite() takes three free pages.                                          *)
LEMMA KwriteInv == OwnersInv /\ Kwrite => OwnersInv'
<1> SUFFICES ASSUME OwnersInv, Kwrite PROVE OwnersInv'
  OBVIOUS
<1>1. PICK b, m, e : b = APage(free) /\ m = APage(free \ {b}) /\ e = APage(free \ {b, m})
  OBVIOUS
<1> DEFINE new == [entry |-> e, msg |-> m, buf |-> b]
<1>2. b \in free /\ m \in free \ {b} /\ e \in free \ {b, m}
  BY <1>1, ThreePages DEF OwnersInv, Kwrite
<1>3. /\ queue' = Append(queue, new) /\ free' = free \ {b, m, e}
      /\ message' = message /\ wrap' = wrap /\ pageOf' = pageOf /\ misuse' = misuse
  BY <1>1 DEF Kwrite
<1>4. InHand' = InHand /\ GivenOut' = GivenOut
  BY <1>3 DEF InHand, GivenOut
<1>5. new \in QueueEntry /\ queue \in Seq(QueueEntry)
  BY <1>2 DEF OwnersInv, QueueEntry
<1>6. /\ queue' \in Seq(QueueEntry) /\ DOMAIN queue' = (DOMAIN queue) \union {Len(queue) + 1}
      /\ Len(queue) + 1 \notin DOMAIN queue /\ queue'[Len(queue) + 1] = new
      /\ \A k \in DOMAIN queue : queue'[k] = queue[k]
  BY <1>3, <1>5, QueueOperations
<1>7. /\ EntryPages(queue', Len(queue) + 1) = {e, m, b}
      /\ \A k \in DOMAIN queue : EntryPages(queue', k) = EntryPages(queue, k)
  BY <1>6 DEF EntryPages
<1>8. ASSUME NEW k \in DOMAIN queue'
      PROVE  /\ queue'[k].entry \notin {queue'[k].msg, queue'[k].buf}
             /\ Apart(EntryPages(queue', k), free') /\ Apart(EntryPages(queue', k), InHand')
             /\ Apart(EntryPages(queue', k), wrap') /\ Apart(EntryPages(queue', k), GivenOut')
  <2>1. CASE k \in DOMAIN queue
    BY <2>1, <1>3, <1>4, <1>6, <1>7 DEF OwnersInv, Apart
  <2>2. CASE k = Len(queue) + 1
    BY <2>2, <1>2, <1>3, <1>4, <1>6, <1>7 DEF OwnersInv, Apart
  <2> QED
    BY <1>6, <2>1, <2>2
<1>9. ASSUME NEW k \in DOMAIN queue', NEW l \in DOMAIN queue', k # l
      PROVE  Apart(EntryPages(queue', k), EntryPages(queue', l))
  <2>1. CASE k \in DOMAIN queue /\ l \in DOMAIN queue
    BY <2>1, <1>7, <1>9 DEF OwnersInv
  <2>2. CASE k = Len(queue) + 1 /\ l \in DOMAIN queue
    BY <2>2, <1>2, <1>7 DEF OwnersInv, Apart
  <2>3. CASE l = Len(queue) + 1 /\ k \in DOMAIN queue
    BY <2>3, <1>2, <1>7 DEF OwnersInv, Apart
  <2> QED
    BY <1>6, <1>9, <2>1, <2>2, <2>3
<1> QED
  BY <1>3, <1>4, <1>6, <1>8, <1>9 DEF OwnersInv, Apart

(* The TX task takes the first message and a page for the frame, which may   *)
(* be the one of the queue's entry.                                          *)
LEMMA PopMessageInv == OwnersInv /\ message = NoMessage /\ PopMessage => OwnersInv'
<1> SUFFICES ASSUME OwnersInv, message = NoMessage, PopMessage PROVE OwnersInv'
  OBVIOUS
<1> DEFINE first == queue[1]
           left == free \union {first.entry}
<1>1. queue \in Seq(QueueEntry) /\ queue # <<>>
  BY DEF OwnersInv, PopMessage
<1>2. /\ 1 \in DOMAIN queue /\ Head(queue) = first /\ first \in QueueEntry
      /\ Tail(queue) \in Seq(QueueEntry)
      /\ \A k \in DOMAIN Tail(queue) :
           k + 1 \in DOMAIN queue /\ k + 1 # 1 /\ Tail(queue)[k] = queue[k + 1]
      /\ \A k, l \in DOMAIN Tail(queue) : k # l => k + 1 # l + 1
  BY <1>1, QueueOperations
<1>3. /\ queue' = Tail(queue) /\ message' = [msg |-> first.msg, buf |-> first.buf]
      /\ wrap = {} /\ wrap' = {APage(left)} /\ free' = left \ wrap' /\ pageOf' = pageOf
      /\ misuse' = (misuse \/ {first.entry} \cap free # {})
  BY <1>2 DEF PopMessage, Uses
<1>4. APage(left) \in left
  BY DEF APage
<1>5. wrap' \subseteq left /\ free' \subseteq left /\ Apart(free', wrap')
  BY <1>3, <1>4 DEF Apart
<1> HIDE DEF left
<1>6. left = free \union {first.entry}
  BY DEF left
<1>7. GivenOut' = GivenOut /\ InHand' \subseteq {first.msg, first.buf}
  BY <1>3 DEF GivenOut, InHand
<1>8. EntryPages(queue, 1) = {first.entry, first.msg, first.buf}
      /\ first.entry \notin {first.msg, first.buf} /\ EntryPages(queue, 1) \subseteq Pages
  BY <1>2 DEF EntryPages, OwnersInv, QueueEntry
<1>9. Apart(EntryPages(queue, 1), free) /\ Apart(EntryPages(queue, 1), GivenOut)
  BY <1>2 DEF OwnersInv
<1>10. \A k \in DOMAIN queue' : EntryPages(queue', k) = EntryPages(queue, k + 1)
  BY <1>2, <1>3 DEF EntryPages
<1>11. ASSUME NEW k \in DOMAIN queue'
      PROVE  /\ queue'[k].entry \notin {queue'[k].msg, queue'[k].buf}
             /\ Apart(EntryPages(queue', k), free') /\ Apart(EntryPages(queue', k), InHand')
             /\ Apart(EntryPages(queue', k), wrap') /\ Apart(EntryPages(queue', k), GivenOut')
  <2>1. k + 1 \in DOMAIN queue /\ k + 1 # 1 /\ queue'[k] = queue[k + 1]
    BY <1>2, <1>3
  <2>2. Apart(EntryPages(queue, k + 1), EntryPages(queue, 1))
    BY <1>2, <2>1 DEF OwnersInv
  <2>3. /\ queue[k + 1].entry \notin {queue[k + 1].msg, queue[k + 1].buf}
        /\ Apart(EntryPages(queue, k + 1), free) /\ Apart(EntryPages(queue, k + 1), GivenOut)
    BY <2>1 DEF OwnersInv
  <2> QED
    BY <1>5, <1>6, <1>7, <1>8, <1>10, <2>1, <2>2, <2>3 DEF Apart
<1>12. ASSUME NEW k \in DOMAIN queue', NEW l \in DOMAIN queue', k # l
      PROVE  Apart(EntryPages(queue', k), EntryPages(queue', l))
  <2>1. k + 1 \in DOMAIN queue /\ l + 1 \in DOMAIN queue /\ k + 1 # l + 1
    BY <1>2, <1>3, <1>12
  <2> QED
    BY <1>10, <2>1 DEF OwnersInv
<1>13. ~misuse' /\ free' \subseteq Pages /\ InHand' \subseteq Pages /\ wrap' \subseteq Pages
  BY <1>3, <1>5, <1>6, <1>7, <1>8, <1>9 DEF OwnersInv, Apart
<1>14. /\ Apart(free', InHand') /\ Apart(free', wrap') /\ Apart(free', GivenOut')
       /\ Apart(InHand', wrap') /\ Apart(InHand', GivenOut') /\ Apart(wrap', GivenOut')
  BY <1>5, <1>6, <1>7, <1>8, <1>9 DEF OwnersInv, Apart
<1> QED
  BY <1>2, <1>3, <1>11, <1>12, <1>13, <1>14 DEF OwnersInv

(* What else the TX task and the device do leaves the queue.                 *)
LEMMA TaskStepInv ==
  TypeOK /\ OwnersInv
    /\ (\/ CopyMessage \/ WrapOnly \/ FillFrame \/ OtherSendStep \/ SendFrame \/ TransmitFrame
        \/ UNCHANGED txPagesVars)
    => OwnersInv'
<1> SUFFICES ASSUME TypeOK, OwnersInv,
                    \/ CopyMessage \/ WrapOnly \/ FillFrame \/ OtherSendStep \/ SendFrame
                    \/ TransmitFrame \/ UNCHANGED txPagesVars
             PROVE  OwnersInv'
  OBVIOUS
<1>1. queue' = queue
  BY DEF CopyMessage, WrapOnly, FillFrame, OtherSendStep, SendFrame, TransmitFrame, txPagesVars,
         pageVars
<1>2. \A k : EntryPages(queue, k)' = EntryPages(queue, k)
  BY <1>1 DEF EntryPages
<1>3. CASE CopyMessage
  <2>1. /\ free' = free \union InHand /\ message' = NoMessage /\ wrap' = wrap /\ pageOf' = pageOf
        /\ misuse' = (misuse \/ (InHand \union wrap) \cap free # {})
    BY <1>3, HandPages DEF CopyMessage, Uses
  <2>2. InHand' = {} /\ GivenOut' = GivenOut
    BY <2>1 DEF InHand, GivenOut
  <2> QED
    BY <1>1, <1>2, <2>1, <2>2 DEF OwnersInv, Apart
<1>4. CASE WrapOnly
  <2>1. /\ wrap' = {APage(free)} /\ free' = free \ wrap' /\ APage(free) \in free
        /\ message' = message /\ pageOf' = pageOf /\ misuse' = misuse
    BY <1>4 DEF WrapOnly, APage
  <2>2. InHand' = InHand /\ GivenOut' = GivenOut
    BY <2>1 DEF InHand, GivenOut
  <2>3. wrap' \subseteq free /\ free' \subseteq free /\ Apart(free', wrap')
    BY <2>1 DEF Apart
  <2> QED
    BY <1>1, <1>2, <2>1, <2>2, <2>3 DEF OwnersInv, Apart
<1>5. CASE FillFrame
  <2>1. /\ pageOf' = [pageOf EXCEPT ![Slot] = wrap] /\ wrap' = {} /\ free' = free
        /\ message' = message /\ misuse' = (misuse \/ wrap \cap free # {})
    BY <1>5 DEF FillFrame, Uses
  <2>2. /\ pageOf' \in [Descs -> SUBSET Pages]
        /\ \A d \in Descs : pageOf'[d] = pageOf[d] \/ pageOf'[d] = wrap
    BY <2>1 DEF OwnersInv
  <2>3. InHand' = InHand /\ GivenOut' \subseteq GivenOut \union wrap
    BY <2>1, <2>2 DEF InHand, GivenOut
  <2> QED
    BY <1>1, <1>2, <2>1, <2>2, <2>3 DEF OwnersInv, Apart
<1>6. CASE TransmitFrame
  <2>1. /\ pageOf' = pageOf /\ wrap' = wrap /\ free' = free /\ message' = message
        /\ misuse' = (misuse \/ pageOf[TDH] \cap free # {})
    BY <1>6 DEF TransmitFrame, Uses
  <2>2. pageOf[TDH] \subseteq GivenOut
    BY DEF TypeOK, GivenOut
  <2>3. InHand' = InHand /\ GivenOut' = GivenOut
    BY <2>1 DEF InHand, GivenOut
  <2> QED
    BY <1>1, <1>2, <2>1, <2>2, <2>3 DEF OwnersInv, Apart
<1>7. CASE OtherSendStep \/ SendFrame \/ UNCHANGED txPagesVars
  <2>1. /\ pageOf' = pageOf /\ wrap' = wrap /\ free' = free /\ message' = message
        /\ misuse' = misuse
    BY <1>7 DEF OtherSendStep, SendFrame, txPagesVars, pageVars
  <2>2. InHand' = InHand /\ GivenOut' = GivenOut
    BY <2>1 DEF InHand, GivenOut
  <2> QED
    BY <1>1, <1>2, <2>1, <2>2 DEF OwnersInv, Apart
<1> QED
  BY <1>3, <1>4, <1>5, <1>6, <1>7

(* The TX task holds a message only with the page for its frame, that is one *)
(* page, and the pages nobody has are those of the frames.                   *)
Lost == Pages \ (free \union InUse)

LeakInv ==
  /\ TypeOK /\ OwnersInv
  /\ message # NoMessage => wrap # {}
  /\ wrap = {} \/ \E p \in Pages : wrap = {p}
  /\ Cardinality(Lost) = called

(* The pages in use, by owner                                                *)
LEMMA UsedPages ==
  /\ InUse = QueuePages \union InHand \union wrap
  /\ InUse' = QueuePages' \union InHand' \union wrap'
<1>1. PagesOf(message)' = InHand'
  BY DEF PagesOf, InHand
<1> QED
  BY <1>1, HandPages DEF InUse

(* The pages in the queue after a push and a pop                             *)
LEMMA QueuePagesAfter ==
  ASSUME OwnersInv
  PROVE  /\ \A new \in QueueEntry : queue' = Append(queue, new)
              => QueuePages' = QueuePages \union {new.entry, new.msg, new.buf}
         /\ queue # <<>> /\ queue' = Tail(queue)
              => QueuePages = QueuePages' \union {queue[1].entry, queue[1].msg, queue[1].buf}
<1>1. ASSUME NEW new \in QueueEntry, queue' = Append(queue, new)
      PROVE  QueuePages' = QueuePages \union {new.entry, new.msg, new.buf}
  <2>1. /\ DOMAIN queue' = (DOMAIN queue) \union {Len(queue) + 1}
        /\ queue'[Len(queue) + 1] = new /\ \A k \in DOMAIN queue : queue'[k] = queue[k]
    BY <1>1, QueueOperations DEF OwnersInv
  <2> QED
    BY <2>1 DEF QueuePages
<1>2. ASSUME queue # <<>>, queue' = Tail(queue)
      PROVE  QueuePages = QueuePages' \union {queue[1].entry, queue[1].msg, queue[1].buf}
  <2>1. /\ 1 \in DOMAIN queue
        /\ \A k \in DOMAIN queue' : k + 1 \in DOMAIN queue /\ queue'[k] = queue[k + 1]
        /\ \A k \in DOMAIN queue : k = 1 \/ \E l \in DOMAIN queue' : k = l + 1
    BY <1>2, QueueOperations DEF OwnersInv
  <2>2. QueuePages' \subseteq QueuePages
    BY <2>1 DEF QueuePages
  <2>3. {queue[1].entry, queue[1].msg, queue[1].buf} \subseteq QueuePages
    BY <2>1 DEF QueuePages
  <2>4. ASSUME NEW k \in DOMAIN queue
        PROVE  {queue[k].entry, queue[k].msg, queue[k].buf}
                 \subseteq QueuePages' \union {queue[1].entry, queue[1].msg, queue[1].buf}
    <3>1. CASE k = 1
      BY <3>1
    <3>2. CASE k # 1
      <4>1. PICK l \in DOMAIN queue' : k = l + 1
        BY <2>1, <3>2
      <4>2. queue'[l] = queue[k]
        BY <2>1, <4>1
      <4> QED
        BY <4>1, <4>2 DEF QueuePages
    <3> QED
      BY <3>1, <3>2
  <2>5. QueuePages \subseteq QueuePages' \union {queue[1].entry, queue[1].msg, queue[1].buf}
    BY <2>4 DEF QueuePages
  <2> QED
    BY <2>2, <2>3, <2>5
<1> QED
  BY <1>1, <1>2

(* Only the page of a frame that is filled is lost.                          *)
LEMMA FrameLeaks == LeakInv /\ FillFrame => Lost' = Lost \union wrap /\ Apart(Lost, wrap)
<1> SUFFICES ASSUME LeakInv, FillFrame PROVE Lost' = Lost \union wrap /\ Apart(Lost, wrap)
  OBVIOUS
<1>1. /\ message = NoMessage /\ message' = NoMessage /\ wrap' = {} /\ free' = free /\ queue' = queue
  BY DEF FillFrame
<1>2. InHand = {} /\ InHand' = {} /\ QueuePages' = QueuePages
  BY <1>1 DEF InHand, QueuePages
<1>3. InUse = QueuePages \union wrap /\ InUse' = QueuePages
  <2>1. InUse' = QueuePages' \union InHand' \union wrap'
    BY UsedPages
  <2> QED
    BY <1>1, <1>2, <2>1, UsedPages
<1>4. Apart(QueuePages, wrap) /\ Apart(free, wrap) /\ wrap \subseteq Pages
  BY DEF LeakInv, OwnersInv, QueuePages, EntryPages, Apart
<1> QED
  BY <1>1, <1>3, <1>4 DEF Lost, Apart

(* What any other step gives up another owner gets.                          *)
LEMMA NothingElseLeaks ==
  ASSUME LeakInv,
         \/ Kwrite \/ PopMessage \/ CopyMessage \/ WrapOnly \/ OtherSendStep \/ SendFrame
         \/ TransmitFrame \/ UNCHANGED txPagesVars
  PROVE  Lost' = Lost
<1>1. InUse = QueuePages \union InHand \union wrap /\ InUse' = QueuePages' \union InHand' \union wrap'
  BY UsedPages
<1>2. CASE Kwrite
  <2>1. PICK b, m, e : b = APage(free) /\ m = APage(free \ {b}) /\ e = APage(free \ {b, m})
    OBVIOUS
  <2>2. b \in free /\ m \in free /\ e \in free
    BY <1>2, <2>1, ThreePages DEF LeakInv, OwnersInv, Kwrite
  <2>3. /\ queue' = Append(queue, [entry |-> e, msg |-> m, buf |-> b]) /\ free' = free \ {b, m, e}
        /\ message' = message /\ wrap' = wrap
    BY <1>2, <2>1 DEF Kwrite
  <2>4. [entry |-> e, msg |-> m, buf |-> b] \in QueueEntry
    BY <2>2 DEF LeakInv, OwnersInv, QueueEntry
  <2>5. QueuePages' = QueuePages \union {e, m, b}
    BY <2>3, <2>4, QueuePagesAfter DEF LeakInv
  <2>6. InHand' = InHand
    BY <2>3 DEF InHand
  <2> QED
    BY <1>1, <2>2, <2>3, <2>5, <2>6 DEF Lost
<1>3. CASE PopMessage
  <2> DEFINE first == queue[1]
             left  == free \union {first.entry}
  <2>1. queue # <<>> /\ queue \in Seq(QueueEntry) /\ queue' = Tail(queue)
    BY <1>3 DEF PopMessage, LeakInv, OwnersInv
  <2>2. Head(queue) = first
    BY <2>1, QueueOperations
  <2>3. /\ wrap = {} /\ message = NoMessage /\ message' = [msg |-> first.msg, buf |-> first.buf]
        /\ wrap' = {APage(left)} /\ free' = left \ wrap' /\ APage(left) \in left
    BY <1>3, <2>2 DEF PopMessage, LeakInv, APage
  <2>4. free' \union wrap' = free \union {first.entry}
    BY <2>3
  <2>5. InHand = {} /\ InHand' = {first.msg, first.buf}
    <3>1. [msg |-> first.msg, buf |-> first.buf] # <<>>
      OBVIOUS
    <3> QED
      BY <2>3, <3>1 DEF InHand, NoMessage
  <2>6. QueuePages = QueuePages' \union {first.entry, first.msg, first.buf}
    BY <2>1, QueuePagesAfter DEF LeakInv
  <2> HIDE DEF left
  <2> QED
    BY <1>1, <2>3, <2>4, <2>5, <2>6 DEF Lost
<1>4. CASE CopyMessage
  <2>1. free' = free \union InHand /\ message' = NoMessage /\ wrap' = wrap /\ queue' = queue
    BY <1>4, HandPages DEF CopyMessage
  <2>2. InHand' = {} /\ QueuePages' = QueuePages
    BY <2>1 DEF InHand, QueuePages
  <2> QED
    BY <1>1, <2>1, <2>2 DEF Lost
<1>5. CASE WrapOnly
  <2>1. /\ wrap = {} /\ wrap' = {APage(free)} /\ free' = free \ wrap' /\ APage(free) \in free
        /\ message' = message /\ queue' = queue
    BY <1>5 DEF WrapOnly, APage
  <2>2. InHand' = InHand /\ QueuePages' = QueuePages /\ free' \union wrap' = free
    BY <2>1 DEF InHand, QueuePages
  <2> QED
    BY <1>1, <2>1, <2>2 DEF Lost
<1>6. CASE OtherSendStep \/ SendFrame \/ TransmitFrame \/ UNCHANGED txPagesVars
  <2>1. free' = free /\ wrap' = wrap /\ queue' = queue /\ message' = message
    BY <1>6 DEF OtherSendStep, SendFrame, TransmitFrame, txPagesVars, pageVars
  <2> QED
    BY <2>1 DEF Lost, InUse, QueuePages, PagesOf
<1> QED
  BY <1>2, <1>3, <1>4, <1>5, <1>6

(* The invariant of the pages is kept by every step.                         *)
LEMMA LeakInvStep == LeakInv /\ TypeOK' /\ [TxPagesNext]_txPagesVars => LeakInv'
<1> SUFFICES ASSUME LeakInv, TypeOK', [TxPagesNext]_txPagesVars PROVE LeakInv'
  OBVIOUS
<1>1. OwnersInv'
  <2>1. CASE PopMessage
    BY <2>1, PopMessageInv DEF PopMessage, LeakInv
  <2> QED
    BY <2>1, KwriteInv, TaskStepInv DEF TxPagesNext, LeakInv
<1>2. /\ (message # NoMessage => wrap # {})'
      /\ (wrap = {} \/ \E p \in Pages : wrap = {p})'
  <2>1. CASE PopMessage
    <3>1. wrap' = {APage(free \union {Head(queue).entry})} /\ wrap' \subseteq Pages
      BY <2>1, <1>1 DEF PopMessage, OwnersInv
    <3> QED
      BY <3>1
  <2>2. CASE WrapOnly
    <3>1. wrap' = {APage(free)} /\ wrap' \subseteq Pages
      BY <2>2, <1>1 DEF WrapOnly, OwnersInv
    <3> QED
      BY <3>1
  <2>3. CASE FillFrame \/ CopyMessage
    BY <2>3 DEF FillFrame, CopyMessage, LeakInv
  <2>4. CASE Kwrite \/ OtherSendStep \/ SendFrame \/ TransmitFrame \/ UNCHANGED txPagesVars
    BY <2>4 DEF Kwrite, OtherSendStep, SendFrame, TransmitFrame, txPagesVars, pageVars, LeakInv
  <2> QED
    BY <2>1, <2>2, <2>3, <2>4 DEF TxPagesNext
<1>3. (Cardinality(Lost) = called)'
  <2>1. CASE FillFrame
    <3>1. called' = called + 1 /\ wrap # {}
      BY <2>1 DEF FillFrame, Fill
    <3>2. PICK p \in Pages : wrap = {p}
      BY <3>1 DEF LeakInv
    <3>3. Lost' = Lost \union {p} /\ p \notin Lost
      BY <2>1, <3>2, FrameLeaks DEF Apart
    <3>4. IsFiniteSet(Lost)
      BY TxPagesAssumption, FS_Subset DEF Lost
    <3>5. Cardinality(Lost \union {p}) = Cardinality(Lost) + 1
      BY <3>3, <3>4, FS_AddElement
    <3> QED
      BY <3>1, <3>3, <3>5 DEF LeakInv
  <2>2. CASE ~FillFrame
    <3>1. called' = called
      BY <2>2 DEF TxPagesNext, Kwrite, PopMessage, CopyMessage, WrapOnly, OtherSendStep, MoveTail,
                  SendFrame, WriteTail, TransmitFrame, Transmit, driver, txPagesVars, vars
    <3>2. Lost' = Lost
      BY <2>2, NothingElseLeaks DEF TxPagesNext
    <3> QED
      BY <3>1, <3>2 DEF LeakInv
  <2> QED
    BY <2>1, <2>2
<1> QED
  BY <1>1, <1>2, <1>3 DEF LeakInv

(* No page of a message or of a frame the device still has to send is used   *)
(* by anyone else, and exactly the pages of the frames never come back, for  *)
(* any heap, ring and interleaving of kwrite(), the TX task and the device.  *)
THEOREM PagesAreAccounted == TxPagesSpec => []PagesAccounted
<1>1. TxPagesInit => LeakInv
  <2> SUFFICES ASSUME TxPagesInit PROVE LeakInv
    OBVIOUS
  <2>1. Lost = {} /\ called = 0 /\ wrap = {} /\ message = NoMessage
    BY DEF TxPagesInit, Init, Lost
  <2>2. TypeOK
    BY InitInv DEF TxPagesInit, TxInv
  <2> QED
    BY <2>1, <2>2, OwnersInitInv, FS_EmptySet DEF LeakInv
<1>2. TxPagesSpec => []TypeOK
  BY PagesKeepRing, TypeCorrect, PTL
<1>3. LeakInv => PagesAccounted
  <2> SUFFICES ASSUME LeakInv PROVE PagesAccounted
    OBVIOUS
  <2>1. Apart(QueuePages, free) /\ Apart(QueuePages, GivenOut)
    BY DEF LeakInv, OwnersInv, QueuePages, EntryPages, Apart
  <2>2. Apart(InUse, free) /\ Apart(InUse \union free, GivenOut)
    BY <2>1, UsedPages DEF LeakInv, OwnersInv, Apart
  <2>3. \A d \in Unsent : pageOf[d] \subseteq GivenOut
    BY DEF Unsent, GivenOut
  <2>4. NoPageReused
    BY <2>2, <2>3 DEF NoPageReused, LeakInv, OwnersInv, Apart
  <2> QED
    BY <2>4 DEF PagesAccounted, FramesKeepPages, LeakInv, Lost
<1> QED
  BY <1>1, <1>2, <1>3, LeakInvStep, PTL DEF TxPagesSpec
=============================================================================
