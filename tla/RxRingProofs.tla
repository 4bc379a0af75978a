----------------------------- MODULE RxRingProofs -----------------------------
(***************************************************************************)
(* Proofs about RxRing for rings of any length and any number of frames:   *)
(* a frame is sorted at most once, even while the device overruns the      *)
(* driver, and none is lost before it does.                                *)
(***************************************************************************)
EXTENDS RxPages, FiniteSetTheorems, TLAPS

-----------------------------------------------------------------------------
(* The lists of frames.                                                      *)

\* What a queue is after queue_push() and queue_pop().
LEMMA QueueOperations ==
  ASSUME NEW S, NEW q \in Seq(S)
  PROVE  /\ \A e \in S :
              /\ Append(q, e) \in Seq(S)
              /\ DOMAIN Append(q, e) = (DOMAIN q) \union {Len(q) + 1}
              /\ Len(q) + 1 \notin DOMAIN q
              /\ Append(q, e)[Len(q) + 1] = e
              /\ \A k \in DOMAIN q : Append(q, e)[k] = q[k]
         /\ q # <<>> =>
              /\ 1 \in DOMAIN q /\ Head(q) = q[1] /\ Head(q) \in S
              /\ Tail(q) \in Seq(S)
              /\ \A k \in DOMAIN Tail(q) : k + 1 \in DOMAIN q /\ k + 1 # 1 /\ Tail(q)[k] = q[k + 1]
              /\ \A k, l \in DOMAIN Tail(q) : k # l => k + 1 # l + 1
              /\ \A k \in DOMAIN q : k = 1 \/ \E l \in DOMAIN Tail(q) : k = l + 1
<1>1. ASSUME NEW e \in S
      PROVE  /\ Append(q, e) \in Seq(S)
             /\ DOMAIN Append(q, e) = (DOMAIN q) \union {Len(q) + 1}
             /\ Len(q) + 1 \notin DOMAIN q
             /\ Append(q, e)[Len(q) + 1] = e
             /\ \A k \in DOMAIN q : Append(q, e)[k] = q[k]
  OBVIOUS
<1>2. ASSUME q # <<>>
      PROVE  /\ 1 \in DOMAIN q /\ Head(q) = q[1] /\ Head(q) \in S
             /\ Tail(q) \in Seq(S)
             /\ \A k \in DOMAIN Tail(q) : k + 1 \in DOMAIN q /\ k + 1 # 1 /\ Tail(q)[k] = q[k + 1]
             /\ \A k, l \in DOMAIN Tail(q) : k # l => k + 1 # l + 1
             /\ \A k \in DOMAIN q : k = 1 \/ \E l \in DOMAIN Tail(q) : k = l + 1
  <2>1. /\ Len(q) \in Nat \ {0} /\ DOMAIN q = 1 .. Len(q) /\ Tail(q) \in Seq(S)
        /\ Len(Tail(q)) = Len(q) - 1 /\ DOMAIN Tail(q) = 1 .. Len(q) - 1
    BY <1>2
  <2>2. ASSUME NEW k \in DOMAIN q, k # 1
        PROVE  \E l \in DOMAIN Tail(q) : k = l + 1
    <3>1. k - 1 \in DOMAIN Tail(q) /\ k = (k - 1) + 1
      BY <2>1, <2>2
    <3> QED
      BY <3>1
  <2> QED
    BY <1>2, <2>2
<1> QED
  BY <1>1, <1>2

-----------------------------------------------------------------------------
(* The inductive invariant.                                                *)

(* A descriptor with its status set holds a frame; the frames in the ring  *)
(* have arrived and differ.                                                *)
Buffers ==
  /\ \A d \in Descs : buf[d] <= arrived
  /\ \A d \in Descs : dd[d] => buf[d] # 0
  /\ \A d, e \in Descs : d # e /\ buf[d] # 0 => buf[d] # buf[e]

(* The driver works on a descriptor whose status is set.                    *)
Working == pc # "test" => dd[i]

(* What was sorted has arrived and is not in the ring for the driver to     *)
(* find.                                                                    *)
SortedIsOver ==
  /\ \A k \in DOMAIN sorted : sorted[k] <= arrived
  /\ \A k \in DOMAIN sorted : \A d \in Descs : dd[d] /\ sorted[k] = buf[d] => d = i /\ pc = "clear"

(* The copied frame is not sorted yet and in no other descriptor.           *)
Copied ==
  pc = "sort" =>
    /\ msg # 0 /\ msg <= arrived
    /\ \A k \in DOMAIN sorted : sorted[k] # msg
    /\ \A d \in Descs \ {i} : buf[d] # msg

(* Without an overrun the device has not touched the descriptor since.      *)
Untouched == ~overrun /\ pc \in {"sort", "clear"} => buf[i] = msg

RingInv ==
  /\ TypeOK /\ Buffers /\ Working /\ SortedIsOver /\ Copied /\ Untouched
  /\ SortedOnce /\ NothingLost

-----------------------------------------------------------------------------
(* The next descriptor is one.                                              *)
LEMMA FollowingIsDesc ==
  ASSUME NEW d \in Descs
  PROVE  Following(d) \in Descs
  BY RxAssumption DEF Following, Descs

(* The first descriptor is one.                                             *)
LEMMA ZeroIsDesc == 0 \in Descs
  BY RxAssumption DEF Descs

(* The elements of a sequence are in its set.                               *)
LEMMA Elements ==
  ASSUME NEW S, NEW s \in Seq(S)
  PROVE  \A k \in DOMAIN s : s[k] \in S
  OBVIOUS

(* An empty ring.                                                           *)
LEMMA InitInv == Init => RingInv
<1> SUFFICES ASSUME Init PROVE RingInv
  OBVIOUS
<1>1. TypeOK
  BY ZeroIsDesc, RxAssumption DEF Init, TypeOK
<1>2. DOMAIN sorted = {} /\ 1 .. arrived = {}
  BY DEF Init
<1>3. Buffers /\ Working /\ SortedIsOver /\ Copied /\ Untouched
  BY <1>2 DEF Init, Buffers, Working, SortedIsOver, Copied, Untouched
<1>4. SortedOnce /\ NothingLost
  BY <1>2 DEF SortedOnce, NothingLost
<1> QED
  BY <1>1, <1>3, <1>4 DEF RingInv

(* A new frame is none of those in the ring or sorted before; it destroys   *)
(* one only when the descriptor was not free.                               *)
LEMMA ReceiveInv == RingInv /\ Receive => RingInv'
<1> SUFFICES ASSUME RingInv, Receive PROVE RingInv'
  OBVIOUS
<1> USE DEF RingInv
<1>1. /\ arrived \in Nat /\ arrived < Frames /\ arrived' = arrived + 1 /\ arrived' \in 0 .. Frames
      /\ head \in Descs /\ i \in Descs /\ i' = i /\ pc' = pc /\ msg' = msg /\ sorted' = sorted
      /\ buf' = [buf EXCEPT ![head] = arrived + 1] /\ dd' = [dd EXCEPT ![head] = TRUE]
      /\ buf \in [Descs -> 0 .. Frames] /\ dd \in [Descs -> BOOLEAN]
      /\ overrun' = (overrun \/ dd[head]) /\ overrun \in BOOLEAN
      /\ msg \in 0 .. Frames /\ sorted \in Seq(1 .. Frames)
  BY RxAssumption DEF Receive, TypeOK
<1>2. /\ \A d \in Descs : buf'[d] = (IF d = head THEN arrived + 1 ELSE buf[d])
      /\ \A d \in Descs : dd'[d] = (IF d = head THEN TRUE ELSE dd[d])
      /\ \A d \in Descs : buf[d] \in Nat /\ buf[d] <= arrived
      /\ \A k \in DOMAIN sorted : sorted[k] \in Nat /\ sorted[k] <= arrived
  <2>1. \A d \in Descs : buf'[d] = (IF d = head THEN arrived + 1 ELSE buf[d])
    BY <1>1
  <2>2. \A d \in Descs : dd'[d] = (IF d = head THEN TRUE ELSE dd[d])
    BY <1>1
  <2>3. \A d \in Descs : buf[d] \in Nat /\ buf[d] <= arrived
    BY <1>1 DEF Buffers
  <2>4. \A k \in DOMAIN sorted : sorted[k] \in Nat /\ sorted[k] <= arrived
    <3>1. \A k \in DOMAIN sorted : sorted[k] \in 1 .. Frames
      BY <1>1, Elements
    <3> QED
      BY <3>1, RxAssumption DEF SortedIsOver
  <2> QED
    BY <2>1, <2>2, <2>3, <2>4
<1>3. TypeOK'
  <2>1. head' \in Descs
    BY <1>1, FollowingIsDesc DEF Receive, Following
  <2>2. arrived + 1 \in 0 .. Frames
    BY <1>1
  <2>3. buf' \in [Descs -> 0 .. Frames] /\ dd' \in [Descs -> BOOLEAN]
    BY <1>1, <2>2
  <2>4. overrun' \in BOOLEAN
    BY <1>1, Zenon
  <2> QED
    BY <1>1, <2>1, <2>3, <2>4 DEF TypeOK
<1>4. Buffers'
  BY <1>1, <1>2 DEF Buffers
<1>5. Working'
  BY <1>1, <1>2 DEF Working
<1>6. SortedIsOver'
  BY <1>1, <1>2 DEF SortedIsOver
<1>7. Copied'
  BY <1>1, <1>2 DEF Copied
<1>8. Untouched'
  BY <1>1, <1>2 DEF Untouched, Working
<1>9. SortedOnce'
  BY <1>1 DEF SortedOnce
<1>10. NothingLost'
  <2> SUFFICES ASSUME ~overrun', NEW frame \in 1 .. arrived + 1
               PROVE  Sorted(frame)' \/ Waiting(frame)'
    BY <1>1 DEF NothingLost
  <2>1. ~overrun /\ ~dd[head] /\ (head = i => pc = "test")
    BY <1>1 DEF Working
  <2>2. CASE frame = arrived + 1
    BY <1>1, <1>2, <2>1, <2>2 DEF Waiting
  <2>3. CASE frame # arrived + 1
    <3>1. frame \in 1 .. arrived
      BY <1>1, <2>3
    <3>2. Sorted(frame) \/ Waiting(frame)
      BY <2>1, <3>1 DEF NothingLost
    <3>3. CASE Sorted(frame)
      BY <1>1, <3>3 DEF Sorted
    <3>4. CASE Waiting(frame)
      BY <1>1, <1>2, <2>1, <3>4 DEF Waiting
    <3> QED
      BY <3>2, <3>3, <3>4
  <2> QED
    BY <2>2, <2>3
<1> QED
  BY <1>3, <1>4, <1>5, <1>6, <1>7, <1>8, <1>9, <1>10

(* The test passes descriptors whose status is not set.                     *)
LEMMA TestInv == RingInv /\ Test => RingInv'
<1> SUFFICES ASSUME RingInv, Test PROVE RingInv'
  OBVIOUS
<1> USE DEF RingInv
<1>1. /\ pc = "test" /\ UNCHANGED <<head, buf, arrived, overrun, dd, msg, sorted>>
      /\ i \in Descs /\ i' \in Descs /\ pc' \in {"test", "decode"} /\ (pc' = "decode" => dd[i'])
  BY FollowingIsDesc DEF Test, TypeOK, device
<1>2. TypeOK'
  BY <1>1 DEF TypeOK
<1>3. Buffers' /\ SortedOnce'
  BY <1>1 DEF Buffers, SortedOnce
<1>4. Working' /\ SortedIsOver' /\ Copied' /\ Untouched'
  BY <1>1 DEF Working, SortedIsOver, Copied, Untouched
<1>5. NothingLost'
  <2>1. ASSUME NEW frame, Sorted(frame) \/ Waiting(frame)
        PROVE  Sorted(frame)' \/ Waiting(frame)'
    BY <1>1, <2>1 DEF Sorted, Waiting
  <2> QED
    BY <1>1, <2>1 DEF NothingLost
<1> QED
  BY <1>2, <1>3, <1>4, <1>5

(* The frame that is copied was not sorted, because its status is set.      *)
LEMMA DecodeInv == RingInv /\ Decode => RingInv'
<1> SUFFICES ASSUME RingInv, Decode PROVE RingInv'
  OBVIOUS
<1> USE DEF RingInv
<1>1. /\ pc = "decode" /\ pc' = "sort" /\ msg' = buf[i]
      /\ UNCHANGED <<head, buf, arrived, overrun, dd, i, sorted>>
      /\ i \in Descs /\ buf \in [Descs -> 0 .. Frames]
  BY DEF Decode, TypeOK, device
<1>2. TypeOK'
  BY <1>1 DEF TypeOK
<1>3. Buffers' /\ SortedOnce'
  BY <1>1 DEF Buffers, SortedOnce
<1>4. Working' /\ SortedIsOver' /\ Untouched'
  BY <1>1 DEF Working, SortedIsOver, Untouched
<1>5. Copied'
  BY <1>1 DEF Copied, Working, Buffers, SortedIsOver
<1>6. NothingLost'
  <2>1. ASSUME NEW frame, Sorted(frame) \/ Waiting(frame)
        PROVE  Sorted(frame)' \/ Waiting(frame)'
    BY <1>1, <2>1 DEF Sorted, Waiting
  <2> QED
    BY <1>1, <2>1 DEF NothingLost
<1> QED
  BY <1>2, <1>3, <1>4, <1>5, <1>6

(* The copied frame is new among the sorted ones, and without an overrun    *)
(* its descriptor holds nothing else.                                       *)
LEMMA SortInv == RingInv /\ Sort => RingInv'
<1> SUFFICES ASSUME RingInv, Sort PROVE RingInv'
  OBVIOUS
<1> USE DEF RingInv
<1>1. /\ pc = "sort" /\ pc' = "clear" /\ sorted' = Append(sorted, msg)
      /\ UNCHANGED <<head, buf, arrived, overrun, dd, i, msg>>
      /\ i \in Descs /\ sorted \in Seq(1 .. Frames) /\ msg \in 1 .. Frames
      /\ buf \in [Descs -> 0 .. Frames]
  BY DEF Sort, TypeOK, device, Copied
<1>2. /\ sorted' \in Seq(1 .. Frames) /\ DOMAIN sorted' = DOMAIN sorted \union {Len(sorted) + 1}
      /\ \A k \in DOMAIN sorted : sorted'[k] = sorted[k]
      /\ sorted'[Len(sorted) + 1] = msg
      /\ DOMAIN sorted = 1 .. Len(sorted) /\ Len(sorted) \in Nat
  BY <1>1
<1>3. TypeOK'
  BY <1>1, <1>2 DEF TypeOK
<1>4. Buffers' /\ Working' /\ Copied' /\ Untouched'
  BY <1>1 DEF Buffers, Working, Copied, Untouched
<1>5. SortedIsOver'
  <2> SUFFICES ASSUME NEW k \in DOMAIN sorted'
               PROVE  /\ sorted'[k] <= arrived
                      /\ \A d \in Descs : dd[d] /\ sorted'[k] = buf[d] => d = i
    BY <1>1 DEF SortedIsOver
  <2>1. CASE k \in DOMAIN sorted
    BY <1>1, <1>2, <2>1 DEF SortedIsOver
  <2>2. CASE k = Len(sorted) + 1
    BY <1>1, <1>2, <2>2 DEF Copied
  <2> QED
    BY <1>2, <2>1, <2>2
<1>6. SortedOnce'
  <2> SUFFICES ASSUME NEW k \in DOMAIN sorted', NEW l \in DOMAIN sorted', sorted'[k] = sorted'[l]
               PROVE  k = l
    BY DEF SortedOnce
  <2>1. CASE k \in DOMAIN sorted /\ l \in DOMAIN sorted
    BY <1>2, <2>1 DEF SortedOnce
  <2>2. CASE k = Len(sorted) + 1 /\ l \in DOMAIN sorted
    BY <1>1, <1>2, <2>2 DEF Copied
  <2>3. CASE l = Len(sorted) + 1 /\ k \in DOMAIN sorted
    BY <1>1, <1>2, <2>3 DEF Copied
  <2> QED
    BY <1>2, <2>1, <2>2, <2>3
<1>7. NothingLost'
  <2> SUFFICES ASSUME ~overrun, NEW frame \in 1 .. arrived
               PROVE  Sorted(frame)' \/ Waiting(frame)'
    BY <1>1 DEF NothingLost
  <2>1. buf[i] = msg
    BY <1>1 DEF Untouched
  <2>2. CASE frame = msg
    BY <1>2, <2>2 DEF Sorted
  <2>3. CASE frame # msg
    <3>1. Sorted(frame) \/ Waiting(frame)
      BY DEF NothingLost
    <3>2. CASE Sorted(frame)
      BY <1>2, <3>2 DEF Sorted
    <3>3. CASE Waiting(frame)
      BY <1>1, <2>1, <2>3, <3>3 DEF Waiting
    <3> QED
      BY <3>1, <3>2, <3>3
  <2> QED
    BY <2>2, <2>3
<1> QED
  BY <1>3, <1>4, <1>5, <1>6, <1>7

(* Only the status of the descriptor that was sorted is cleared.            *)
LEMMA ClearInv == RingInv /\ Clear => RingInv'
<1> SUFFICES ASSUME RingInv, Clear PROVE RingInv'
  OBVIOUS
<1> USE DEF RingInv
<1>1. /\ pc = "clear" /\ pc' = "test" /\ dd' = [dd EXCEPT ![i] = FALSE]
      /\ UNCHANGED <<head, buf, arrived, overrun, msg, sorted>>
      /\ i \in Descs /\ i' \in Descs /\ dd \in [Descs -> BOOLEAN]
  BY FollowingIsDesc DEF Clear, StatusAfter, TypeOK, device
<1>2. /\ dd' \in [Descs -> BOOLEAN]
      /\ \A d \in Descs : dd'[d] = (IF d = i THEN FALSE ELSE dd[d])
  BY <1>1
<1>3. TypeOK'
  BY <1>1, <1>2 DEF TypeOK
<1>4. Buffers' /\ Working' /\ Copied' /\ Untouched' /\ SortedOnce'
  BY <1>1, <1>2 DEF Buffers, Working, Copied, Untouched, SortedOnce
<1>5. SortedIsOver'
  BY <1>1, <1>2 DEF SortedIsOver
<1>6. NothingLost'
  <2>1. ASSUME NEW frame, Sorted(frame) \/ Waiting(frame)
        PROVE  Sorted(frame)' \/ Waiting(frame)'
    BY <1>1, <1>2, <2>1 DEF Sorted, Waiting
  <2> QED
    BY <1>1, <2>1 DEF NothingLost
<1> QED
  BY <1>3, <1>4, <1>5, <1>6

(* Every step keeps the invariant.                                          *)
LEMMA NextInv == RingInv /\ [Next]_vars => RingInv'
<1> SUFFICES ASSUME RingInv, [Next]_vars PROVE RingInv'
  OBVIOUS
<1>1. CASE Receive
  BY <1>1, ReceiveInv
<1>2. CASE Test
  BY <1>2, TestInv
<1>3. CASE Decode
  BY <1>3, DecodeInv
<1>4. CASE Sort
  BY <1>4, SortInv
<1>5. CASE Clear
  BY <1>5, ClearInv
<1>6. CASE UNCHANGED vars
  BY <1>6 DEF vars, RingInv, TypeOK, Buffers, Working, SortedIsOver, Copied, Untouched,
              SortedOnce, NothingLost, Sorted, Waiting
<1> QED
  BY <1>1, <1>2, <1>3, <1>4, <1>5, <1>6 DEF Next, RxPoll

(* The invariant of the ring holds however driver and device interleave.    *)
THEOREM RingInvariant == Spec => []RingInv
<1>1. Init => RingInv
  BY InitInv
<1>2. RingInv /\ [Next]_vars => RingInv'
  BY NextInv
<1> QED
  BY <1>1, <1>2, PTL DEF Spec

(* The types of the variables: the scan and the device stay in the ring.    *)
THEOREM TypeCorrect == Spec => []TypeOK
<1>1. RingInv => TypeOK
  BY DEF RingInv
<1> QED
  BY <1>1, RingInvariant, PTL

(* No frame is sorted twice, with or without an overrun, and none is lost   *)
(* before the first overrun.                                                *)
THEOREM FramesSortedExactlyOnce == Spec => []SortedExactlyOnce
<1>1. RingInv => SortedExactlyOnce
  BY DEF RingInv, SortedExactlyOnce
<1> QED
  BY <1>1, RingInvariant, PTL

(* What happens to the pages leaves the ring as it is.                      *)
THEOREM PagesKeepRing == RxPagesSpec => Spec
<1>1. RxPagesInit => Init
  BY DEF RxPagesInit
<1>2. [RxPagesNext]_rxPagesVars => [Next]_vars
  BY DEF RxPagesNext, rxPagesVars, DecodeFrame, SortDropped, SortQueued, SortListed, SortFreed,
         OtherRingStep, ReadPop, ReadFree, Next, RxPoll
<1> QED
  BY <1>1, <1>2, PTL DEF RxPagesSpec, Spec

(* So each frame is sorted exactly once whatever becomes of its pages.      *)
THEOREM PagesSortedExactlyOnce == RxPagesSpec => []SortedExactlyOnce
  BY PagesKeepRing, FramesSortedExactlyOnce, PTL

-----------------------------------------------------------------------------
(* The pages                                                               *)

QueueEntry == [entry : Pages, msg : Pages, buf : Pages]

EntryPages(q, k) == {q[k].entry, q[k].msg, q[k].buf}

(* The pages of the message rx_poll is at, and of the one kread() is at      *)
Polled == IF pc = "sort" THEN {held.msg, held.buf} ELSE {}
BeingRead == IF reader = NoMessage THEN {} ELSE {reader.msg, reader.buf}

Apart(S, T) == S \cap T = {}

(* The inductive invariant of the pages: who has which is told apart by      *)
(* where rx_poll and the reader are, and no two have the same.               *)
OwnersInv ==
  /\ ~misuse /\ queue \in Seq(QueueEntry)
  /\ free \subseteq Pages /\ Polled \subseteq Pages /\ BeingRead \subseteq Pages
  /\ pc # "sort" => held = NoMessage
  /\ Apart(free, Polled) /\ Apart(free, BeingRead) /\ Apart(free, arpPages)
  /\ Apart(Polled, BeingRead) /\ Apart(Polled, arpPages) /\ Apart(BeingRead, arpPages)
  /\ \A k \in DOMAIN queue :
       /\ queue[k].entry \notin {queue[k].msg, queue[k].buf}
       /\ Apart(EntryPages(queue, k), free) /\ Apart(EntryPages(queue, k), Polled)
       /\ Apart(EntryPages(queue, k), BeingRead) /\ Apart(EntryPages(queue, k), arpPages)
  /\ \A k, l \in DOMAIN queue : k # l => Apart(EntryPages(queue, k), EntryPages(queue, l))

(* What the steps of the ring read of the message, they hold.                *)
LEMMA PolledPages ==
  ASSUME OwnersInv
  PROVE  PagesOf(held) \subseteq Polled /\ Apart(PagesOf(held), free) /\ PagesOf(reader) = BeingRead
  BY DEF OwnersInv, PagesOf, Polled, BeingRead, Apart

(* Two calls of kalloc() give two pages.                                     *)
LEMMA TwoPages ==
  ASSUME free \subseteq Pages, Cardinality(free) >= 2
  PROVE  /\ APage(free) \in free
         /\ APage(free \ {APage(free)}) \in free \ {APage(free)}
<1>1. IsFiniteSet(free)
  BY PagesAssumption, FS_Subset
<1>2. free # {}
  BY FS_EmptySet
<1>3. APage(free) \in free
  BY <1>2 DEF APage
<1>4. Cardinality(free \ {APage(free)}) = Cardinality(free) - 1 /\ Cardinality(free) \in Nat
  BY <1>1, <1>3, FS_RemoveElement, FS_CardinalityType
<1>5. free \ {APage(free)} # {}
  BY <1>4, FS_EmptySet
<1> QED
  BY <1>3, <1>5 DEF APage

(* The pages at first                                                        *)
LEMMA OwnersInitInv == RxPagesInit => OwnersInv
  BY DEF RxPagesInit, Init, OwnersInv, Polled, BeingRead, Apart, NoMessage

(* kalloc(1) twice for a frame                                               *)
LEMMA DecodeFrameInv == OwnersInv /\ DecodeFrame => OwnersInv'
<1> SUFFICES ASSUME OwnersInv, DecodeFrame PROVE OwnersInv'
  OBVIOUS
<1> DEFINE m == APage(free)
           b == APage(free \ {m})
<1>1. m \in free /\ b \in free \ {m}
  BY TwoPages DEF OwnersInv, DecodeFrame
<1>2. /\ pc = "decode" /\ pc' = "sort" /\ held' = [msg |-> m, buf |-> b] /\ free' = free \ {m, b}
      /\ queue' = queue /\ reader' = reader /\ arpPages' = arpPages /\ misuse' = misuse
  BY DEF DecodeFrame, Decode, UsesNothing
<1> HIDE DEF m, b
<1>3. Polled' = {m, b} /\ BeingRead' = BeingRead
  BY <1>2 DEF Polled, BeingRead
<1>4. \A k : EntryPages(queue, k)' = EntryPages(queue, k)
  BY <1>2 DEF EntryPages
<1> QED
  BY <1>1, <1>2, <1>3, <1>4 DEF OwnersInv, Apart

(* The branches of networking_rx_sort() that keep or free the message        *)
LEMMA SortMessageInv == OwnersInv /\ (SortDropped \/ SortFreed \/ SortListed) => OwnersInv'
<1> SUFFICES ASSUME OwnersInv, SortDropped \/ SortFreed \/ SortListed PROVE OwnersInv'
  OBVIOUS
<1>1. /\ pc = "sort" /\ pc' = "clear" /\ held' = NoMessage
      /\ queue' = queue /\ reader' = reader
  BY DEF SortDropped, SortFreed, SortListed, Sort
<1>2. Polled' = {} /\ BeingRead' = BeingRead
  BY <1>1 DEF Polled, BeingRead
<1>3. PagesOf(held) \subseteq Polled /\ Apart(PagesOf(held), free)
  BY PolledPages
<1>4. ~misuse'
  BY <1>3 DEF OwnersInv, SortDropped, SortFreed, SortListed, Uses, UsesNothing, Apart
<1>5. free' \subseteq free \union Polled /\ arpPages' \subseteq arpPages \union free
      /\ Apart(free', arpPages')
  <2>1. CASE SortDropped
    BY <2>1 DEF SortDropped, OwnersInv
  <2>2. CASE SortFreed
    BY <2>2, <1>3 DEF SortFreed, FreeMessage, OwnersInv, Apart
  <2>3. CASE SortListed
    <3>1. APage(free) \in free
      BY <2>3 DEF SortListed, APage
    <3>2. arpPages' = arpPages \union {APage(free)}
          /\ free' = (free \ {APage(free)}) \union PagesOf(held)
      BY <2>3 DEF SortListed, FreeMessage
    <3> QED
      BY <3>1, <3>2, <1>3 DEF OwnersInv, Apart
  <2> QED
    BY <2>1, <2>2, <2>3
<1>6. \A k : EntryPages(queue, k)' = EntryPages(queue, k)
  BY <1>1 DEF EntryPages
<1> QED
  BY <1>1, <1>2, <1>4, <1>5, <1>6 DEF OwnersInv, Apart

(* A message goes to the socket's queue with a page for the entry.           *)
LEMMA SortQueuedInv == OwnersInv /\ SortQueued => OwnersInv'
<1> SUFFICES ASSUME OwnersInv, SortQueued PROVE OwnersInv'
  OBVIOUS
<1> DEFINE e == APage(free)
           new == [entry |-> e, msg |-> held.msg, buf |-> held.buf]
<1>1. e \in free
  BY DEF SortQueued, APage
<1>2. /\ pc = "sort" /\ pc' = "clear" /\ held' = NoMessage /\ free' = free \ {e}
      /\ queue' = Append(queue, new) /\ reader' = reader /\ arpPages' = arpPages /\ misuse' = misuse
  BY DEF SortQueued, Sort, UsesNothing
<1> HIDE DEF e
<1>3. Polled = {held.msg, held.buf} /\ Polled' = {} /\ BeingRead' = BeingRead
  BY <1>2 DEF Polled, BeingRead
<1>4. new \in QueueEntry /\ queue \in Seq(QueueEntry)
  BY <1>1, <1>3 DEF OwnersInv, QueueEntry
<1>5. /\ queue' \in Seq(QueueEntry) /\ DOMAIN queue' = (DOMAIN queue) \union {Len(queue) + 1}
      /\ Len(queue) + 1 \notin DOMAIN queue /\ queue'[Len(queue) + 1] = new
      /\ \A k \in DOMAIN queue : queue'[k] = queue[k]
  BY <1>2, <1>4, QueueOperations
<1>6. /\ EntryPages(queue', Len(queue) + 1) = {e} \union Polled
      /\ \A k \in DOMAIN queue : EntryPages(queue', k) = EntryPages(queue, k)
  BY <1>3, <1>5 DEF EntryPages
<1>7. e \notin Polled /\ queue'[Len(queue) + 1].entry = e
      /\ {queue'[Len(queue) + 1].msg, queue'[Len(queue) + 1].buf} = Polled
  BY <1>1, <1>3, <1>5 DEF OwnersInv, Apart
<1>8. ASSUME NEW k \in DOMAIN queue'
      PROVE  /\ queue'[k].entry \notin {queue'[k].msg, queue'[k].buf}
             /\ Apart(EntryPages(queue', k), free') /\ Apart(EntryPages(queue', k), Polled')
             /\ Apart(EntryPages(queue', k), BeingRead') /\ Apart(EntryPages(queue', k), arpPages')
  <2>1. CASE k \in DOMAIN queue
    BY <2>1, <1>2, <1>3, <1>5, <1>6 DEF OwnersInv, Apart
  <2>2. CASE k = Len(queue) + 1
    BY <2>2, <1>1, <1>2, <1>3, <1>6, <1>7 DEF OwnersInv, Apart
  <2> QED
    BY <1>5, <2>1, <2>2
<1>9. ASSUME NEW k \in DOMAIN queue', NEW l \in DOMAIN queue', k # l
      PROVE  Apart(EntryPages(queue', k), EntryPages(queue', l))
  <2>1. CASE k \in DOMAIN queue /\ l \in DOMAIN queue
    BY <2>1, <1>6, <1>9 DEF OwnersInv
  <2>2. CASE k = Len(queue) + 1 /\ l \in DOMAIN queue
    BY <2>2, <1>1, <1>6 DEF OwnersInv, Apart
  <2>3. CASE l = Len(queue) + 1 /\ k \in DOMAIN queue
    BY <2>3, <1>1, <1>6 DEF OwnersInv, Apart
  <2> QED
    BY <1>5, <1>9, <2>1, <2>2, <2>3
<1> QED
  BY <1>2, <1>3, <1>5, <1>8, <1>9 DEF OwnersInv, Apart

(* kread() takes the first message and frees its entry.                      *)
LEMMA ReadPopInv == OwnersInv /\ ReadPop => OwnersInv'
<1> SUFFICES ASSUME OwnersInv, ReadPop PROVE OwnersInv'
  OBVIOUS
<1> DEFINE first == queue[1]
<1>1. queue \in Seq(QueueEntry) /\ queue # <<>>
  BY DEF OwnersInv, ReadPop
<1>2. /\ 1 \in DOMAIN queue /\ Head(queue) = first /\ first \in QueueEntry
      /\ Tail(queue) \in Seq(QueueEntry)
      /\ \A k \in DOMAIN Tail(queue) :
           k + 1 \in DOMAIN queue /\ k + 1 # 1 /\ Tail(queue)[k] = queue[k + 1]
      /\ \A k, l \in DOMAIN Tail(queue) : k # l => k + 1 # l + 1
  BY <1>1, QueueOperations
<1>3. /\ pc' = pc /\ held' = held /\ arpPages' = arpPages /\ queue' = Tail(queue)
      /\ reader = NoMessage /\ reader' = [msg |-> first.msg, buf |-> first.buf]
      /\ free' = free \union {first.entry}
      /\ misuse' = (misuse \/ {first.entry} \cap free # {})
  BY <1>2 DEF ReadPop, vars, Uses
<1>4. Polled' = Polled /\ BeingRead' \subseteq {first.msg, first.buf} /\ BeingRead = {}
  BY <1>3 DEF Polled, BeingRead
<1>5. EntryPages(queue, 1) = {first.entry, first.msg, first.buf}
      /\ first.entry \notin {first.msg, first.buf} /\ EntryPages(queue, 1) \subseteq Pages
  BY <1>2 DEF EntryPages, OwnersInv, QueueEntry
<1>6. /\ Apart(EntryPages(queue, 1), free) /\ Apart(EntryPages(queue, 1), Polled)
      /\ Apart(EntryPages(queue, 1), arpPages)
  BY <1>2 DEF OwnersInv
<1>7. \A k \in DOMAIN queue' : EntryPages(queue', k) = EntryPages(queue, k + 1)
  BY <1>2, <1>3 DEF EntryPages
<1>8. ASSUME NEW k \in DOMAIN queue'
      PROVE  /\ queue'[k].entry \notin {queue'[k].msg, queue'[k].buf}
             /\ Apart(EntryPages(queue', k), free') /\ Apart(EntryPages(queue', k), Polled')
             /\ Apart(EntryPages(queue', k), BeingRead') /\ Apart(EntryPages(queue', k), arpPages')
  <2>1. k + 1 \in DOMAIN queue /\ k + 1 # 1 /\ queue'[k] = queue[k + 1]
    BY <1>2, <1>3
  <2>2. Apart(EntryPages(queue, k + 1), EntryPages(queue, 1))
    BY <1>2, <2>1 DEF OwnersInv
  <2>3. /\ queue[k + 1].entry \notin {queue[k + 1].msg, queue[k + 1].buf}
        /\ Apart(EntryPages(queue, k + 1), free) /\ Apart(EntryPages(queue, k + 1), Polled)
        /\ Apart(EntryPages(queue, k + 1), arpPages)
    BY <2>1 DEF OwnersInv
  <2> QED
    BY <1>3, <1>4, <1>5, <1>7, <2>1, <2>2, <2>3 DEF Apart
<1>9. ASSUME NEW k \in DOMAIN queue', NEW l \in DOMAIN queue', k # l
      PROVE  Apart(EntryPages(queue', k), EntryPages(queue', l))
  <2>1. k + 1 \in DOMAIN queue /\ l + 1 \in DOMAIN queue /\ k + 1 # l + 1
    BY <1>2, <1>3, <1>9
  <2> QED
    BY <1>7, <2>1 DEF OwnersInv
<1>10. ~misuse' /\ free' \subseteq Pages /\ BeingRead' \subseteq Pages
  BY <1>3, <1>4, <1>5, <1>6 DEF OwnersInv, Apart
<1>11. /\ Apart(free', Polled') /\ Apart(free', BeingRead') /\ Apart(free', arpPages')
       /\ Apart(Polled', BeingRead') /\ Apart(Polled', arpPages') /\ Apart(BeingRead', arpPages')
  BY <1>3, <1>4, <1>5, <1>6 DEF OwnersInv, Apart
<1> QED
  BY <1>2, <1>3, <1>4, <1>8, <1>9, <1>10, <1>11 DEF OwnersInv

(* kread() frees the message it has copied; the ring's other steps do not    *)
(* touch pages.                                                              *)
LEMMA ReadFreeInv == OwnersInv /\ ReadFree => OwnersInv'
<1> SUFFICES ASSUME OwnersInv, ReadFree PROVE OwnersInv'
  OBVIOUS
<1>1. /\ pc' = pc /\ held' = held /\ queue' = queue /\ arpPages' = arpPages /\ reader' = NoMessage
      /\ free' = free \union BeingRead /\ misuse' = (misuse \/ BeingRead \cap free # {})
  BY PolledPages DEF ReadFree, vars, Uses, FreeMessage
<1>2. Polled' = Polled /\ BeingRead' = {}
  BY <1>1 DEF Polled, BeingRead
<1>3. \A k : EntryPages(queue, k)' = EntryPages(queue, k)
  BY <1>1 DEF EntryPages
<1> QED
  BY <1>1, <1>2, <1>3 DEF OwnersInv, Apart

LEMMA OtherStepInv == OwnersInv /\ (OtherRingStep \/ UNCHANGED rxPagesVars) => OwnersInv'
<1> SUFFICES ASSUME OwnersInv, OtherRingStep \/ UNCHANGED rxPagesVars PROVE OwnersInv'
  OBVIOUS
<1>1. /\ held' = held /\ queue' = queue /\ arpPages' = arpPages /\ reader' = reader
      /\ free' = free /\ misuse' = misuse
  BY DEF OtherRingStep, rxPagesVars, pageVars
<1>2. pc' = "sort" <=> pc = "sort"
  BY DEF OtherRingStep, Receive, Test, Clear, rxPagesVars, vars
<1>3. Polled' = Polled /\ BeingRead' = BeingRead
  BY <1>1, <1>2 DEF Polled, BeingRead
<1>4. \A k : EntryPages(queue, k)' = EntryPages(queue, k)
  BY <1>1 DEF EntryPages
<1> QED
  BY <1>1, <1>2, <1>3, <1>4 DEF OwnersInv

(* Each page has one owner, for any heap, ring and mix of frames.            *)
THEOREM PagesOwned == RxPagesSpec => []OwnersInv
<1>1. OwnersInv /\ [RxPagesNext]_rxPagesVars => OwnersInv'
  BY DecodeFrameInv, SortMessageInv, SortQueuedInv, ReadPopInv, ReadFreeInv, OtherStepInv
     DEF RxPagesNext
<1> QED
  BY <1>1, OwnersInitInv, PTL DEF RxPagesSpec

(* No page is used after it was freed or given to two owners, while rx_poll  *)
(* and a reader interleave in any way.                                       *)
THEOREM PagesNotReused == RxPagesSpec => []NoPageReused
<1>1. OwnersInv => NoPageReused
  <2> SUFFICES ASSUME OwnersInv PROVE NoPageReused
    OBVIOUS
  <2>1. Apart(PagesOf(held), free) /\ Apart(PagesOf(reader), free) /\ Apart(arpPages, free)
    BY PolledPages DEF OwnersInv, Apart
  <2>2. Apart(QueuePages, free)
    BY DEF QueuePages, OwnersInv, EntryPages, Apart
  <2> QED
    BY <2>1, <2>2 DEF NoPageReused, InUse, Apart, OwnersInv
<1> QED
  BY <1>1, PagesOwned, PTL

(* The message of a frame is there as long as rx_poll is at it, in two       *)
(* pages, and the pages nobody has are those of the frames dropped.          *)
Lost == Pages \ (free \union InUse)

LeakInv ==
  /\ OwnersInv
  /\ pc = "sort" => held # NoMessage /\ held.msg # held.buf
  /\ dropped \in Nat /\ Cardinality(Lost) = 2 * dropped

(* What rx_poll holds is what PagesOf() says.                                *)
LEMMA HeldPages ==
  ASSUME OwnersInv, pc = "sort" => held # NoMessage
  PROVE  InUse = Polled \union QueuePages \union BeingRead \union arpPages
<1>1. PagesOf(held) = Polled
  BY DEF OwnersInv, PagesOf, Polled
<1> QED
  BY <1>1, PolledPages DEF InUse

(* Two pages more are lost by a step that loses a message.                   *)
LEMMA LoseTwo ==
  ASSUME NEW S, NEW a, NEW b, IsFiniteSet(S), a \notin S, b \notin S, a # b
  PROVE  Cardinality(S \union {a, b}) = Cardinality(S) + 2
<1>1. /\ IsFiniteSet(S \union {a}) /\ Cardinality(S \union {a}) = Cardinality(S) + 1
  BY FS_AddElement
<1>2. /\ Cardinality((S \union {a}) \union {b}) = Cardinality(S \union {a}) + 1
  BY <1>1, FS_AddElement
<1>3. S \union {a, b} = (S \union {a}) \union {b}
  OBVIOUS
<1>4. Cardinality(S \union {a, b}) = Cardinality((S \union {a}) \union {b})
  BY <1>3
<1>5. Cardinality(S) \in Nat
  BY FS_CardinalityType
<1>6. Cardinality(S) + 1 + 1 = Cardinality(S) + 2
  BY <1>5
<1> QED
  BY <1>1, <1>2, <1>4, <1>6

(* The pages in the queue after a push and a pop                             *)
LEMMA QueuePagesAfter ==
  ASSUME OwnersInv
  PROVE  /\ SortQueued => QueuePages' = QueuePages \union {APage(free), held.msg, held.buf}
         /\ ReadPop => QueuePages = QueuePages' \union {queue[1].entry, queue[1].msg, queue[1].buf}
<1>1. ASSUME SortQueued
      PROVE  QueuePages' = QueuePages \union {APage(free), held.msg, held.buf}
  <2> DEFINE new == [entry |-> APage(free), msg |-> held.msg, buf |-> held.buf]
  <2>1. queue' = Append(queue, new) /\ APage(free) \in free /\ pc = "sort"
    BY <1>1 DEF SortQueued, Sort, APage
  <2>2. new \in QueueEntry
    BY <2>1 DEF OwnersInv, QueueEntry, Polled
  <2>3. /\ DOMAIN queue' = (DOMAIN queue) \union {Len(queue) + 1}
        /\ queue'[Len(queue) + 1] = new /\ \A k \in DOMAIN queue : queue'[k] = queue[k]
    BY <2>1, <2>2, QueueOperations DEF OwnersInv
  <2> QED
    BY <2>3 DEF QueuePages
<1>2. ASSUME ReadPop
      PROVE  QueuePages = QueuePages' \union {queue[1].entry, queue[1].msg, queue[1].buf}
  <2>1. queue \in Seq(QueueEntry) /\ queue # <<>> /\ queue' = Tail(queue)
    BY <1>2 DEF OwnersInv, ReadPop
  <2>2. /\ 1 \in DOMAIN queue
        /\ \A k \in DOMAIN queue' : k + 1 \in DOMAIN queue /\ queue'[k] = queue[k + 1]
        /\ \A k \in DOMAIN queue : k = 1 \/ \E l \in DOMAIN queue' : k = l + 1
    BY <2>1, QueueOperations
  <2>3. QueuePages' \subseteq QueuePages
    BY <2>2 DEF QueuePages
  <2>4. {queue[1].entry, queue[1].msg, queue[1].buf} \subseteq QueuePages
    BY <2>2 DEF QueuePages
  <2>5. ASSUME NEW k \in DOMAIN queue
        PROVE  {queue[k].entry, queue[k].msg, queue[k].buf}
                 \subseteq QueuePages' \union {queue[1].entry, queue[1].msg, queue[1].buf}
    <3>1. CASE k = 1
      BY <3>1
    <3>2. CASE k # 1
      <4>1. PICK l \in DOMAIN queue' : k = l + 1
        BY <2>2, <3>2
      <4>2. queue'[l] = queue[k]
        BY <2>2, <4>1
      <4> QED
        BY <4>1, <4>2 DEF QueuePages
    <3> QED
      BY <3>1, <3>2
  <2>6. QueuePages \subseteq QueuePages' \union {queue[1].entry, queue[1].msg, queue[1].buf}
    BY <2>5 DEF QueuePages
  <2> QED
    BY <2>3, <2>4, <2>6
<1> QED
  BY <1>1, <1>2

(* A frame that is dropped keeps its two pages.                              *)
LEMMA DroppedLeak == LeakInv /\ SortDropped => LeakInv'
<1> SUFFICES ASSUME LeakInv, SortDropped PROVE LeakInv'
  OBVIOUS
<1>1. OwnersInv /\ OwnersInv'
  BY SortMessageInv DEF LeakInv
<1>2. /\ pc = "sort" /\ pc' = "clear" /\ held # NoMessage /\ held.msg # held.buf
      /\ held' = NoMessage /\ free' = free /\ queue' = queue /\ reader' = reader
      /\ arpPages' = arpPages /\ dropped' = dropped + 1
  BY DEF LeakInv, SortDropped, Sort
<1>3. Polled = {held.msg, held.buf} /\ Polled' = {} /\ BeingRead' = BeingRead
      /\ QueuePages' = QueuePages
  BY <1>2 DEF Polled, BeingRead, QueuePages
<1>4. Apart(Polled, QueuePages)
  BY <1>1 DEF OwnersInv, QueuePages, EntryPages, Apart
<1>5. InUse = Polled \union QueuePages \union BeingRead \union arpPages
      /\ InUse' = QueuePages \union BeingRead \union arpPages
  <2>1. InUse = Polled \union QueuePages \union BeingRead \union arpPages
    BY <1>1, <1>2, HeldPages
  <2>2. PagesOf(held)' = {} /\ PagesOf(reader)' = BeingRead
    BY <1>1, <1>2, PolledPages DEF PagesOf
  <2> QED
    BY <2>1, <2>2, <1>2, <1>3 DEF InUse
<1>6. Lost' = Lost \union {held.msg, held.buf}
      /\ held.msg \notin Lost /\ held.buf \notin Lost
  BY <1>1, <1>2, <1>3, <1>4, <1>5 DEF Lost, OwnersInv, Apart
<1>7. IsFiniteSet(Lost)
  BY PagesAssumption, FS_Subset DEF Lost
<1>8. Cardinality(Lost') = Cardinality(Lost) + 2
  BY <1>2, <1>6, <1>7, LoseTwo
<1> QED
  BY <1>1, <1>2, <1>8 DEF LeakInv

(* No other step loses a page: what one gives up another gets.               *)
LEMMA NothingElseLeaks ==
  ASSUME LeakInv, OwnersInv', (pc = "sort" => held # NoMessage)', dropped' = dropped,
         \/ DecodeFrame \/ SortQueued \/ SortListed \/ SortFreed \/ OtherRingStep \/ ReadPop
         \/ ReadFree \/ UNCHANGED rxPagesVars
  PROVE  Lost' = Lost
<1>1. InUse = Polled \union QueuePages \union BeingRead \union arpPages
  BY HeldPages DEF LeakInv
<1>2. InUse' = Polled' \union QueuePages' \union BeingRead' \union arpPages'
  <2>1. PagesOf(held)' = Polled'
    BY DEF OwnersInv, PagesOf, Polled
  <2>2. PagesOf(reader)' = BeingRead'
    BY DEF PagesOf, BeingRead
  <2> QED
    BY <2>1, <2>2 DEF InUse
<1>3. OwnersInv
  BY DEF LeakInv
<1>4. CASE DecodeFrame
  <2> DEFINE m == APage(free)
             b == APage(free \ {m})
  <2>1. m \in free /\ b \in free
    BY <1>3, <1>4, TwoPages DEF OwnersInv, DecodeFrame
  <2>2. /\ pc = "decode" /\ pc' = "sort" /\ held' = [msg |-> m, buf |-> b] /\ free' = free \ {m, b}
        /\ queue' = queue /\ reader' = reader /\ arpPages' = arpPages
    BY <1>4 DEF DecodeFrame, Decode
  <2> HIDE DEF m, b
  <2>3. Polled = {} /\ Polled' = {m, b} /\ BeingRead' = BeingRead /\ QueuePages' = QueuePages
    BY <2>2 DEF Polled, BeingRead, QueuePages
  <2> QED
    BY <1>1, <1>2, <2>1, <2>2, <2>3 DEF Lost
<1>5. CASE SortQueued
  <2>1. /\ pc = "sort" /\ pc' = "clear" /\ free' = free \ {APage(free)} /\ APage(free) \in free
        /\ reader' = reader /\ arpPages' = arpPages
    BY <1>5 DEF SortQueued, Sort, APage
  <2>2. Polled = {held.msg, held.buf} /\ Polled' = {} /\ BeingRead' = BeingRead
    BY <2>1 DEF Polled, BeingRead
  <2>3. QueuePages' = QueuePages \union {APage(free), held.msg, held.buf}
    BY <1>3, <1>5, QueuePagesAfter
  <2> QED
    BY <1>1, <1>2, <2>1, <2>2, <2>3 DEF Lost
<1>6. CASE SortListed \/ SortFreed
  <2>1. /\ pc = "sort" /\ pc' = "clear" /\ reader' = reader /\ queue' = queue
    BY <1>6 DEF SortListed, SortFreed, Sort
  <2>2. PagesOf(held) = Polled /\ Polled' = {} /\ BeingRead' = BeingRead /\ QueuePages' = QueuePages
    BY <1>3, <2>1 DEF LeakInv, PagesOf, Polled, BeingRead, QueuePages
  <2>3. free' \union arpPages' = free \union arpPages \union Polled
    <3>1. CASE SortListed
      <4>1. /\ APage(free) \in free /\ arpPages' = arpPages \union {APage(free)}
            /\ free' = (free \ {APage(free)}) \union PagesOf(held)
        BY <3>1 DEF SortListed, FreeMessage, APage
      <4> QED
        BY <4>1, <2>2
    <3>2. CASE SortFreed
      BY <3>2, <2>2 DEF SortFreed, FreeMessage
    <3> QED
      BY <1>6, <3>1, <3>2
  <2> QED
    BY <1>1, <1>2, <2>2, <2>3 DEF Lost
<1>7. CASE ReadPop
  <2> DEFINE first == queue[1]
  <2>1. queue # <<>> /\ queue \in Seq(QueueEntry)
    BY <1>3, <1>7 DEF ReadPop, OwnersInv
  <2>2. Head(queue) = first
    BY <2>1, QueueOperations
  <2>3. /\ pc' = pc /\ held' = held /\ arpPages' = arpPages
        /\ reader = NoMessage /\ reader' = [msg |-> first.msg, buf |-> first.buf]
        /\ free' = free \union {first.entry}
    BY <1>7, <2>2 DEF ReadPop, vars
  <2>4. Polled' = Polled /\ BeingRead = {}
    BY <2>3 DEF Polled, BeingRead
  <2>5. BeingRead' = {first.msg, first.buf}
    <3>1. [msg |-> first.msg, buf |-> first.buf] # <<>>
      OBVIOUS
    <3> QED
      BY <2>3, <3>1 DEF BeingRead, NoMessage
  <2>6. QueuePages = QueuePages' \union {first.entry, first.msg, first.buf}
    BY <1>3, <1>7, QueuePagesAfter
  <2> QED
    BY <1>1, <1>2, <2>3, <2>4, <2>5, <2>6 DEF Lost
<1>8. CASE ReadFree
  <2>1. /\ pc' = pc /\ held' = held /\ queue' = queue /\ arpPages' = arpPages /\ reader' = NoMessage
        /\ free' = free \union BeingRead
    BY <1>3, <1>8, PolledPages DEF ReadFree, vars, FreeMessage
  <2>2. Polled' = Polled /\ BeingRead' = {} /\ QueuePages' = QueuePages
    BY <2>1 DEF Polled, BeingRead, QueuePages
  <2> QED
    BY <1>1, <1>2, <2>1, <2>2 DEF Lost
<1>9. CASE OtherRingStep \/ UNCHANGED rxPagesVars
  <2>1. /\ held' = held /\ queue' = queue /\ arpPages' = arpPages /\ reader' = reader /\ free' = free
    BY <1>9 DEF OtherRingStep, rxPagesVars, pageVars
  <2> QED
    BY <2>1 DEF Lost, InUse, QueuePages, PagesOf
<1> QED
  BY <1>4, <1>5, <1>6, <1>7, <1>8, <1>9

(* The pages that never come back are counted exactly, for any heap and any  *)
(* mix of frames.                                                            *)
THEOREM LeaksAreDropped == RxPagesSpec => []OnlyDroppedLeak
<1>1. RxPagesInit => LeakInv
  <2> SUFFICES ASSUME RxPagesInit PROVE LeakInv
    OBVIOUS
  <2>1. Lost = {} /\ dropped = 0 /\ pc = "test"
    BY DEF RxPagesInit, Init, Lost
  <2> QED
    BY <2>1, OwnersInitInv, FS_EmptySet DEF LeakInv
<1>2. LeakInv /\ [RxPagesNext]_rxPagesVars => LeakInv'
  <2> SUFFICES ASSUME LeakInv, [RxPagesNext]_rxPagesVars, ~SortDropped PROVE LeakInv'
    BY DroppedLeak
  <2>1. OwnersInv'
    BY DecodeFrameInv, SortMessageInv, SortQueuedInv, ReadPopInv, ReadFreeInv, OtherStepInv
       DEF RxPagesNext, LeakInv
  <2>2. dropped' = dropped
    BY DEF RxPagesNext, DecodeFrame, SortQueued, SortListed, SortFreed, OtherRingStep, ReadPop,
           ReadFree, rxPagesVars, pageVars
  <2>3. (pc = "sort" => held # NoMessage /\ held.msg # held.buf)'
    <3>1. CASE DecodeFrame
      <4> DEFINE m == APage(free)
                 b == APage(free \ {m})
      <4>1. b # m
        BY <3>1, TwoPages DEF LeakInv, OwnersInv, DecodeFrame
      <4>2. held' = [msg |-> m, buf |-> b]
        BY <3>1 DEF DecodeFrame
      <4> HIDE DEF m, b
      <4>3. [msg |-> m, buf |-> b] # <<>>
        OBVIOUS
      <4> QED
        BY <4>1, <4>2, <4>3 DEF NoMessage
    <3>2. CASE SortQueued \/ SortListed \/ SortFreed
      BY <3>2 DEF SortQueued, SortListed, SortFreed, Sort
    <3>3. CASE OtherRingStep \/ ReadPop \/ ReadFree \/ UNCHANGED rxPagesVars
      <4>1. held' = held /\ (pc' = "sort" => pc = "sort")
        BY <3>3 DEF OtherRingStep, Receive, Test, Clear, ReadPop, ReadFree, rxPagesVars, pageVars, vars
      <4> QED
        BY <4>1 DEF LeakInv
    <3> QED
      BY <3>1, <3>2, <3>3 DEF RxPagesNext
  <2>4. Lost' = Lost
    BY <2>1, <2>2, <2>3, NothingElseLeaks DEF RxPagesNext
  <2> QED
    BY <2>1, <2>2, <2>3, <2>4 DEF LeakInv
<1>3. LeakInv => OnlyDroppedLeak
  BY DEF LeakInv, OnlyDroppedLeak, Lost
<1> QED
  BY <1>1, <1>2, <1>3, PTL DEF RxPagesSpec
=============================================================================
