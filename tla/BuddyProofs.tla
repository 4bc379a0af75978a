----------------------------- MODULE BuddyProofs -----------------------------
(***************************************************************************)
(* Theorems about Buddy for every number and order of the blocks and every *)
(* sequence of calls, up to the first relink: splits, the two merges and   *)
(* the descent of kfree() keep a tree that tells which pages are held, and *)
(* free lists that are lists.                                              *)
(***************************************************************************)
EXTENDS Buddy, FiniteSetTheorems, WellFoundedInduction, TLAPS

-----------------------------------------------------------------------------
(* Induction over numbers, and functions defined by recursion on them.       *)

\* A set of numbers that is not empty has a least one.
LEMMA LeastNumber ==
    ASSUME NEW S \in SUBSET Nat, S # {}
    PROVE  \E m \in S : \A k \in S : m <= k
<1>1. IsWellFoundedOn(OpToRel(<, Nat), Nat)
  BY NatLessThanWellFounded
<1>2. PICK m \in S : \A k \in S : ~ (<<k, m>> \in OpToRel(<, Nat))
  BY <1>1, WFMin
<1>3. \A k \in S : ~(k < m)
  BY <1>2 DEF OpToRel
<1> QED
  BY <1>3

\* What holds of 0 and of i when it holds of i - 1 holds up to n.
LEMMA UpTo ==
    ASSUME NEW n \in Nat, NEW Good, 0 \in Good,
           \A i \in 1 .. n : i - 1 \in Good => i \in Good
    PROVE  \A i \in 0 .. n : i \in Good
<1> DEFINE Bad == {i \in 0 .. n : i \notin Good}
<1>1. SUFFICES ASSUME Bad # {} PROVE FALSE
  OBVIOUS
<1>2. PICK m \in Bad : \A k \in Bad : m <= k
  <2>1. Bad \in SUBSET Nat
    OBVIOUS
  <2> HIDE DEF Bad
  <2> QED
    BY <1>1, <2>1, LeastNumber
<1>3. m \in 1 .. n /\ m - 1 \in 0 .. n
  BY <1>2
<1>4. m - 1 \in Good
  BY <1>2, <1>3
<1> QED
  BY <1>2, <1>3, <1>4

\* One turn of each recursion of the module.
Turn(kind, h, i, before) ==
    CASE kind = "Type"              -> IF i = 0 THEN 1 ELSE 2 * before
      [] kind = "Split"             ->
             [a \in Heaps \X Nodes \X Nat |-> SplitTurn(before, a[1], a[2], a[3])]
      [] kind = "MergeBnode"        ->
             [a \in Heaps \X Nodes \X Nat |-> MergeBnodeTurn(before, a[1], a[2], a[3])]
      [] kind = "MergeBnodeNolimit" ->
             [a \in Heaps \X Nodes |-> MergeBnodeNolimitTurn(before, a[1], a[2])]
      [] kind = "RootFrom"          ->
             [a \in Heaps \X Nodes \X Pages |-> RootTurn(before, a[1], a[2], a[3])]
      [] kind = "LiveAt"            -> IF i = 0 THEN MaxNodes ELSE Leaves(h, before)
      [] kind = "ListNode"          ->
             IF i = 0 THEN h[1].first[h[2]]
             ELSE IF before = Null THEN Null ELSE h[1].node[before].next

Before(f, i) == IF i = 0 THEN <<>> ELSE f[i - 1]

Recurses(f, kind, h, n) == f = [i \in 0 .. n |-> Turn(kind, h, i, Before(f, i))]

\* The function such a recursion defines exists.
LEMMA Recursion ==
    ASSUME NEW kind, NEW h, NEW n \in Nat
    PROVE  \E f : Recurses(f, kind, h, n)
<1> DEFINE Good == {k \in 0 .. n : \E f : f = [i \in 0 .. k |-> Turn(kind, h, i, Before(f, i))]}
<1>1. 0 \in Good
  <2> DEFINE f == [i \in 0 .. 0 |-> Turn(kind, h, i, <<>>)]
  <2>1. \A i \in 0 .. 0 : Before(f, i) = <<>>
    BY DEF Before
  <2>2. f = [i \in 0 .. 0 |-> Turn(kind, h, i, Before(f, i))]
    BY <2>1
  <2> QED
    BY <2>2
<1>2. ASSUME NEW k \in 1 .. n, k - 1 \in Good PROVE k \in Good
  <2>1. PICK f : f = [i \in 0 .. k - 1 |-> Turn(kind, h, i, Before(f, i))]
    BY <1>2
  <2> DEFINE g == [i \in 0 .. k |-> Turn(kind, h, i, Before(f, i))]
  <2>2. ASSUME NEW i \in 0 .. k PROVE Before(g, i) = Before(f, i)
    <3>1. CASE i = 0
      BY <3>1 DEF Before
    <3>2. CASE i # 0
      <4>1. i - 1 \in 0 .. k /\ i - 1 \in 0 .. k - 1
        BY <3>2
      <4>2. g[i - 1] = Turn(kind, h, i - 1, Before(f, i - 1))
        BY <4>1
      <4>3. f[i - 1] = Turn(kind, h, i - 1, Before(f, i - 1))
        BY <2>1, <4>1
      <4> QED
        BY <3>2, <4>2, <4>3 DEF Before
    <3> QED
      BY <3>1, <3>2
  <2>3. g = [i \in 0 .. k |-> Turn(kind, h, i, Before(g, i))]
    BY <2>2
  <2> HIDE DEF g
  <2> QED
    BY <2>3
<1>3. n \in Good
  <2> HIDE DEF Good
  <2>1. n \in 0 .. n
    OBVIOUS
  <2> QED
    BY <1>1, <1>2, <2>1, UpTo
<1> QED
  BY <1>3 DEF Recurses

-----------------------------------------------------------------------------
(* What the recursive definitions of Buddy say of the order above.           *)

LEMMA MaxOrderIsNumber == MaxOrder \in Nat
  BY BuddyAssumption

LEMMA TypeOfOrder ==
    /\ \A o \in Orders : Type[o] \in Nat \ {0}
    /\ Type[0] = 1
    /\ \A o \in 1 .. MaxOrder : Type[o] = 2 * Type[o - 1]
<1>1. PICK f : Recurses(f, "Type", 0, MaxOrder)
  BY Recursion, MaxOrderIsNumber
<1>2. f = [o \in Orders |-> IF o = 0 THEN 1 ELSE 2 * f[o - 1]]
  <2>1. ASSUME NEW o \in Orders
        PROVE  Turn("Type", 0, o, Before(f, o)) = IF o = 0 THEN 1 ELSE 2 * f[o - 1]
    BY DEF Turn, Before
  <2> QED
    BY <1>1, <2>1 DEF Recurses, Orders
<1>3. Type = [o \in Orders |-> IF o = 0 THEN 1 ELSE 2 * Type[o - 1]]
  BY <1>2 DEF Type
<1>4. 0 \in Orders /\ \A o \in 1 .. MaxOrder : o \in Orders /\ o - 1 \in Orders /\ o # 0
  BY BuddyAssumption DEF Orders
<1>5. Type[0] = 1
  BY <1>3, <1>4
<1>6. \A o \in 1 .. MaxOrder : Type[o] = 2 * Type[o - 1]
  BY <1>3, <1>4
<1> DEFINE Good == {o \in Orders : Type[o] \in Nat \ {0}}
<1>7. 0 \in Good
  BY <1>4, <1>5
<1>8. ASSUME NEW o \in 1 .. MaxOrder, o - 1 \in Good PROVE o \in Good
  BY <1>4, <1>6, <1>8
<1>9. \A o \in 0 .. MaxOrder : o \in Good
  <2> HIDE DEF Good
  <2> QED
    BY <1>7, <1>8, UpTo, BuddyAssumption
<1> QED
  BY <1>5, <1>6, <1>9 DEF Orders

\* A block has no fewer pages than one of a lower order.
LEMMA TypeGrows ==
    ASSUME NEW o \in Orders, NEW p \in Orders, p <= o
    PROVE  Type[p] <= Type[o]
<1> DEFINE Good == {q \in Nat : p + q <= MaxOrder => Type[p] <= Type[p + q]}
<1>1. 0 \in Good
  BY TypeOfOrder DEF Orders
<1>2. ASSUME NEW q \in 1 .. MaxOrder, q - 1 \in Good PROVE q \in Good
  <2>1. SUFFICES ASSUME p + q <= MaxOrder PROVE Type[p] <= Type[p + q]
    OBVIOUS
  <2>2. p + q \in 1 .. MaxOrder /\ p + q - 1 \in Orders /\ p + (q - 1) = p + q - 1
    BY <2>1, BuddyAssumption DEF Orders
  <2>3. Type[p] <= Type[p + q - 1]
    BY <1>2, <2>2 DEF Orders
  <2>4. Type[p + q] = 2 * Type[p + q - 1] /\ Type[p + q - 1] \in Nat /\ Type[p] \in Nat
    BY <2>2, TypeOfOrder DEF Orders
  <2> QED
    BY <2>3, <2>4
<1>3. \A q \in 0 .. MaxOrder : q \in Good
  <2> HIDE DEF Good
  <2> QED
    BY <1>1, <1>2, UpTo, BuddyAssumption
<1>4. o - p \in 0 .. MaxOrder /\ p + (o - p) = o
  BY BuddyAssumption DEF Orders
<1> QED
  BY <1>3, <1>4 DEF Orders

LEMMA SplitUnfolds ==
    ASSUME NEW o \in Orders, NEW h \in Heaps, NEW n \in Nodes, NEW size \in Nat
    PROVE  Split[o][<<h, n, size>>] = SplitTurn(IF o = 0 THEN <<>> ELSE Split[o - 1], h, n, size)
<1>1. PICK f : Recurses(f, "Split", 0, MaxOrder)
  BY Recursion, MaxOrderIsNumber
<1>2. f = [i \in Orders |->
             [a \in Heaps \X Nodes \X Nat |->
                 SplitTurn(IF i = 0 THEN <<>> ELSE f[i - 1], a[1], a[2], a[3])]]
  BY <1>1 DEF Recurses, Turn, Before, Orders
<1>3. Split = [i \in Orders |->
             [a \in Heaps \X Nodes \X Nat |->
                 SplitTurn(IF i = 0 THEN <<>> ELSE Split[i - 1], a[1], a[2], a[3])]]
  BY <1>2 DEF Split
<1> HIDE DEF Split
<1>4. Split[o] = [a \in Heaps \X Nodes \X Nat |->
             SplitTurn(IF o = 0 THEN <<>> ELSE Split[o - 1], a[1], a[2], a[3])]
  BY <1>3
<1> DEFINE below == IF o = 0 THEN <<>> ELSE Split[o - 1]
<1>5. <<h, n, size>> \in Heaps \X Nodes \X Nat
  OBVIOUS
<1> HIDE DEF below
<1>6. [a \in Heaps \X Nodes \X Nat |-> SplitTurn(below, a[1], a[2], a[3])][<<h, n, size>>] = SplitTurn(below, h, n, size)
  BY <1>5
<1> QED
  BY <1>4, <1>6 DEF below

LEMMA MergeBnodeUnfolds ==
    ASSUME NEW o \in Orders, NEW h \in Heaps, NEW n \in Nodes, NEW limit \in Nat
    PROVE  MergeBnode[o][<<h, n, limit>>] = MergeBnodeTurn(IF o = 0 THEN <<>> ELSE MergeBnode[o - 1], h, n, limit)
<1>1. PICK f : Recurses(f, "MergeBnode", 0, MaxOrder)
  BY Recursion, MaxOrderIsNumber
<1>2. f = [i \in Orders |->
             [a \in Heaps \X Nodes \X Nat |->
                 MergeBnodeTurn(IF i = 0 THEN <<>> ELSE f[i - 1], a[1], a[2], a[3])]]
  BY <1>1 DEF Recurses, Turn, Before, Orders
<1>3. MergeBnode = [i \in Orders |->
             [a \in Heaps \X Nodes \X Nat |->
                 MergeBnodeTurn(IF i = 0 THEN <<>> ELSE MergeBnode[i - 1], a[1], a[2], a[3])]]
  BY <1>2 DEF MergeBnode
<1> HIDE DEF MergeBnode
<1>4. MergeBnode[o] = [a \in Heaps \X Nodes \X Nat |->
             MergeBnodeTurn(IF o = 0 THEN <<>> ELSE MergeBnode[o - 1], a[1], a[2], a[3])]
  BY <1>3
<1> DEFINE below == IF o = 0 THEN <<>> ELSE MergeBnode[o - 1]
<1>5. <<h, n, limit>> \in Heaps \X Nodes \X Nat
  OBVIOUS
<1> HIDE DEF below
<1>6. [a \in Heaps \X Nodes \X Nat |-> MergeBnodeTurn(below, a[1], a[2], a[3])][<<h, n, limit>>] = MergeBnodeTurn(below, h, n, limit)
  BY <1>5
<1> QED
  BY <1>4, <1>6 DEF below

LEMMA NolimitUnfolds ==
    ASSUME NEW o \in Orders, NEW h \in Heaps, NEW n \in Nodes
    PROVE  MergeBnodeNolimit[o][<<h, n>>] = MergeBnodeNolimitTurn(IF o = 0 THEN <<>> ELSE MergeBnodeNolimit[o - 1], h, n)
<1>1. PICK f : Recurses(f, "MergeBnodeNolimit", 0, MaxOrder)
  BY Recursion, MaxOrderIsNumber
<1>2. f = [i \in Orders |->
             [a \in Heaps \X Nodes |->
                 MergeBnodeNolimitTurn(IF i = 0 THEN <<>> ELSE f[i - 1], a[1], a[2])]]
  BY <1>1 DEF Recurses, Turn, Before, Orders
<1>3. MergeBnodeNolimit = [i \in Orders |->
             [a \in Heaps \X Nodes |->
                 MergeBnodeNolimitTurn(IF i = 0 THEN <<>> ELSE MergeBnodeNolimit[i - 1], a[1], a[2])]]
  BY <1>2 DEF MergeBnodeNolimit
<1> HIDE DEF MergeBnodeNolimit
<1>4. MergeBnodeNolimit[o] = [a \in Heaps \X Nodes |->
             MergeBnodeNolimitTurn(IF o = 0 THEN <<>> ELSE MergeBnodeNolimit[o - 1], a[1], a[2])]
  BY <1>3
<1> DEFINE below == IF o = 0 THEN <<>> ELSE MergeBnodeNolimit[o - 1]
<1>5. <<h, n>> \in Heaps \X Nodes
  OBVIOUS
<1> HIDE DEF below
<1>6. [a \in Heaps \X Nodes |-> MergeBnodeNolimitTurn(below, a[1], a[2])][<<h, n>>] = MergeBnodeNolimitTurn(below, h, n)
  BY <1>5
<1> QED
  BY <1>4, <1>6 DEF below

LEMMA RootUnfolds ==
    ASSUME NEW o \in Orders, NEW h \in Heaps, NEW n \in Nodes, NEW page \in Pages
    PROVE  RootFrom[o][<<h, n, page>>] = RootTurn(IF o = 0 THEN <<>> ELSE RootFrom[o - 1], h, n, page)
<1>1. PICK f : Recurses(f, "RootFrom", 0, MaxOrder)
  BY Recursion, MaxOrderIsNumber
<1>2. f = [i \in Orders |->
             [a \in Heaps \X Nodes \X Pages |->
                 RootTurn(IF i = 0 THEN <<>> ELSE f[i - 1], a[1], a[2], a[3])]]
  BY <1>1 DEF Recurses, Turn, Before, Orders
<1>3. RootFrom = [i \in Orders |->
             [a \in Heaps \X Nodes \X Pages |->
                 RootTurn(IF i = 0 THEN <<>> ELSE RootFrom[i - 1], a[1], a[2], a[3])]]
  BY <1>2 DEF RootFrom
<1> HIDE DEF RootFrom
<1>4. RootFrom[o] = [a \in Heaps \X Nodes \X Pages |->
             RootTurn(IF o = 0 THEN <<>> ELSE RootFrom[o - 1], a[1], a[2], a[3])]
  BY <1>3
<1> DEFINE below == IF o = 0 THEN <<>> ELSE RootFrom[o - 1]
<1>5. <<h, n, page>> \in Heaps \X Nodes \X Pages
  OBVIOUS
<1> HIDE DEF below
<1>6. [a \in Heaps \X Nodes \X Pages |-> RootTurn(below, a[1], a[2], a[3])][<<h, n, page>>] = RootTurn(below, h, n, page)
  BY <1>5
<1> QED
  BY <1>4, <1>6 DEF below

-----------------------------------------------------------------------------
(* The fields of a heap, and what the stores of the code change.             *)

Low == Nodes \ MaxNodes

Status(h, n) == h.node[n].status
Order(h, n)  == h.node[n].order
At(h, n)     == h.node[n].address
Left(h, n)   == h.node[n].left
Right(h, n)  == h.node[n].right
NextOf(h, n) == h.node[n].next
PrevOf(h, n) == h.node[n].prev
First(h, o)  == h.first[o]

LEMMA FieldTypes ==
    ASSUME NEW h \in Heaps, NEW n \in Nodes
    PROVE  /\ Status(h, n) \in {"allocated", "unallocated", "nonode"}
           /\ Order(h, n) \in Orders /\ At(h, n) \in Pages
           /\ Left(h, n) \in Links /\ Right(h, n) \in Links
           /\ NextOf(h, n) \in Links /\ PrevOf(h, n) \in Links
           /\ \A o \in Orders : First(h, o) \in Links
<1>1. h.node[n] \in NodeRecords /\ \A o \in Orders : h.first[o] \in Links
  BY DEF Heaps
<1> QED
  BY <1>1 DEF NodeRecords, Status, Order, At, Left, Right, NextOf, PrevOf, First

\* Node and page numbers are numbers.
LEMMA Numbers ==
    /\ Nodes \subseteq Nat \ {0} /\ Pages \subseteq Nat /\ MaxNodes \subseteq Nodes
    /\ Null \in Links /\ Null \notin Nodes /\ Nodes \subseteq Links
    /\ NodesPerBlock \in Nat \ {0}
<1>1. Type[MaxOrder] \in Nat \ {0}
  BY TypeOfOrder, MaxOrderIsNumber DEF Orders
<1>2. NodesPerBlock \in Nat \ {0}
  BY <1>1 DEF NodesPerBlock
<1>3. Nodes \subseteq Nat \ {0} /\ Pages \subseteq Nat
  BY DEF Nodes, Pages
<1>4. ASSUME NEW b \in 1 .. Blocks PROVE MaxNode(b) \in Nodes
  <2> DEFINE c == b - 1
             k == NodesPerBlock
  <2>1. c \in Nat /\ c + 1 <= Blocks /\ Blocks \in Nat /\ k \in Nat \ {0}
    BY <1>2, BuddyAssumption
  <2>2. c * k \in Nat /\ (c + 1) * k <= Blocks * k /\ (c + 1) * k = c * k + k
    <3> HIDE DEF c, k
    <3> QED
      BY <2>1, SMT
  <2>3. MaxNode(b) = 1 + c * k
    BY DEF MaxNode
  <2>4. Nodes = 1 .. Blocks * k /\ Blocks * k \in Nat
    <3>1. Blocks * k \in Nat
      <4> HIDE DEF k
      <4> QED
        BY <2>1, SMT
    <3> QED
      BY <3>1 DEF Nodes
  <2> HIDE DEF c, k
  <2> QED
    BY <2>1, <2>2, <2>3, <2>4
<1> QED
  BY <1>2, <1>3, <1>4 DEF MaxNodes, Links, Null

\* The tree of a heap: what is not a link.
SameTree(h, g, S) ==
    \A k \in S : /\ Status(g, k) = Status(h, k) /\ Order(g, k) = Order(h, k)
                 /\ At(g, k) = At(h, k) /\ Left(g, k) = Left(h, k) /\ Right(g, k) = Right(h, k)

SameLinks(h, g, S) == \A k \in S : NextOf(g, k) = NextOf(h, k) /\ PrevOf(g, k) = PrevOf(h, k)

\* A record stored in a heap.
LEMMA RecordStored ==
    ASSUME NEW h \in Heaps, NEW n \in Nodes, NEW rec \in NodeRecords
    PROVE  LET g == [h EXCEPT !.node[n] = rec] IN
           /\ g \in Heaps /\ g.first = h.first /\ g.relinked = h.relinked
           /\ g.node[n] = rec /\ \A k \in Nodes \ {n} : g.node[k] = h.node[k]
  BY DEF Heaps

LEMMA FirstStored ==
    ASSUME NEW h \in Heaps, NEW o \in Orders, NEW m \in Links, NEW g, g = [h EXCEPT !.first[o] = m]
    PROVE  /\ g \in Heaps /\ g.node = h.node /\ g.relinked = h.relinked
           /\ SameTree(h, g, Nodes) /\ SameLinks(h, g, Nodes)
           /\ \A p \in Orders : First(g, p) = IF p = o THEN m ELSE First(h, p)
<1>1. /\ g \in Heaps /\ g.node = h.node /\ g.relinked = h.relinked
      /\ \A p \in Orders : g.first[p] = IF p = o THEN m ELSE h.first[p]
  BY DEF Heaps
<1>2. SameTree(h, g, Nodes) /\ SameLinks(h, g, Nodes)
  BY <1>1 DEF SameTree, SameLinks, Status, Order, At, Left, Right, NextOf, PrevOf
<1> QED
  BY <1>1, <1>2 DEF First

LEMMA StoreNextDoes ==
    ASSUME NEW h \in Heaps, NEW n \in Links, NEW m \in Links
    PROVE  LET g == StoreNext(h, n, m) IN
           /\ g \in Heaps /\ g.first = h.first /\ g.relinked = h.relinked /\ SameTree(h, g, Nodes)
           /\ \A k \in Nodes : /\ NextOf(g, k) = IF k = n THEN m ELSE NextOf(h, k)
                               /\ PrevOf(g, k) = PrevOf(h, k)
<1> DEFINE g == StoreNext(h, n, m)
           rec == [h.node[n] EXCEPT !.next = m]
<1>1. CASE n = Null
  BY <1>1, Numbers DEF StoreNext, SameTree
<1>2. CASE n # Null
  <2>1. n \in Nodes
    BY <1>2 DEF Links
  <2>2. rec \in NodeRecords /\ rec.next = m /\ rec.prev = h.node[n].prev
        /\ rec.status = h.node[n].status /\ rec.order = h.node[n].order
        /\ rec.address = h.node[n].address /\ rec.left = h.node[n].left
        /\ rec.right = h.node[n].right
    <3>1. h.node[n] \in NodeRecords
      BY <2>1 DEF Heaps
    <3> QED
      BY <3>1 DEF NodeRecords
  <2> HIDE DEF rec
  <2>3. g = [h EXCEPT !.node[n] = rec]
    BY <1>2 DEF StoreNext, rec
  <2>4. /\ g \in Heaps /\ g.first = h.first /\ g.relinked = h.relinked
        /\ g.node[n] = rec /\ \A k \in Nodes \ {n} : g.node[k] = h.node[k]
    BY <2>1, <2>2, <2>3, RecordStored
  <2> HIDE DEF g
  <2> QED
    BY <2>1, <2>2, <2>4 DEF SameTree, Status, Order, At, Left, Right, NextOf, PrevOf, g
<1> QED
  BY <1>1, <1>2

LEMMA StorePrevDoes ==
    ASSUME NEW h \in Heaps, NEW n \in Links, NEW m \in Links
    PROVE  LET g == StorePrev(h, n, m) IN
           /\ g \in Heaps /\ g.first = h.first /\ g.relinked = h.relinked /\ SameTree(h, g, Nodes)
           /\ \A k \in Nodes : /\ PrevOf(g, k) = IF k = n THEN m ELSE PrevOf(h, k)
                               /\ NextOf(g, k) = NextOf(h, k)
<1> DEFINE g == StorePrev(h, n, m)
           rec == [h.node[n] EXCEPT !.prev = m]
<1>1. CASE n = Null
  BY <1>1, Numbers DEF StorePrev, SameTree
<1>2. CASE n # Null
  <2>1. n \in Nodes
    BY <1>2 DEF Links
  <2>2. rec \in NodeRecords /\ rec.prev = m /\ rec.next = h.node[n].next
        /\ rec.status = h.node[n].status /\ rec.order = h.node[n].order
        /\ rec.address = h.node[n].address /\ rec.left = h.node[n].left
        /\ rec.right = h.node[n].right
    <3>1. h.node[n] \in NodeRecords
      BY <2>1 DEF Heaps
    <3> QED
      BY <3>1 DEF NodeRecords
  <2> HIDE DEF rec
  <2>3. g = [h EXCEPT !.node[n] = rec]
    BY <1>2 DEF StorePrev, rec
  <2>4. /\ g \in Heaps /\ g.first = h.first /\ g.relinked = h.relinked
        /\ g.node[n] = rec /\ \A k \in Nodes \ {n} : g.node[k] = h.node[k]
    BY <2>1, <2>2, <2>3, RecordStored
  <2> HIDE DEF g
  <2> QED
    BY <2>1, <2>2, <2>4 DEF SameTree, Status, Order, At, Left, Right, NextOf, PrevOf, g
<1> QED
  BY <1>1, <1>2

\* The tests of the code, in terms of the fields.
Inner(h, n) == Left(h, n) # Null /\ Right(h, n) # Null
Linked(h, n) == NextOf(h, n) # Null \/ PrevOf(h, n) # Null \/ First(h, Order(h, n)) = n

LEMMA Tests ==
    ASSUME NEW h, NEW n
    PROVE  /\ HasLeaves(h, n) <=> Inner(h, n)
           /\ OnList(h, n) <=> Linked(h, n)
           /\ BothLeavesFree(h, n) <=> /\ Status(h, Left(h, n)) = "unallocated"
                                       /\ Status(h, Right(h, n)) = "unallocated"
  BY DEF HasLeaves, Inner, OnList, Linked, BothLeavesFree, NextOf, PrevOf, First, Order, Left, Right, Status

LEMMA SameTreeThrough ==
    ASSUME NEW f, NEW g, NEW h, NEW S, SameTree(f, g, S), SameTree(g, h, S)
    PROVE  SameTree(f, h, S)
  BY DEF SameTree

LEMMA PushFirstDoes ==
    ASSUME NEW h \in Heaps, NEW n \in Nodes
    PROVE  LET g == PushFirst(h, n)
               f == First(h, Order(h, n))
           IN  /\ g \in Heaps /\ g.relinked = h.relinked /\ SameTree(h, g, Nodes)
               /\ \A k \in Nodes : /\ NextOf(g, k) = IF k = n THEN f ELSE NextOf(h, k)
                                   /\ PrevOf(g, k) = IF k = f THEN n ELSE PrevOf(h, k)
               /\ \A p \in Orders : First(g, p) = IF p = Order(h, n) THEN n ELSE First(h, p)
<1> DEFINE g  == PushFirst(h, n)
           o  == Order(h, n)
           f  == First(h, o)
           h1 == StoreNext(h, n, f)
           h2 == StorePrev(h1, f, n)
<1>1. o \in Orders /\ f \in Links /\ n \in Links
  BY FieldTypes, Numbers
<1>2. g = [h2 EXCEPT !.first[o] = n]
  BY DEF PushFirst, First, Order
<1>3. /\ h1 \in Heaps /\ h1.first = h.first /\ h1.relinked = h.relinked /\ SameTree(h, h1, Nodes)
      /\ \A k \in Nodes : /\ NextOf(h1, k) = IF k = n THEN f ELSE NextOf(h, k)
                          /\ PrevOf(h1, k) = PrevOf(h, k)
  <2> HIDE DEF f
  <2> QED
    BY <1>1, StoreNextDoes
<1>4. /\ h2 \in Heaps /\ h2.first = h1.first /\ h2.relinked = h1.relinked /\ SameTree(h1, h2, Nodes)
      /\ \A k \in Nodes : /\ PrevOf(h2, k) = IF k = f THEN n ELSE PrevOf(h1, k)
                          /\ NextOf(h2, k) = NextOf(h1, k)
  <2> HIDE DEF f, h1
  <2> QED
    BY <1>1, <1>3, StorePrevDoes
<1>5. /\ g \in Heaps /\ g.node = h2.node /\ g.relinked = h2.relinked
      /\ SameTree(h2, g, Nodes) /\ SameLinks(h2, g, Nodes)
      /\ \A p \in Orders : First(g, p) = IF p = o THEN n ELSE First(h2, p)
  <2> HIDE DEF h2, o, g
  <2> QED
    BY <1>1, <1>2, <1>4, FirstStored
<1>6. \A p \in Orders : First(h2, p) = First(h, p)
  BY <1>3, <1>4 DEF First
<1>7. SameTree(h, g, Nodes)
  <2> HIDE DEF h1, h2, g
  <2> QED
    BY <1>3, <1>4, <1>5, SameTreeThrough
<1>8. g.relinked = h.relinked
  BY <1>3, <1>4, <1>5
<1> HIDE DEF h1, h2, g, o, f
<1>9. \A k \in Nodes : /\ NextOf(g, k) = IF k = n THEN f ELSE NextOf(h, k)
                       /\ PrevOf(g, k) = IF k = f THEN n ELSE PrevOf(h, k)
  BY <1>3, <1>4, <1>5 DEF SameLinks
<1> QED
  BY <1>5, <1>6, <1>7, <1>8, <1>9 DEF o, f, g

LEMMA UnlinkDoes ==
    ASSUME NEW h \in Heaps, NEW n \in Nodes
    PROVE  LET g == Unlink(h, n)
               x == NextOf(h, n)
               p == PrevOf(h, n)
               o == Order(h, n)
           IN  /\ g \in Heaps /\ g.relinked = h.relinked /\ SameTree(h, g, Nodes)
               /\ ~Linked(h, n) => g = h
               /\ Linked(h, n) =>
                    /\ \A k \in Nodes :
                          /\ NextOf(g, k) = IF k = n THEN Null ELSE IF k = p THEN x ELSE NextOf(h, k)
                          /\ PrevOf(g, k) = IF k = n THEN Null ELSE IF k = x THEN p ELSE PrevOf(h, k)
                    /\ \A q \in Orders :
                          First(g, q) = IF q = o /\ First(h, o) = n THEN x ELSE First(h, q)
<1> DEFINE g  == Unlink(h, n)
           x  == NextOf(h, n)
           p  == PrevOf(h, n)
           o  == Order(h, n)
           e  == IF First(h, o) = n THEN x ELSE First(h, o)
           h1 == [h EXCEPT !.first[o] = e]
           h2 == StoreNext(h1, p, x)
           h3 == StorePrev(h2, x, p)
           h4 == StoreNext(h3, n, Null)
           h5 == StorePrev(h4, n, Null)
<1>1. o \in Orders /\ x \in Links /\ p \in Links /\ n \in Links /\ Null \in Links /\ First(h, o) \in Links
  BY FieldTypes, Numbers
<1>2. e \in Links
  BY SMTT(30), <1>1
<1>3. g = IF Linked(h, n) THEN h5 ELSE h
  <2>1. h1 = [h EXCEPT !.first[o] = IF @ = n THEN x ELSE @]
    BY DEF First
  <2> HIDE DEF h1
  <2> QED
    BY <2>1, Tests DEF Unlink, NextOf, PrevOf, Order
<1>4. /\ h1 \in Heaps /\ h1.relinked = h.relinked
      /\ SameTree(h, h1, Nodes) /\ SameLinks(h, h1, Nodes)
      /\ \A q \in Orders : First(h1, q) = IF q = o THEN e ELSE First(h, q)
  <2>1. h1 = [h EXCEPT !.first[o] = e]
    OBVIOUS
  <2> HIDE DEF e, o, h1
  <2> QED
    BY <1>1, <1>2, <2>1, FirstStored
<1>5. /\ h2 \in Heaps /\ h2.first = h1.first /\ h2.relinked = h1.relinked /\ SameTree(h1, h2, Nodes)
      /\ \A k \in Nodes : /\ NextOf(h2, k) = IF k = p THEN x ELSE NextOf(h1, k)
                          /\ PrevOf(h2, k) = PrevOf(h1, k)
  <2> HIDE DEF h1, p, x
  <2> QED
    BY <1>1, <1>4, StoreNextDoes
<1>6. /\ h3 \in Heaps /\ h3.first = h2.first /\ h3.relinked = h2.relinked /\ SameTree(h2, h3, Nodes)
      /\ \A k \in Nodes : /\ PrevOf(h3, k) = IF k = x THEN p ELSE PrevOf(h2, k)
                          /\ NextOf(h3, k) = NextOf(h2, k)
  <2> HIDE DEF h2, p, x
  <2> QED
    BY ZenonT(30), <1>1, <1>5, StorePrevDoes
<1>7. /\ h4 \in Heaps /\ h4.first = h3.first /\ h4.relinked = h3.relinked /\ SameTree(h3, h4, Nodes)
      /\ \A k \in Nodes : /\ NextOf(h4, k) = IF k = n THEN Null ELSE NextOf(h3, k)
                          /\ PrevOf(h4, k) = PrevOf(h3, k)
  <2> HIDE DEF h3
  <2> QED
    BY <1>1, <1>6, StoreNextDoes
<1>8. /\ h5 \in Heaps /\ h5.first = h4.first /\ h5.relinked = h4.relinked /\ SameTree(h4, h5, Nodes)
      /\ \A k \in Nodes : /\ PrevOf(h5, k) = IF k = n THEN Null ELSE PrevOf(h4, k)
                          /\ NextOf(h5, k) = NextOf(h4, k)
  <2> HIDE DEF h4
  <2> QED
    BY <1>1, <1>7, StorePrevDoes
<1>9. \A q \in Orders : First(h5, q) = First(h1, q)
  <2> HIDE DEF h1, h2, h3, h4, h5
  <2> QED
    BY <1>5, <1>6, <1>7, <1>8 DEF First
<1>10. SameTree(h, h5, Nodes)
  <2> HIDE DEF h1, h2, h3, h4, h5
  <2>1. SameTree(h, h2, Nodes)
    BY <1>4, <1>5, SameTreeThrough
  <2>2. SameTree(h, h3, Nodes)
    BY <2>1, <1>6, SameTreeThrough
  <2>3. SameTree(h, h4, Nodes)
    BY <2>2, <1>7, SameTreeThrough
  <2> QED
    BY <2>3, <1>8, SameTreeThrough
<1>11. h5 \in Heaps /\ h5.relinked = h.relinked
  <2> HIDE DEF h1, h2, h3, h4, h5
  <2> QED
    BY <1>4, <1>5, <1>6, <1>7, <1>8
<1>12. \A k \in Nodes :
          /\ NextOf(h5, k) = IF k = n THEN Null ELSE IF k = p THEN x ELSE NextOf(h, k)
          /\ PrevOf(h5, k) = IF k = n THEN Null ELSE IF k = x THEN p ELSE PrevOf(h, k)
  <2> HIDE DEF h1, h2, h3, h4, h5, p, x
  <2> QED
    BY <1>4, <1>5, <1>6, <1>7, <1>8 DEF SameLinks
<1>13. \A q \in Orders : First(h5, q) = IF q = o /\ First(h, o) = n THEN x ELSE First(h, q)
  <2> HIDE DEF h1, h2, h3, h4, h5, x, o
  <2> QED
    BY <1>4, <1>9
<1>14. SameTree(h, h, Nodes)
  BY DEF SameTree
<1> HIDE DEF h1, h2, h3, h4, h5
<1> QED
  BY <1>3, <1>10, <1>11, <1>12, <1>13, <1>14

\* The tree of g is that of h but for the status of n.
StatusSet(h, g, n, s) ==
    /\ SameTree(h, g, Nodes \ {n})
    /\ Status(g, n) = s
    /\ Order(g, n) = Order(h, n) /\ At(g, n) = At(h, n)
    /\ Left(g, n) = Left(h, n) /\ Right(g, n) = Right(h, n)

\* The free lists of g are those of h.
SameLists(h, g) == g.first = h.first /\ g.relinked = h.relinked /\ SameLinks(h, g, Nodes)

LEMMA StatusSetDoes ==
    ASSUME NEW h \in Heaps, NEW n \in Nodes, NEW s \in {"allocated", "unallocated", "nonode"}
    PROVE  LET g == [h EXCEPT !.node[n].status = s]
           IN  g \in Heaps /\ SameLists(h, g) /\ StatusSet(h, g, n, s)
<1> DEFINE g   == [h EXCEPT !.node[n].status = s]
           rec == [h.node[n] EXCEPT !.status = s]
<1>1. rec \in NodeRecords /\ rec.next = h.node[n].next /\ rec.prev = h.node[n].prev
      /\ rec.status = s /\ rec.order = h.node[n].order
      /\ rec.address = h.node[n].address /\ rec.left = h.node[n].left
      /\ rec.right = h.node[n].right
  <2>1. h.node[n] \in NodeRecords
    BY DEF Heaps
  <2> QED
    BY <2>1 DEF NodeRecords
<1>2. g = [h EXCEPT !.node[n] = rec]
  OBVIOUS
<1> HIDE DEF rec, g
<1>3. /\ g \in Heaps /\ g.first = h.first /\ g.relinked = h.relinked
      /\ g.node[n] = rec /\ \A k \in Nodes \ {n} : g.node[k] = h.node[k]
  BY <1>1, <1>2, RecordStored
<1>4. SameLinks(h, g, Nodes)
  BY <1>1, <1>3 DEF SameLinks, NextOf, PrevOf
<1>5. StatusSet(h, g, n, s)
  BY <1>1, <1>3 DEF StatusSet, SameTree, Status, Order, At, Left, Right
<1> QED
  BY <1>3, <1>4, <1>5 DEF g, SameLists

LEMMA StatusSetThrough ==
    ASSUME NEW f, NEW g, NEW h, NEW n \in Nodes, NEW s, StatusSet(f, g, n, s), SameTree(g, h, Nodes)
    PROVE  StatusSet(f, h, n, s)
  BY DEF SameTree, StatusSet

LEMMA TakenDoes ==
    ASSUME NEW h \in Heaps, NEW n \in Nodes
    PROVE  LET g == Taken(h, n)
               o == Order(h, n)
               x == NextOf(h, n)
           IN  /\ g \in Heaps /\ g.relinked = h.relinked /\ StatusSet(h, g, n, "allocated")
               /\ o = MaxOrder => SameLists(h, g)
               /\ o # MaxOrder =>
                    /\ \A k \in Nodes :
                          /\ NextOf(g, k) = IF k = n THEN Null ELSE NextOf(h, k)
                          /\ PrevOf(g, k) = IF k = n \/ k = x THEN Null ELSE PrevOf(h, k)
                    /\ \A q \in Orders : First(g, q) = IF q = o THEN x ELSE First(h, q)
<1> DEFINE g  == Taken(h, n)
           o  == Order(h, n)
           x  == NextOf(h, n)
           h1 == [h EXCEPT !.node[n].status = "allocated"]
           h2 == [h1 EXCEPT !.first[o] = x]
           h3 == StorePrev(h2, x, Null)
           h4 == StoreNext(h3, n, Null)
           h5 == StorePrev(h4, n, Null)
<1>1. o \in Orders /\ x \in Links /\ n \in Links /\ Null \in Links
  BY FieldTypes, Numbers
<1>2. h1 \in Heaps /\ SameLists(h, h1) /\ StatusSet(h, h1, n, "allocated")
  BY StatusSetDoes
<1>3. h1.node[n].next = x /\ h1.first = h.first
  BY <1>2 DEF SameLists, SameLinks, NextOf
<1>4. /\ h2 \in Heaps /\ h2.relinked = h1.relinked
      /\ SameTree(h1, h2, Nodes) /\ SameLinks(h1, h2, Nodes)
      /\ \A q \in Orders : First(h2, q) = IF q = o THEN x ELSE First(h1, q)
  <2>1. h2 = [h1 EXCEPT !.first[o] = x]
    OBVIOUS
  <2> HIDE DEF h1, h2, o, x
  <2> QED
    BY <1>1, <1>2, <2>1, FirstStored
<1>5. h2.first[o] = x
  BY <1>1, <1>4 DEF First
<1>6. g = IF o = MaxOrder THEN h1 ELSE h5
  <2>1. h2 = [h1 EXCEPT !.first[o] = h1.node[n].next]
    BY <1>3
  <2>2. h3 = StorePrev(h2, h2.first[o], Null)
    BY <1>5
  <2> HIDE DEF h2, h3
  <2> QED
    BY <2>1, <2>2 DEF Taken, Order
<1>7. /\ h3 \in Heaps /\ h3.first = h2.first /\ h3.relinked = h2.relinked /\ SameTree(h2, h3, Nodes)
      /\ \A k \in Nodes : /\ PrevOf(h3, k) = IF k = x THEN Null ELSE PrevOf(h2, k)
                          /\ NextOf(h3, k) = NextOf(h2, k)
  <2> HIDE DEF h2, x
  <2> QED
    BY <1>1, <1>4, StorePrevDoes
<1>8. /\ h4 \in Heaps /\ h4.first = h3.first /\ h4.relinked = h3.relinked /\ SameTree(h3, h4, Nodes)
      /\ \A k \in Nodes : /\ NextOf(h4, k) = IF k = n THEN Null ELSE NextOf(h3, k)
                          /\ PrevOf(h4, k) = PrevOf(h3, k)
  <2>1. h3 \in Heaps /\ n \in Links /\ Null \in Links
    BY <1>1, <1>7
  <2> HIDE DEF h3
  <2> QED
    BY <2>1, StoreNextDoes
<1>9. /\ h5 \in Heaps /\ h5.first = h4.first /\ h5.relinked = h4.relinked /\ SameTree(h4, h5, Nodes)
      /\ \A k \in Nodes : /\ PrevOf(h5, k) = IF k = n THEN Null ELSE PrevOf(h4, k)
                          /\ NextOf(h5, k) = NextOf(h4, k)
  <2> HIDE DEF h4
  <2> QED
    BY <1>1, <1>8, StorePrevDoes
<1> HIDE DEF g, o, x, h1, h2, h3, h4, h5
<1>10. h5 \in Heaps /\ h5.relinked = h.relinked
  BY <1>2, <1>4, <1>7, <1>8, <1>9 DEF SameLists
<1>11. \A k \in Nodes :
          /\ NextOf(h5, k) = IF k = n THEN Null ELSE NextOf(h, k)
          /\ PrevOf(h5, k) = IF k = n \/ k = x THEN Null ELSE PrevOf(h, k)
  BY <1>2, <1>4, <1>7, <1>8, <1>9 DEF SameLinks, SameLists
<1>12. \A q \in Orders : First(h5, q) = IF q = o THEN x ELSE First(h, q)
  <2>1. \A q \in Orders : First(h5, q) = First(h2, q) /\ First(h1, q) = First(h, q)
    BY <1>3, <1>7, <1>8, <1>9 DEF First
  <2> QED
    BY <1>4, <2>1
<1>13. StatusSet(h, h5, n, "allocated")
  <2>1. SameTree(h1, h3, Nodes)
    BY <1>4, <1>7, SameTreeThrough
  <2>2. SameTree(h1, h4, Nodes)
    BY <2>1, <1>8, SameTreeThrough
  <2>3. SameTree(h1, h5, Nodes)
    BY <2>2, <1>9, SameTreeThrough
  <2> QED
    BY <1>2, <2>3, StatusSetThrough
<1>14. h1.relinked = h.relinked
  BY <1>2 DEF SameLists
<1> QED
  BY <1>2, <1>6, <1>10, <1>11, <1>12, <1>13, <1>14 DEF g, o, x

\* The pages of a node.
Width(h, n) == Type[Order(h, n)]

\* The tree of g is that of h with two new leaves below n, the left one
\* allocated, the right one with status s.
Grown(h, g, n, s) ==
    LET half  == Type[Order(h, n) - 1]
        left  == n + 1
        right == n + Width(h, n)
    IN  /\ SameTree(h, g, Nodes \ {n, left, right})
        /\ Status(g, n) = Status(h, n) /\ Order(g, n) = Order(h, n) /\ At(g, n) = At(h, n)
        /\ Left(g, n) = left /\ Right(g, n) = right
        /\ Status(g, left) = "allocated" /\ Order(g, left) = Order(h, n) - 1
        /\ At(g, left) = At(h, n) /\ Left(g, left) = Null /\ Right(g, left) = Null
        /\ Status(g, right) = s /\ Order(g, right) = Order(h, n) - 1
        /\ At(g, right) = At(h, n) + half /\ Left(g, right) = Null /\ Right(g, right) = Null

LEMMA WithLeavesDoes ==
    ASSUME NEW h \in Heaps, NEW n \in Nodes, NEW s \in {"allocated", "unallocated"},
           Order(h, n) > 0, n + 1 \in Nodes, n + Width(h, n) \in Nodes,
           At(h, n) + Type[Order(h, n) - 1] \in Pages
    PROVE  LET g == WithLeaves(h, n, s)
               left  == n + 1
               right == n + Width(h, n)
           IN  /\ g \in Heaps /\ g.first = h.first /\ g.relinked = h.relinked
               /\ Grown(h, g, n, s)
               /\ SameLinks(h, g, Nodes \ {left, right})
               /\ NextOf(g, left) = Null /\ PrevOf(g, left) = Null
               /\ NextOf(g, right) = Null /\ PrevOf(g, right) = Null
<1> DEFINE g     == WithLeaves(h, n, s)
           o     == Order(h, n)
           left  == n + 1
           right == n + Width(h, n)
           rec   == [h.node[n] EXCEPT !.left = left, !.right = right]
           recl  == InitBnode("allocated", o - 1, At(h, n))
           recr  == InitBnode(s, o - 1, At(h, n) + Type[o - 1])
           h1    == [h EXCEPT !.node[n] = rec]
           h2    == [h1 EXCEPT !.node[left] = recl]
           h3    == [h2 EXCEPT !.node[right] = recr]
<1>1. o \in Orders /\ o - 1 \in Orders /\ At(h, n) \in Pages
  BY FieldTypes, BuddyAssumption DEF Orders
<1>2. Width(h, n) \in Nat /\ Width(h, n) = 2 * Type[o - 1] /\ Type[o - 1] \in Nat \ {0}
  BY <1>1, TypeOfOrder, BuddyAssumption DEF Width, Orders
<1>3. left # n /\ right # n /\ left # right /\ left \in Nodes /\ right \in Nodes /\ n \in Nat
  <2>1. n \in Nat
    BY Numbers
  <2> QED
    BY <1>2, <2>1
<1>4. g = h3
  BY ZenonT(30) DEF WithLeaves, LeafLeft, LeafRight, Width, Order, At
<1> HIDE DEF left, right
<1>5. /\ rec \in NodeRecords /\ rec.next = h.node[n].next /\ rec.prev = h.node[n].prev
      /\ rec.status = h.node[n].status /\ rec.order = h.node[n].order
      /\ rec.address = h.node[n].address /\ rec.left = left /\ rec.right = right
  <2>1. h.node[n] \in NodeRecords
    BY DEF Heaps
  <2>2. left \in Links /\ right \in Links
    BY <1>3, Numbers
  <2> QED
    BY <2>1, <2>2 DEF NodeRecords
<1>6. /\ recl \in NodeRecords /\ recl.next = Null /\ recl.prev = Null
      /\ recl.status = "allocated" /\ recl.order = o - 1
      /\ recl.address = At(h, n) /\ recl.left = Null /\ recl.right = Null
  BY <1>1, Numbers DEF NodeRecords, InitBnode
<1>7. /\ recr \in NodeRecords /\ recr.next = Null /\ recr.prev = Null
      /\ recr.status = s /\ recr.order = o - 1
      /\ recr.address = At(h, n) + Type[o - 1] /\ recr.left = Null /\ recr.right = Null
  BY <1>1, Numbers DEF NodeRecords, InitBnode
<1> HIDE DEF rec, recl, recr, g
<1>8. /\ h1 \in Heaps /\ h1.first = h.first /\ h1.relinked = h.relinked
      /\ h1.node[n] = rec /\ \A k \in Nodes \ {n} : h1.node[k] = h.node[k]
  BY <1>5, RecordStored
<1> HIDE DEF h1
<1>9. /\ h2 \in Heaps /\ h2.first = h1.first /\ h2.relinked = h1.relinked
      /\ h2.node[left] = recl /\ \A k \in Nodes \ {left} : h2.node[k] = h1.node[k]
  BY <1>3, <1>6, <1>8, RecordStored
<1> HIDE DEF h2
<1>10. /\ h3 \in Heaps /\ h3.first = h2.first /\ h3.relinked = h2.relinked
       /\ h3.node[right] = recr /\ \A k \in Nodes \ {right} : h3.node[k] = h2.node[k]
  BY <1>3, <1>7, <1>9, RecordStored
<1> HIDE DEF h3
<1>11. /\ g.node[n] = rec /\ g.node[left] = recl /\ g.node[right] = recr
       /\ \A k \in Nodes \ {n, left, right} : g.node[k] = h.node[k]
  BY <1>3, <1>4, <1>8, <1>9, <1>10
<1>12. SameTree(h, g, Nodes \ {n, left, right})
  BY <1>11 DEF SameTree, Status, Order, At, Left, Right
<1>13. /\ Status(g, n) = Status(h, n) /\ Order(g, n) = o /\ At(g, n) = At(h, n)
       /\ Left(g, n) = left /\ Right(g, n) = right
       /\ NextOf(g, n) = NextOf(h, n) /\ PrevOf(g, n) = PrevOf(h, n)
  BY <1>5, <1>11 DEF Status, Order, At, Left, Right, NextOf, PrevOf
<1>14. /\ Status(g, left) = "allocated" /\ Order(g, left) = o - 1
       /\ At(g, left) = At(h, n) /\ Left(g, left) = Null /\ Right(g, left) = Null
       /\ NextOf(g, left) = Null /\ PrevOf(g, left) = Null
  BY <1>6, <1>11 DEF Status, Order, At, Left, Right, NextOf, PrevOf
<1>15. /\ Status(g, right) = s /\ Order(g, right) = o - 1
       /\ At(g, right) = At(h, n) + Type[o - 1] /\ Left(g, right) = Null /\ Right(g, right) = Null
       /\ NextOf(g, right) = Null /\ PrevOf(g, right) = Null
  BY <1>7, <1>11 DEF Status, Order, At, Left, Right, NextOf, PrevOf
<1>16. SameLinks(h, g, Nodes \ {left, right})
  BY <1>11, <1>13 DEF SameLinks, NextOf, PrevOf
<1>17. Grown(h, g, n, s)
  BY <1>12, <1>13, <1>14, <1>15 DEF Grown, left, right
<1> QED
  BY <1>4, <1>8, <1>9, <1>10, <1>14, <1>15, <1>16, <1>17 DEF g, left, right

\* The tree of g is that of h with the leaves of n, which is free, cut off.
Shrunk(h, g, n, s) ==
    LET left  == Left(h, n)
        right == Right(h, n)
    IN  /\ SameTree(h, g, Nodes \ {n, left, right})
        /\ Status(g, n) = "unallocated" /\ Order(g, n) = Order(h, n) /\ At(g, n) = At(h, n)
        /\ Left(g, n) = Null /\ Right(g, n) = Null
        /\ \A k \in {left, right} :
              Status(g, k) = s /\ Order(g, k) = Order(h, k) /\ At(g, k) = At(h, k)

LEMMA JoinedDoes ==
    ASSUME NEW h \in Heaps, NEW n \in Nodes, NEW s \in {"unallocated", "nonode"},
           Left(h, n) \in Nodes \ {n}, Right(h, n) \in Nodes \ {n}, Left(h, n) # Right(h, n)
    PROVE  LET g == Joined(h, n, s)
               u == Unlink(Unlink(h, Left(h, n)), Right(h, n))
           IN  /\ g \in Heaps /\ SameLists(u, g) /\ Shrunk(h, g, n, s)
               /\ u \in Heaps /\ u.relinked = h.relinked /\ SameTree(h, u, Nodes)
<1> DEFINE left  == Left(h, n)
           right == Right(h, n)
           v     == Unlink(h, left)
           u     == Unlink(v, right)
           recl  == [u.node[left] EXCEPT !.status = s]
           recr  == [u.node[right] EXCEPT !.status = s]
           rec   == [u.node[n] EXCEPT !.left = Null, !.right = Null, !.status = "unallocated"]
           h1    == [u EXCEPT !.node[left] = recl]
           h2    == [h1 EXCEPT !.node[right] = recr]
           h3    == [h2 EXCEPT !.node[n] = rec]
           g     == Joined(h, n, s)
<1>1. left \in Nodes \ {n} /\ right \in Nodes \ {n} /\ left # right
  OBVIOUS
<1> HIDE DEF left, right
<1>2. v \in Heaps /\ v.relinked = h.relinked /\ SameTree(h, v, Nodes)
  BY <1>1, UnlinkDoes
<1> HIDE DEF v
<1>3. u \in Heaps /\ u.relinked = v.relinked /\ SameTree(v, u, Nodes)
  BY <1>1, <1>2, UnlinkDoes
<1>4. g = [u EXCEPT !.node[left].status = s, !.node[right].status = s,
                    !.node[n].left = Null, !.node[n].right = Null, !.node[n].status = "unallocated"]
  BY DEF Joined, left, right, Left, Right, u, v
<1> HIDE DEF u
<1>5. g = h3
  <2>1. h1 = [u EXCEPT !.node[left].status = s]
    OBVIOUS
  <2>2. h1.node \in [Nodes -> NodeRecords] /\ h1.node[right] = u.node[right] /\ h1.node[n] = u.node[n]
    <3>1. recl \in NodeRecords
      <4>1. u.node[left] \in NodeRecords
        BY <1>1, <1>3 DEF Heaps
      <4> QED
        BY <4>1 DEF NodeRecords
    <3> HIDE DEF recl
    <3> QED
      BY <1>1, <1>3, <3>1 DEF Heaps
  <2> HIDE DEF h1
  <2>3. h2 = [h1 EXCEPT !.node[right].status = s]
    BY <2>2
  <2>4. h2.node[n] = u.node[n] /\ h2.node = [h1.node EXCEPT ![right] = recr]
    BY <1>1, <2>2, <1>3, RecordStored DEF Heaps
  <2> HIDE DEF h2
  <2>5. h3 = [h2 EXCEPT !.node[n].left = Null, !.node[n].right = Null, !.node[n].status = "unallocated"]
    BY ZenonT(30), <2>4
  <2>6. g = [[[u EXCEPT !.node[left].status = s] EXCEPT !.node[right].status = s]
               EXCEPT !.node[n].left = Null, !.node[n].right = Null, !.node[n].status = "unallocated"]
    BY <1>4
  <2> HIDE DEF h3, g
  <2> QED
    BY <2>1, <2>3, <2>5, <2>6
<1>6. u.node[n] \in NodeRecords /\ u.node[left] \in NodeRecords /\ u.node[right] \in NodeRecords
  BY <1>1, <1>3 DEF Heaps
<1>7. /\ rec \in NodeRecords /\ rec.next = u.node[n].next /\ rec.prev = u.node[n].prev
      /\ rec.status = "unallocated" /\ rec.order = u.node[n].order
      /\ rec.address = u.node[n].address /\ rec.left = Null /\ rec.right = Null
  BY <1>6, Numbers DEF NodeRecords
<1>8. /\ recl \in NodeRecords /\ recl.next = u.node[left].next /\ recl.prev = u.node[left].prev
      /\ recl.status = s /\ recl.order = u.node[left].order
      /\ recl.address = u.node[left].address
  BY <1>6 DEF NodeRecords
<1>9. /\ recr \in NodeRecords /\ recr.next = u.node[right].next /\ recr.prev = u.node[right].prev
      /\ recr.status = s /\ recr.order = u.node[right].order
      /\ recr.address = u.node[right].address
  BY <1>6 DEF NodeRecords
<1> HIDE DEF rec, recl, recr, g
<1>10. /\ h1 \in Heaps /\ h1.first = u.first /\ h1.relinked = u.relinked
       /\ h1.node[left] = recl /\ \A k \in Nodes \ {left} : h1.node[k] = u.node[k]
  BY <1>1, <1>3, <1>8, RecordStored
<1> HIDE DEF h1
<1>11. /\ h2 \in Heaps /\ h2.first = h1.first /\ h2.relinked = h1.relinked
       /\ h2.node[right] = recr /\ \A k \in Nodes \ {right} : h2.node[k] = h1.node[k]
  BY <1>1, <1>9, <1>10, RecordStored
<1> HIDE DEF h2
<1>12. /\ h3 \in Heaps /\ h3.first = h2.first /\ h3.relinked = h2.relinked
       /\ h3.node[n] = rec /\ \A k \in Nodes \ {n} : h3.node[k] = h2.node[k]
  BY <1>7, <1>11, RecordStored
<1> HIDE DEF h3
<1>13. /\ g.node[n] = rec /\ g.node[left] = recl /\ g.node[right] = recr
       /\ \A k \in Nodes \ {n, left, right} : g.node[k] = u.node[k]
  BY <1>1, <1>5, <1>10, <1>11, <1>12
<1>14. SameLinks(u, g, Nodes)
  BY <1>1, <1>7, <1>8, <1>9, <1>13 DEF SameLinks, NextOf, PrevOf
<1>15. SameTree(h, u, Nodes)
  BY <1>2, <1>3, SameTreeThrough
<1>16. /\ Status(g, n) = "unallocated" /\ Order(g, n) = Order(u, n) /\ At(g, n) = At(u, n)
       /\ Left(g, n) = Null /\ Right(g, n) = Null
  BY <1>7, <1>13 DEF Status, Order, At, Left, Right
<1>17. \A k \in {left, right} :
          Status(g, k) = s /\ Order(g, k) = Order(u, k) /\ At(g, k) = At(u, k)
  BY <1>8, <1>9, <1>13 DEF Status, Order, At
<1>18. SameTree(u, g, Nodes \ {n, left, right})
  BY <1>13 DEF SameTree, Status, Order, At, Left, Right
<1>19. Shrunk(h, g, n, s)
  BY <1>1, <1>15, <1>16, <1>17, <1>18 DEF Shrunk, SameTree, left, right
<1>20. u.relinked = h.relinked /\ SameLists(u, g) /\ g \in Heaps
  BY <1>2, <1>3, <1>5, <1>10, <1>11, <1>12, <1>14 DEF SameLists
<1> QED
  BY <1>3, <1>15, <1>19, <1>20 DEF g, u, v, left, right

\* A relink leaves the tree as it is, and shows.
LEMMA RelinkDoes ==
    ASSUME NEW h \in Heaps, NEW n \in Nodes
    PROVE  LET g == Relink(h, n)
           IN  g \in Heaps /\ SameTree(h, g, Nodes) /\ (g = h \/ g.relinked = TRUE)
<1> DEFINE f == PushFirst(h, n)
           e == [f EXCEPT !.relinked = TRUE]
<1>1. f \in Heaps /\ SameTree(h, f, Nodes)
  BY PushFirstDoes
<1> HIDE DEF f
<1>2. e \in Heaps /\ e.node = f.node /\ e.relinked = TRUE
  BY <1>1 DEF Heaps
<1>3. Relink(h, n) = e \/ Relink(h, n) = h
  BY DEF Relink, f
<1> HIDE DEF e
<1>4. SameTree(h, e, Nodes)
  BY <1>1, <1>2 DEF SameTree, Status, Order, At, Left, Right
<1>5. SameTree(h, h, Nodes)
  BY DEF SameTree
<1> QED
  BY <1>2, <1>3, <1>4, <1>5

-----------------------------------------------------------------------------
(* The free lists.                                                           *)

Whole(h, n) == ~Inner(h, n)

\* Every link has its counterpart, in the same list; only free pieces of the
\* tree L are on a list; a list begins with a node of its order.
ListsOK(h, L) ==
    /\ \A n \in Low :
          NextOf(h, n) # Null =>
             /\ NextOf(h, n) \in Low
             /\ PrevOf(h, NextOf(h, n)) = n /\ Order(h, NextOf(h, n)) = Order(h, n)
    /\ \A n \in Low :
          PrevOf(h, n) # Null =>
             /\ PrevOf(h, n) \in Low
             /\ NextOf(h, PrevOf(h, n)) = n /\ Order(h, PrevOf(h, n)) = Order(h, n)
    /\ \A n \in Low : Linked(h, n) => n \in L /\ Whole(h, n) /\ Status(h, n) = "unallocated"
    /\ \A o \in Orders \ {MaxOrder} :
          First(h, o) # Null =>
             First(h, o) \in Low /\ Order(h, First(h, o)) = o /\ PrevOf(h, First(h, o)) = Null
    /\ First(h, MaxOrder) = MaxNode(1)

\* Changes to nodes S that are on no list.
LEMMA ListsFrame ==
    ASSUME NEW h \in Heaps, NEW g \in Heaps, NEW L, NEW M, NEW S \in SUBSET Nodes,
           ListsOK(h, L), g.first = h.first,
           \A k \in S \cap Low : ~Linked(h, k) /\ NextOf(g, k) = Null /\ PrevOf(g, k) = Null,
           SameLinks(h, g, Nodes \ S), \A k \in Low \ S : Order(g, k) = Order(h, k),
           \A k \in Low \ S : k \in L /\ Whole(h, k) /\ Status(h, k) = "unallocated"
                              => k \in M /\ Whole(g, k) /\ Status(g, k) = "unallocated"
    PROVE  ListsOK(g, M) /\ \A k \in Low : Linked(g, k) => Linked(h, k)
<1>1. Low \subseteq Nodes /\ MaxNode(1) \notin Low /\ MaxNode(1) # Null
  BY BuddyAssumption, Numbers DEF Low, MaxNodes
<1>2. \A o \in Orders : First(g, o) = First(h, o)
  BY DEF First
<1>3. ASSUME NEW o \in Orders, First(h, o) \in Low
      PROVE  Linked(h, First(h, o)) /\ First(h, o) \notin S
  <2>1. o # MaxOrder /\ First(h, o) # Null
    BY <1>1, <1>3, Numbers DEF ListsOK
  <2>2. Order(h, First(h, o)) = o
    BY <1>3, <2>1 DEF ListsOK
  <2>3. Linked(h, First(h, o))
    BY <2>2 DEF Linked
  <2> QED
    BY <1>3, <2>3
<1>4. ASSUME NEW k \in Low, Linked(g, k) PROVE Linked(h, k)
  <2>1. Order(g, k) \in Orders
    BY <1>1, FieldTypes
  <2>2. CASE k \in S
    BY <1>2, <1>3, <1>4, <2>1, <2>2 DEF Linked
  <2>3. CASE k \notin S
    BY <1>1, <1>2, <1>4, <2>1, <2>3 DEF Linked, SameLinks
  <2> QED
    BY <2>2, <2>3
<1>5. ASSUME NEW k \in Low, NextOf(g, k) # Null
      PROVE  /\ NextOf(g, k) \in Low
             /\ PrevOf(g, NextOf(g, k)) = k /\ Order(g, NextOf(g, k)) = Order(g, k)
  <2> DEFINE y == NextOf(h, k)
  <2>1. k \notin S
    BY <1>5
  <2>2. NextOf(g, k) = y
    BY <1>1, <2>1 DEF SameLinks
  <2>3. y \in Low /\ PrevOf(h, y) = k /\ Order(h, y) = Order(h, k) /\ k # Null
    BY <1>1, <1>5, <2>2, Numbers DEF ListsOK
  <2>4. y \notin S
    BY <2>3 DEF Linked
  <2> QED
    BY <1>1, <2>1, <2>2, <2>3, <2>4 DEF SameLinks
<1>6. ASSUME NEW k \in Low, PrevOf(g, k) # Null
      PROVE  /\ PrevOf(g, k) \in Low
             /\ NextOf(g, PrevOf(g, k)) = k /\ Order(g, PrevOf(g, k)) = Order(g, k)
  <2> DEFINE y == PrevOf(h, k)
  <2>1. k \notin S
    BY <1>6
  <2>2. PrevOf(g, k) = y
    BY <1>1, <2>1 DEF SameLinks
  <2>3. y \in Low /\ NextOf(h, y) = k /\ Order(h, y) = Order(h, k) /\ k # Null
    BY <1>1, <1>6, <2>2, Numbers DEF ListsOK
  <2>4. y \notin S
    BY <2>3 DEF Linked
  <2> QED
    BY <1>1, <2>1, <2>2, <2>3, <2>4 DEF SameLinks
<1>7. ASSUME NEW k \in Low, Linked(g, k)
      PROVE  k \in M /\ Whole(g, k) /\ Status(g, k) = "unallocated"
  <2>1. Linked(h, k)
    BY <1>4, <1>7
  <2>2. k \notin S
    BY <2>1
  <2> QED
    BY <2>1, <2>2 DEF ListsOK
<1>8. ASSUME NEW o \in Orders \ {MaxOrder}, First(g, o) # Null
      PROVE  First(g, o) \in Low /\ Order(g, First(g, o)) = o /\ PrevOf(g, First(g, o)) = Null
  <2>1. First(g, o) = First(h, o) /\ First(h, o) \in Low
        /\ Order(h, First(h, o)) = o /\ PrevOf(h, First(h, o)) = Null
    BY <1>2, <1>8 DEF ListsOK
  <2>2. First(h, o) \notin S
    BY <1>3, <2>1
  <2> QED
    BY <1>1, <2>1, <2>2 DEF SameLinks
<1>9. First(g, MaxOrder) = MaxNode(1)
  <2>1. MaxOrder \in Orders
    BY BuddyAssumption DEF Orders
  <2> QED
    BY <1>2, <2>1 DEF ListsOK
<1> QED
  BY <1>4, <1>5, <1>6, <1>7, <1>8, <1>9 DEF ListsOK

\* A free piece that is on no list becomes the first of one.
LEMMA PushFirstLists ==
    ASSUME NEW h \in Heaps, NEW L, NEW n \in Low, ListsOK(h, L), ~Linked(h, n),
           n \in L, Whole(h, n), Status(h, n) = "unallocated", Order(h, n) # MaxOrder
    PROVE  ListsOK(PushFirst(h, n), L)
<1> DEFINE g == PushFirst(h, n)
           o == Order(h, n)
           f == First(h, o)
<1>1. Low \subseteq Nodes /\ n \in Nodes /\ n # Null /\ Null \notin Low
  BY Numbers DEF Low
<1>2. /\ g \in Heaps /\ SameTree(h, g, Nodes)
      /\ \A k \in Nodes : /\ NextOf(g, k) = IF k = n THEN f ELSE NextOf(h, k)
                          /\ PrevOf(g, k) = IF k = f THEN n ELSE PrevOf(h, k)
      /\ \A p \in Orders : First(g, p) = IF p = o THEN n ELSE First(h, p)
  BY <1>1, PushFirstDoes
<1> HIDE DEF g
<1>3. o \in Orders \ {MaxOrder} /\ f # n /\ NextOf(h, n) = Null /\ PrevOf(h, n) = Null
  BY <1>1, FieldTypes DEF Linked
<1>4. f # Null => f \in Low /\ Order(h, f) = o /\ PrevOf(h, f) = Null /\ Linked(h, f)
  BY <1>3 DEF ListsOK, Linked
<1>5. \A k \in Nodes : /\ Order(g, k) = Order(h, k) /\ Status(g, k) = Status(h, k)
                       /\ Whole(g, k) <=> Whole(h, k)
  BY <1>2 DEF SameTree, Whole, Inner
<1> HIDE DEF o, f
<1>6. ASSUME NEW k \in Low, NextOf(g, k) # Null
      PROVE  /\ NextOf(g, k) \in Low
             /\ PrevOf(g, NextOf(g, k)) = k /\ Order(g, NextOf(g, k)) = Order(g, k)
  <2>1. CASE k = n
    BY <1>1, <1>2, <1>3, <1>4, <1>5, <1>6, <2>1 DEF o
  <2>2. CASE k # n
    <3>1. /\ NextOf(g, k) = NextOf(h, k) /\ NextOf(h, k) \in Low
          /\ PrevOf(h, NextOf(h, k)) = k /\ Order(h, NextOf(h, k)) = Order(h, k)
      BY <1>1, <1>2, <1>6, <2>2 DEF ListsOK
    <3>2. NextOf(h, k) # f
      BY <1>1, <1>4, <3>1
    <3> QED
      BY <1>1, <1>2, <1>5, <3>1, <3>2
  <2> QED
    BY <2>1, <2>2
<1>7. ASSUME NEW k \in Low, PrevOf(g, k) # Null
      PROVE  /\ PrevOf(g, k) \in Low
             /\ NextOf(g, PrevOf(g, k)) = k /\ Order(g, PrevOf(g, k)) = Order(g, k)
  <2>1. CASE k = f
    BY <1>1, <1>2, <1>4, <1>5, <2>1 DEF o
  <2>2. CASE k # f
    <3>1. /\ PrevOf(g, k) = PrevOf(h, k) /\ PrevOf(h, k) \in Low
          /\ NextOf(h, PrevOf(h, k)) = k /\ Order(h, PrevOf(h, k)) = Order(h, k)
      BY <1>1, <1>2, <1>7, <2>2 DEF ListsOK
    <3>2. PrevOf(h, k) # n
      BY <1>1, <1>3, <3>1
    <3> QED
      BY <1>1, <1>2, <1>5, <3>1, <3>2
  <2> QED
    BY <2>1, <2>2
<1>8. ASSUME NEW k \in Low, Linked(g, k)
      PROVE  k \in L /\ Whole(g, k) /\ Status(g, k) = "unallocated"
  <2>1. k = n \/ k = f \/ Linked(h, k)
    <3>1. Order(h, k) \in Orders
      BY <1>1, FieldTypes
    <3> QED
      BY <1>1, <1>2, <1>5, <1>8, <3>1 DEF Linked
  <2>2. k = n \/ Linked(h, k)
    BY <1>1, <1>4, <2>1
  <2> QED
    BY <1>1, <1>5, <2>2 DEF ListsOK
<1>9. ASSUME NEW p \in Orders \ {MaxOrder}, First(g, p) # Null
      PROVE  First(g, p) \in Low /\ Order(g, First(g, p)) = p /\ PrevOf(g, First(g, p)) = Null
  <2>1. CASE p = o
    BY <1>1, <1>2, <1>3, <1>5, <2>1 DEF o
  <2>2. CASE p # o
    <3>1. /\ First(g, p) = First(h, p) /\ First(h, p) \in Low
          /\ Order(h, First(h, p)) = p /\ PrevOf(h, First(h, p)) = Null
      BY <1>2, <1>9, <2>2 DEF ListsOK
    <3>2. First(h, p) # f
      BY <1>1, <1>4, <2>2, <3>1
    <3> QED
      BY <1>1, <1>2, <1>5, <3>1, <3>2
  <2> QED
    BY <2>1, <2>2
<1>10. First(g, MaxOrder) = MaxNode(1)
  <2>1. MaxOrder \in Orders
    BY BuddyAssumption DEF Orders
  <2> QED
    BY <1>2, <1>3, <2>1 DEF ListsOK
<1> QED
  BY <1>6, <1>7, <1>8, <1>9, <1>10 DEF ListsOK, g

\* A node leaves its list.
LEMMA UnlinkLists ==
    ASSUME NEW h \in Heaps, NEW L, NEW n \in Low, ListsOK(h, L), Order(h, n) # MaxOrder
    PROVE  LET g == Unlink(h, n)
           IN  /\ ListsOK(g, L) /\ ~Linked(g, n)
               /\ \A k \in Low : Linked(g, k) => Linked(h, k)
<1> DEFINE g == Unlink(h, n)
           x == NextOf(h, n)
           p == PrevOf(h, n)
           o == Order(h, n)
<1>1. Low \subseteq Nodes /\ n \in Nodes /\ n # Null /\ Null \notin Low
  BY Numbers DEF Low
<1>2. SUFFICES ASSUME Linked(h, n)
               PROVE  /\ ListsOK(g, L) /\ ~Linked(g, n)
                      /\ \A k \in Low : Linked(g, k) => Linked(h, k)
  BY <1>1, UnlinkDoes
<1>3. /\ g \in Heaps /\ SameTree(h, g, Nodes)
      /\ \A k \in Nodes :
            /\ NextOf(g, k) = IF k = n THEN Null ELSE IF k = p THEN x ELSE NextOf(h, k)
            /\ PrevOf(g, k) = IF k = n THEN Null ELSE IF k = x THEN p ELSE PrevOf(h, k)
      /\ \A q \in Orders :
            First(g, q) = IF q = o /\ First(h, o) = n THEN x ELSE First(h, q)
  BY <1>1, <1>2, UnlinkDoes
<1> HIDE DEF g
<1>4. o \in Orders \ {MaxOrder}
  BY <1>1, FieldTypes
<1>5. x # Null => x \in Low /\ PrevOf(h, x) = n /\ Order(h, x) = o /\ Linked(h, x)
  BY <1>1 DEF ListsOK, Linked
<1>6. p # Null => p \in Low /\ NextOf(h, p) = n /\ Order(h, p) = o /\ Linked(h, p)
  BY <1>1 DEF ListsOK, Linked
<1>7. First(h, o) = n => p = Null
  BY <1>1, <1>4 DEF ListsOK
<1>8. \A k \in Nodes : /\ Order(g, k) = Order(h, k) /\ Status(g, k) = Status(h, k)
                       /\ Whole(g, k) <=> Whole(h, k)
  BY <1>3 DEF SameTree, Whole, Inner
<1>9. x = n <=> p = n
  BY <1>1, <1>5, <1>6
<1> HIDE DEF o, x, p
<1>10. ASSUME NEW k \in Low, NextOf(g, k) # Null
       PROVE  /\ NextOf(g, k) \in Low
              /\ PrevOf(g, NextOf(g, k)) = k /\ Order(g, NextOf(g, k)) = Order(g, k)
  <2>1. k # n /\ k \in Nodes
    BY <1>1, <1>3, <1>10
  <2>2. CASE k = p
    <3>1. NextOf(g, k) = x /\ x # Null /\ x # n
      BY <1>3, <1>9, <1>10, <2>1, <2>2
    <3> QED
      BY <1>1, <1>3, <1>5, <1>6, <1>8, <2>1, <2>2, <3>1
  <2>3. CASE k # p
    <3>1. /\ NextOf(g, k) = NextOf(h, k) /\ NextOf(h, k) \in Low
          /\ PrevOf(h, NextOf(h, k)) = k /\ Order(h, NextOf(h, k)) = Order(h, k)
      BY <1>1, <1>3, <1>10, <2>1, <2>3 DEF ListsOK
    <3>2. NextOf(h, k) # x /\ NextOf(h, k) # n
      BY <1>1, <1>5, <2>1, <2>3, <3>1 DEF p
    <3> QED
      BY <1>1, <1>3, <1>8, <2>1, <3>1, <3>2
  <2> QED
    BY <2>2, <2>3
<1>11. ASSUME NEW k \in Low, PrevOf(g, k) # Null
       PROVE  /\ PrevOf(g, k) \in Low
              /\ NextOf(g, PrevOf(g, k)) = k /\ Order(g, PrevOf(g, k)) = Order(g, k)
  <2>1. k # n /\ k \in Nodes
    BY <1>1, <1>3, <1>11
  <2>2. CASE k = x
    <3>1. PrevOf(g, k) = p /\ p # Null /\ p # n
      BY <1>3, <1>9, <1>11, <2>1, <2>2
    <3> QED
      BY <1>1, <1>3, <1>5, <1>6, <1>8, <2>1, <2>2, <3>1
  <2>3. CASE k # x
    <3>1. /\ PrevOf(g, k) = PrevOf(h, k) /\ PrevOf(h, k) \in Low
          /\ NextOf(h, PrevOf(h, k)) = k /\ Order(h, PrevOf(h, k)) = Order(h, k)
      BY <1>1, <1>3, <1>11, <2>1, <2>3 DEF ListsOK
    <3>2. PrevOf(h, k) # p /\ PrevOf(h, k) # n
      BY <1>1, <1>6, <2>1, <2>3, <3>1 DEF x
    <3> QED
      BY <1>1, <1>3, <1>8, <2>1, <3>1, <3>2
  <2> QED
    BY <2>2, <2>3
<1>12. ~Linked(g, n)
  BY <1>1, <1>3, <1>4, <1>7, <1>8, <1>9 DEF Linked, o
<1>13. ASSUME NEW k \in Low, Linked(g, k) PROVE Linked(h, k)
  <2>1. Order(h, k) \in Orders /\ k # Null
    BY <1>1, FieldTypes
  <2>2. k = x \/ k = p \/ Linked(h, k)
    BY <1>1, <1>3, <1>8, <1>12, <1>13, <2>1 DEF Linked
  <2> QED
    BY <1>5, <1>6, <2>1, <2>2
<1>14. ASSUME NEW q \in Orders \ {MaxOrder}, First(g, q) # Null
       PROVE  First(g, q) \in Low /\ Order(g, First(g, q)) = q /\ PrevOf(g, First(g, q)) = Null
  <2>1. CASE q = o /\ First(h, o) = n
    <3>1. First(g, q) = x /\ x \in Low /\ Order(h, x) = q
      BY <1>3, <1>5, <1>14, <2>1
    <3> QED
      BY <1>1, <1>3, <1>7, <1>8, <2>1, <3>1
  <2>2. CASE ~(q = o /\ First(h, o) = n)
    <3>1. /\ First(g, q) = First(h, q) /\ First(h, q) \in Low
          /\ Order(h, First(h, q)) = q /\ PrevOf(h, First(h, q)) = Null
      BY <1>3, <1>14, <2>2 DEF ListsOK
    <3>2. First(h, q) # x
      BY <1>1, <1>5, <3>1
    <3> QED
      BY <1>1, <1>3, <1>8, <3>1, <3>2
  <2> QED
    BY <2>1, <2>2
<1>15. First(g, MaxOrder) = MaxNode(1)
  <2>1. MaxOrder \in Orders
    BY BuddyAssumption DEF Orders
  <2> QED
    BY <1>3, <1>4, <2>1 DEF ListsOK
<1>16. ASSUME NEW k \in Low, Linked(g, k)
       PROVE  k \in L /\ Whole(g, k) /\ Status(g, k) = "unallocated"
  BY <1>1, <1>8, <1>13, <1>16 DEF ListsOK
<1>17. ListsOK(g, L)
  BY <1>10, <1>11, <1>14, <1>15, <1>16 DEF ListsOK
<1> QED
  BY <1>12, <1>13, <1>17 DEF g

\* A node is taken.
LEMMA TakenLists ==
    ASSUME NEW h \in Heaps, NEW L, NEW n \in Nodes, ListsOK(h, L),
           Order(h, n) = MaxOrder => n \in MaxNodes,
           Order(h, n) # MaxOrder => n = First(h, Order(h, n))
    PROVE  ListsOK(Taken(h, n), L) /\ \A k \in Low : Linked(Taken(h, n), k) => Linked(h, k) /\ k # n
<1> DEFINE g == Taken(h, n)
           u == Unlink(h, n)
           o == Order(h, n)
           x == NextOf(h, n)
<1>1. n # Null /\ Low \subseteq Nodes /\ o \in Orders
  BY Numbers, FieldTypes DEF Low
<1>2. /\ g \in Heaps /\ g.relinked = h.relinked /\ StatusSet(h, g, n, "allocated")
      /\ o = MaxOrder => SameLists(h, g)
      /\ o # MaxOrder =>
           /\ \A k \in Nodes :
                 /\ NextOf(g, k) = IF k = n THEN Null ELSE NextOf(h, k)
                 /\ PrevOf(g, k) = IF k = n \/ k = x THEN Null ELSE PrevOf(h, k)
           /\ \A q \in Orders : First(g, q) = IF q = o THEN x ELSE First(h, q)
  BY TakenDoes
<1> HIDE DEF g
<1>3. \A k \in Low \ {n} : /\ Order(g, k) = Order(h, k) /\ Status(g, k) = Status(h, k)
                           /\ Whole(g, k) <=> Whole(h, k)
  BY <1>1, <1>2 DEF StatusSet, SameTree, Whole, Inner
<1>4. CASE o = MaxOrder
  <2>1. Low \subseteq Nodes \ {n}
    BY <1>4 DEF Low
  <2>2. g.first = h.first /\ SameLinks(h, g, Nodes)
    BY <1>2, <1>4 DEF SameLists
  <2>3. SameLinks(h, g, Nodes \ {}) /\ {} \in SUBSET Nodes
    BY <2>2 DEF SameLinks
  <2>4. /\ \A k \in Low \ {} : Order(g, k) = Order(h, k)
        /\ \A k \in Low \ {} : k \in L /\ Whole(h, k) /\ Status(h, k) = "unallocated"
                               => k \in L /\ Whole(g, k) /\ Status(g, k) = "unallocated"
        /\ \A k \in {} \cap Low : ~Linked(h, k) /\ NextOf(g, k) = Null /\ PrevOf(g, k) = Null
    BY <1>3, <2>1
  <2>5. ListsOK(g, L) /\ \A k \in Low : Linked(g, k) => Linked(h, k)
    BY ZenonT(30), <1>2, <2>2, <2>3, <2>4, ListsFrame
  <2> QED
    BY <2>1, <2>5 DEF g
<1>5. CASE o # MaxOrder
  <2>1. n = First(h, o) /\ n \in Low
    BY <1>1, <1>5 DEF ListsOK
  <2>2. PrevOf(h, n) = Null /\ Linked(h, n)
    BY <1>1, <1>5, <2>1 DEF ListsOK, Linked
  <2>3. ListsOK(u, L) /\ ~Linked(u, n) /\ \A k \in Low : Linked(u, k) => Linked(h, k)
    BY <1>5, <2>1, UnlinkLists
  <2>4. /\ u \in Heaps /\ SameTree(h, u, Nodes)
        /\ \A k \in Nodes :
              /\ NextOf(u, k) = IF k = n THEN Null ELSE IF k = Null THEN x ELSE NextOf(h, k)
              /\ PrevOf(u, k) = IF k = n THEN Null ELSE IF k = x THEN Null ELSE PrevOf(h, k)
        /\ \A q \in Orders :
              First(u, q) = IF q = o /\ First(h, o) = n THEN x ELSE First(h, q)
    BY <2>2, UnlinkDoes
  <2> HIDE DEF u, x, o
  <2>5. \A k \in Nodes : k # Null
    BY Numbers
  <2>6. SameLinks(u, g, Nodes \ {n}) /\ NextOf(g, n) = Null /\ PrevOf(g, n) = Null
    BY <1>2, <1>5, <2>4, <2>5 DEF SameLinks
  <2>7. \A q \in Orders : First(g, q) = First(u, q)
    BY <1>2, <1>5, <2>1, <2>4
  <2>8. g.first = u.first
    <3>1. g.first \in [Orders -> Links] /\ u.first \in [Orders -> Links]
      BY <1>2, <2>4 DEF Heaps
    <3> QED
      BY <2>7, <3>1 DEF First
  <2>9. /\ \A k \in Low \ {n} : Order(g, k) = Order(u, k)
        /\ \A k \in Low \ {n} : k \in L /\ Whole(u, k) /\ Status(u, k) = "unallocated"
                                => k \in L /\ Whole(g, k) /\ Status(g, k) = "unallocated"
    BY <1>1, <1>3, <2>4 DEF SameTree, Whole, Inner
  <2>10. ListsOK(g, L) /\ \A k \in Low : Linked(g, k) => Linked(u, k)
    <3> DEFINE S == {n}
    <3>1. S \in SUBSET Nodes
      OBVIOUS
    <3>2. \A k \in S \cap Low : ~Linked(u, k) /\ NextOf(g, k) = Null /\ PrevOf(g, k) = Null
      BY <2>3, <2>6
    <3>3. /\ SameLinks(u, g, Nodes \ S)
          /\ \A k \in Low \ S : Order(g, k) = Order(u, k)
          /\ \A k \in Low \ S : k \in L /\ Whole(u, k) /\ Status(u, k) = "unallocated"
                                => k \in L /\ Whole(g, k) /\ Status(g, k) = "unallocated"
      BY <2>6, <2>9
    <3> HIDE DEF S
    <3> QED
      BY SMTT(30), <1>2, <2>3, <2>4, <2>8, <3>1, <3>2, <3>3, ListsFrame
  <2> QED
    BY <2>3, <2>10 DEF g
<1> QED
  BY <1>4, <1>5

-----------------------------------------------------------------------------
(* The tree of the nodes in use.                                             *)

PageCount == Blocks * Type[MaxOrder]
NodeCount == Blocks * NodesPerBlock

\* The first node and the first page behind those of a node.
Behind(h, n)     == n + 2 * Width(h, n) - 1
PageBehind(h, n) == At(h, n) + Width(h, n)

HasPage(h, n, p) == At(h, n) <= p /\ p < PageBehind(h, n)
IsUnder(h, m, n) == n <= m /\ m < Behind(h, n)
Within(h, m, n) ==
    /\ n <= m /\ Behind(h, m) <= Behind(h, n)
    /\ At(h, n) <= At(h, m) /\ PageBehind(h, m) <= PageBehind(h, n)

IsLeafOf(h, m, n) == Inner(h, n) /\ m \in {Left(h, n), Right(h, n)}

\* The two leaves of a node lie behind it and halve its pages.
LeavesFit(h, L, n) ==
    /\ Status(h, n) = "allocated" /\ Order(h, n) > 0
    /\ Left(h, n) = n + 1 /\ Right(h, n) = n + Width(h, n)
    /\ Left(h, n) \in L \ MaxNodes /\ Right(h, n) \in L \ MaxNodes
    /\ Order(h, Left(h, n)) = Order(h, n) - 1 /\ Order(h, Right(h, n)) = Order(h, n) - 1
    /\ At(h, Left(h, n)) = At(h, n) /\ At(h, Right(h, n)) = At(h, n) + Type[Order(h, n) - 1]

TopsOK(h, L) ==
    /\ MaxNodes \subseteq L /\ L \subseteq Nodes
    /\ \A b \in 1 .. Blocks : Order(h, MaxNode(b)) = MaxOrder /\ At(h, MaxNode(b)) = (b - 1) * Type[MaxOrder]
    /\ \A n \in L \ MaxNodes : Order(h, n) < MaxOrder /\ \E m \in L : IsLeafOf(h, n, m)

NodeOK(h, L, n) ==
    /\ Status(h, n) \in {"allocated", "unallocated"}
    /\ PageBehind(h, n) <= PageCount /\ Behind(h, n) <= NodeCount + 1
    /\ Whole(h, n) => Left(h, n) = Null /\ Right(h, n) = Null
    /\ Inner(h, n) => LeavesFit(h, L, n)

\* A node that lies under another lies under one of its leaves.
Nested(h, L) ==
    \A m, n \in L :
        m # n /\ IsUnder(h, m, n) =>
            Inner(h, n) /\ (Within(h, m, Left(h, n)) \/ Within(h, m, Right(h, n)))

TreeOK(h, L) == TopsOK(h, L) /\ (\A n \in L : NodeOK(h, L, n)) /\ Nested(h, L)

LEMMA Counts ==
    /\ PageCount \in Nat /\ Pages = 0 .. PageCount - 1
    /\ NodeCount \in Nat /\ Nodes = 1 .. NodeCount
<1>1. Type[MaxOrder] \in Nat /\ NodesPerBlock \in Nat /\ Blocks \in Nat
  BY TypeOfOrder, MaxOrderIsNumber, Numbers, BuddyAssumption DEF Orders
<1>2. PageCount \in Nat
  <2> DEFINE k == Type[MaxOrder]
  <2>1. Blocks * k \in Nat
    <3>1. k \in Nat
      BY <1>1
    <3> HIDE DEF k
    <3> QED
      BY <1>1, <3>1, SMT
  <2> QED
    BY <2>1 DEF PageCount
<1>3. NodeCount \in Nat
  <2> DEFINE k == NodesPerBlock
  <2>1. Blocks * k \in Nat
    <3>1. k \in Nat
      BY <1>1
    <3> HIDE DEF k
    <3> QED
      BY <1>1, <3>1, SMT
  <2> QED
    BY <2>1 DEF NodeCount
<1> QED
  BY <1>2, <1>3 DEF PageCount, NodeCount, Pages, Nodes

\* The numbers of a node.
LEMMA NodeNumbers ==
    ASSUME NEW h \in Heaps, NEW n \in Nodes
    PROVE  /\ n \in Nat \ {0} /\ At(h, n) \in Nat /\ Order(h, n) \in Orders /\ Order(h, n) \in Nat
           /\ Width(h, n) \in Nat \ {0} /\ Behind(h, n) \in Nat /\ PageBehind(h, n) \in Nat
           /\ Order(h, n) > 0 => /\ Order(h, n) - 1 \in Orders
                                 /\ Type[Order(h, n) - 1] \in Nat \ {0}
                                 /\ Width(h, n) = 2 * Type[Order(h, n) - 1]
<1>1. Order(h, n) \in Orders /\ At(h, n) \in Nat /\ n \in Nat \ {0}
  BY FieldTypes, Numbers
<1>2. Width(h, n) \in Nat \ {0}
  BY <1>1, TypeOfOrder DEF Width
<1>3. Order(h, n) \in Nat
  BY <1>1, BuddyAssumption DEF Orders
<1>4. ASSUME Order(h, n) > 0
      PROVE  /\ Order(h, n) - 1 \in Orders
             /\ Type[Order(h, n) - 1] \in Nat \ {0}
             /\ Width(h, n) = 2 * Type[Order(h, n) - 1]
  <2>1. Order(h, n) \in 1 .. MaxOrder /\ Order(h, n) - 1 \in Orders
    BY <1>1, <1>4, BuddyAssumption DEF Orders
  <2> QED
    BY <2>1, TypeOfOrder DEF Width
<1> QED
  BY <1>1, <1>2, <1>3, <1>4 DEF Behind, PageBehind

\* Where the leaves of a node lie.
LEMMA LeafPlaces ==
    ASSUME NEW h \in Heaps, NEW L, TreeOK(h, L), NEW n \in L, Inner(h, n)
    PROVE  LET l    == Left(h, n)
               r    == Right(h, n)
               half == Type[Order(h, n) - 1]
           IN  /\ n \in Nodes /\ l \in L \ MaxNodes /\ r \in L \ MaxNodes /\ l \in Nodes /\ r \in Nodes
               /\ half \in Nat \ {0} /\ Width(h, n) = half + half
               /\ Width(h, l) = half /\ Width(h, r) = half
               /\ l = n + 1 /\ r = n + half + half /\ Behind(h, l) = r /\ Behind(h, r) = Behind(h, n)
               /\ At(h, l) = At(h, n) /\ At(h, r) = At(h, n) + half
               /\ PageBehind(h, l) = At(h, r) /\ PageBehind(h, r) = PageBehind(h, n)
               /\ Order(h, l) = Order(h, n) - 1 /\ Order(h, r) = Order(h, n) - 1 /\ Order(h, n) > 0
               /\ Status(h, n) = "allocated"
               /\ n # l /\ n # r /\ l # r
<1>1. n \in Nodes /\ LeavesFit(h, L, n) /\ L \subseteq Nodes
  BY DEF TreeOK, TopsOK, NodeOK
<1>2. /\ Order(h, n) > 0 /\ n \in Nat
      /\ Type[Order(h, n) - 1] \in Nat \ {0}
      /\ Width(h, n) = 2 * Type[Order(h, n) - 1] /\ At(h, n) \in Nat
  BY <1>1, NodeNumbers DEF LeavesFit
<1>3. /\ Width(h, Left(h, n)) = Type[Order(h, n) - 1]
      /\ Width(h, Right(h, n)) = Type[Order(h, n) - 1]
  BY <1>1 DEF LeavesFit, Width
<1>4. /\ Left(h, n) = n + 1 /\ Right(h, n) = n + Width(h, n)
      /\ Left(h, n) \in L \ MaxNodes /\ Right(h, n) \in L \ MaxNodes
      /\ Order(h, Left(h, n)) = Order(h, n) - 1 /\ Order(h, Right(h, n)) = Order(h, n) - 1
      /\ At(h, Left(h, n)) = At(h, n) /\ At(h, Right(h, n)) = At(h, n) + Type[Order(h, n) - 1]
      /\ Status(h, n) = "allocated"
  BY <1>1 DEF LeavesFit
<1> DEFINE half == Type[Order(h, n) - 1]
<1> HIDE DEF half
<1>5. /\ Behind(h, Left(h, n)) = (n + 1) + 2 * half - 1
      /\ Behind(h, Right(h, n)) = (n + 2 * half) + 2 * half - 1
      /\ Behind(h, n) = n + 2 * (2 * half) - 1
      /\ PageBehind(h, Left(h, n)) = At(h, n) + half
      /\ PageBehind(h, Right(h, n)) = (At(h, n) + half) + half
      /\ PageBehind(h, n) = At(h, n) + 2 * half
  BY <1>2, <1>3, <1>4 DEF Behind, PageBehind, half
<1>6. half \in Nat \ {0}
  BY <1>2 DEF half
<1> QED
  BY <1>1, <1>2, <1>3, <1>4, <1>5, <1>6 DEF half

\* A tree whose nodes change their status only.
LEMMA TreeFrame ==
    ASSUME NEW h, NEW g, NEW L, TreeOK(h, L),
           \A k \in L : /\ Order(g, k) = Order(h, k) /\ At(g, k) = At(h, k)
                        /\ Left(g, k) = Left(h, k) /\ Right(g, k) = Right(h, k)
                        /\ Status(g, k) \in {"allocated", "unallocated"}
                        /\ Inner(h, k) => Status(g, k) = "allocated"
    PROVE  TreeOK(g, L)
<1>1. \A k \in L : /\ Inner(g, k) <=> Inner(h, k)
                   /\ Width(g, k) = Width(h, k)
                   /\ Behind(g, k) = Behind(h, k) /\ PageBehind(g, k) = PageBehind(h, k)
  BY DEF Inner, Width, Behind, PageBehind
<1>2. \A k \in L : Inner(h, k) => Left(h, k) \in L /\ Right(h, k) \in L
  BY DEF TreeOK, NodeOK, LeavesFit
<1>3. TopsOK(g, L)
  <2>1. \A b \in 1 .. Blocks : MaxNode(b) \in L
    BY DEF TreeOK, TopsOK, MaxNodes
  <2>2. \A n, m \in L : IsLeafOf(h, n, m) => IsLeafOf(g, n, m)
    BY <1>1 DEF IsLeafOf
  <2> QED
    BY <2>1, <2>2 DEF TreeOK, TopsOK
<1>4. \A n \in L : NodeOK(g, L, n)
  <2>1. TAKE n \in L
  <2>2. NodeOK(h, L, n)
    BY DEF TreeOK
  <2>3. Inner(h, n) => LeavesFit(g, L, n)
    BY <1>1, <1>2, <2>2 DEF NodeOK, LeavesFit
  <2> QED
    BY <1>1, <2>2, <2>3 DEF NodeOK, Whole
<1>5. Nested(g, L)
  <2>1. SUFFICES ASSUME NEW m \in L, NEW n \in L, m # n, IsUnder(g, m, n)
                 PROVE  Inner(g, n) /\ (Within(g, m, Left(g, n)) \/ Within(g, m, Right(g, n)))
    BY DEF Nested
  <2>2. IsUnder(h, m, n)
    BY <1>1, <2>1 DEF IsUnder
  <2>3. Inner(h, n) /\ (Within(h, m, Left(h, n)) \/ Within(h, m, Right(h, n)))
    BY <2>1, <2>2 DEF TreeOK, Nested
  <2> QED
    BY <1>1, <1>2, <2>3 DEF Within
<1> QED
  BY <1>3, <1>4, <1>5 DEF TreeOK

LEMMA TreeSame ==
    ASSUME NEW h, NEW g, NEW L, TreeOK(h, L), SameTree(h, g, Nodes)
    PROVE  TreeOK(g, L)
<1>1. \A k \in L : /\ k \in Nodes /\ Status(h, k) \in {"allocated", "unallocated"}
                   /\ Inner(h, k) => Status(h, k) = "allocated"
  BY DEF TreeOK, TopsOK, NodeOK, LeavesFit
<1>2. \A k \in L : /\ Order(g, k) = Order(h, k) /\ At(g, k) = At(h, k)
                   /\ Left(g, k) = Left(h, k) /\ Right(g, k) = Right(h, k)
                   /\ Status(g, k) \in {"allocated", "unallocated"}
                   /\ Inner(h, k) => Status(g, k) = "allocated"
  BY <1>1 DEF SameTree
<1> QED
  BY <1>2, TreeFrame

LEMMA TreeStatus ==
    ASSUME NEW h, NEW g, NEW L, TreeOK(h, L), NEW n \in L, NEW s \in {"allocated", "unallocated"},
           StatusSet(h, g, n, s), s = "allocated" \/ Whole(h, n)
    PROVE  TreeOK(g, L)
<1>1. \A k \in L : /\ k \in Nodes /\ Status(h, k) \in {"allocated", "unallocated"}
                   /\ Inner(h, k) => Status(h, k) = "allocated"
  BY DEF TreeOK, TopsOK, NodeOK, LeavesFit
<1>2. \A k \in L : /\ Order(g, k) = Order(h, k) /\ At(g, k) = At(h, k)
                   /\ Left(g, k) = Left(h, k) /\ Right(g, k) = Right(h, k)
                   /\ Status(g, k) = IF k = n THEN s ELSE Status(h, k)
  BY <1>1 DEF StatusSet, SameTree
<1>3. \A k \in L : /\ Status(g, k) \in {"allocated", "unallocated"}
                   /\ Inner(h, k) => Status(g, k) = "allocated"
  BY <1>1, <1>2 DEF Whole
<1> QED
  BY <1>2, <1>3, TreeFrame

\* What lies under a node lies within it.
LEMMA UnderIsWithin ==
    ASSUME NEW h \in Heaps, NEW L, TreeOK(h, L), NEW n \in L, NEW m \in L, IsUnder(h, m, n)
    PROVE  Within(h, m, n)
<1>1. m \in Nodes /\ n \in Nodes
  BY DEF TreeOK, TopsOK
<1>2. /\ n \in Nat /\ At(h, n) \in Nat /\ Behind(h, n) \in Nat /\ PageBehind(h, n) \in Nat
      /\ m \in Nat /\ At(h, m) \in Nat /\ Behind(h, m) \in Nat /\ PageBehind(h, m) \in Nat
  BY <1>1, NodeNumbers
<1>3. CASE m = n
  BY <1>2, <1>3 DEF Within
<1>4. CASE m # n
  <2>1. Inner(h, n) /\ (Within(h, m, Left(h, n)) \/ Within(h, m, Right(h, n)))
    BY <1>4 DEF TreeOK, Nested
  <2> DEFINE l    == Left(h, n)
             r    == Right(h, n)
             half == Type[Order(h, n) - 1]
  <2>2. /\ half \in Nat \ {0}
        /\ l = n + 1 /\ r = n + half + half /\ Behind(h, l) = r /\ Behind(h, r) = Behind(h, n)
        /\ At(h, l) = At(h, n) /\ At(h, r) = At(h, n) + half
        /\ PageBehind(h, l) = At(h, r) /\ PageBehind(h, r) = PageBehind(h, n)
        /\ l \in Nodes /\ r \in Nodes
    BY <2>1, LeafPlaces
  <2>3. l \in Nat /\ r \in Nat /\ Behind(h, r) \in Nat /\ PageBehind(h, r) \in Nat
        /\ Behind(h, r) = r + 2 * Width(h, r) - 1 /\ Width(h, r) \in Nat \ {0}
        /\ PageBehind(h, r) = At(h, r) + Width(h, r)
    BY <2>2, NodeNumbers DEF Behind, PageBehind
  <2> HIDE DEF l, r, half
  <2>4. Within(h, m, l) \/ Within(h, m, r)
    BY <2>1 DEF l, r
  <2> QED
    BY <1>2, <2>2, <2>3, <2>4 DEF Within
<1> QED
  BY <1>3, <1>4

\* Of two nodes in use that have a node of the numbering in common, one lies
\* under the other.
LEMMA UnderOrOver ==
    ASSUME NEW h \in Heaps, NEW m \in Nodes, NEW n \in Nodes, NEW k \in Nat, IsUnder(h, k, m), IsUnder(h, k, n)
    PROVE  IsUnder(h, m, n) \/ IsUnder(h, n, m)
<1>1. n \in Nat /\ m \in Nat /\ Behind(h, n) \in Nat /\ Behind(h, m) \in Nat
  BY NodeNumbers
<1> QED
  BY <1>1 DEF IsUnder

\* A node in use is the leaf of one node only.
LEMMA OneParent ==
    ASSUME NEW h \in Heaps, NEW L, TreeOK(h, L), NEW n \in L, NEW m \in L, NEW k,
           IsLeafOf(h, k, n), IsLeafOf(h, k, m)
    PROVE  m = n
<1>1. ASSUME NEW a \in L, NEW b \in L, IsLeafOf(h, k, a), IsLeafOf(h, k, b), a < b
      PROVE  FALSE
  <2> DEFINE l    == Left(h, a)
             r    == Right(h, a)
             half == Type[Order(h, a) - 1]
             bl   == Left(h, b)
             br   == Right(h, b)
             bh   == Type[Order(h, b) - 1]
  <2>1. Inner(h, a) /\ Inner(h, b) /\ k \in {l, r} /\ k \in {bl, br}
    BY <1>1 DEF IsLeafOf
  <2>2. /\ half \in Nat \ {0} /\ a \in Nodes /\ l \in L /\ r \in L
        /\ l = a + 1 /\ r = a + half + half /\ Behind(h, l) = r /\ Behind(h, r) = Behind(h, a)
        /\ Width(h, r) = half
    BY <2>1, LeafPlaces
  <2>3. /\ bh \in Nat \ {0} /\ b \in Nodes
        /\ bl = b + 1 /\ br = b + bh + bh /\ Behind(h, bl) = br /\ Behind(h, br) = Behind(h, b)
        /\ Width(h, br) = bh
    BY <2>1, LeafPlaces
  <2>4. a \in Nat /\ b \in Nat
    BY <2>2, <2>3, NodeNumbers
  <2>5. Behind(h, r) = r + 2 * half - 1 /\ Behind(h, br) = br + 2 * bh - 1
    BY <2>2, <2>3 DEF Behind
  <2> HIDE DEF l, r, half, bl, br, bh
  <2>6. b < k /\ k < Behind(h, b) /\ a < k /\ k < Behind(h, a) /\ k \in Nat
    BY <2>1, <2>2, <2>3, <2>4, <2>5
  <2>7. IsUnder(h, b, a)
    BY <1>1, <2>2, <2>4, <2>5, <2>6 DEF IsUnder
  <2>8. Within(h, b, l) \/ Within(h, b, r)
    BY <1>1, <2>4, <2>7 DEF TreeOK, Nested, l, r
  <2> QED
    BY <2>1, <2>2, <2>3, <2>4, <2>5, <2>6, <2>8 DEF Within
<1>2. m \in Nat /\ n \in Nat
  <2>1. m \in Nodes /\ n \in Nodes
    BY DEF TreeOK, TopsOK
  <2> QED
    BY <2>1, NodeNumbers
<1> QED
  BY <1>1, <1>2

\* The two nodes that become the leaves of a piece are not in use.
LEMMA LeafRoom ==
    ASSUME NEW h \in Heaps, NEW L, TreeOK(h, L), NEW n \in L, Whole(h, n), Order(h, n) > 0
    PROVE  LET l    == n + 1
               r    == n + Width(h, n)
               half == Type[Order(h, n) - 1]
           IN  /\ n \in Nodes /\ l \in Nodes \ L /\ r \in Nodes \ L
               /\ l \in Low /\ r \in Low
               /\ half \in Nat \ {0} /\ Width(h, n) = half + half
               /\ Order(h, n) - 1 \in Orders /\ Order(h, n) - 1 < MaxOrder
               /\ At(h, n) \in Nat /\ At(h, n) + half \in Pages
<1> DEFINE l    == n + 1
           r    == n + Width(h, n)
           half == Type[Order(h, n) - 1]
<1>1. n \in Nodes /\ L \subseteq Nodes /\ MaxNodes \subseteq L /\ NodeOK(h, L, n)
  BY DEF TreeOK, TopsOK
<1>2. /\ n \in Nat \ {0} /\ At(h, n) \in Nat /\ Order(h, n) \in Orders
      /\ Order(h, n) - 1 \in Orders /\ half \in Nat \ {0} /\ Width(h, n) = 2 * half
  BY <1>1, NodeNumbers
<1>3. /\ n + 2 * (2 * half) - 1 <= NodeCount + 1 /\ At(h, n) + 2 * half <= PageCount
      /\ Behind(h, n) = n + 2 * (2 * half) - 1
  BY <1>1, <1>2 DEF NodeOK, Behind, PageBehind
<1>4. l \in Nodes /\ r \in Nodes /\ At(h, n) + half \in Pages
  <2> HIDE DEF half
  <2> QED
    BY <1>2, <1>3, Counts
<1>5. l # n /\ r # n /\ IsUnder(h, l, n) /\ IsUnder(h, r, n)
  <2> HIDE DEF half
  <2> QED
    BY <1>2, <1>3 DEF IsUnder
<1>6. l \notin L /\ r \notin L
  BY <1>5 DEF TreeOK, Nested, Whole
<1>7. Order(h, n) - 1 < MaxOrder /\ Width(h, n) = half + half
  BY <1>2, BuddyAssumption DEF Orders
<1> QED
  BY <1>1, <1>2, <1>4, <1>6, <1>7 DEF Low

\* Two leaves grow below a piece.
LEMMA TreeGrows ==
    ASSUME NEW h \in Heaps, NEW g \in Heaps, NEW L, TreeOK(h, L), NEW n \in L, Whole(h, n),
           Order(h, n) > 0, Status(h, n) = "allocated",
           NEW s \in {"allocated", "unallocated"}, Grown(h, g, n, s)
    PROVE  /\ TreeOK(g, L \cup {n + 1, n + Width(h, n)})
           /\ Inner(g, n) /\ Whole(g, n + 1) /\ Whole(g, n + Width(h, n))
           /\ \A k \in L \ {n} : Inner(g, k) <=> Inner(h, k)
<1> DEFINE l    == n + 1
           r    == n + Width(h, n)
           half == Type[Order(h, n) - 1]
           M    == L \cup {l, r}
<1>1. /\ n \in Nodes /\ l \in Nodes \ L /\ r \in Nodes \ L /\ l \in Low /\ r \in Low
      /\ half \in Nat \ {0} /\ Width(h, n) = half + half
      /\ Order(h, n) - 1 \in Orders /\ Order(h, n) - 1 < MaxOrder
      /\ At(h, n) \in Nat /\ At(h, n) + half \in Pages
  BY LeafRoom
<1>2. /\ L \subseteq Nodes /\ MaxNodes \subseteq L /\ \A k \in L : NodeOK(h, L, k)
      /\ Nested(h, L)
  BY DEF TreeOK, TopsOK
<1>3. \A k \in L \ {n} : /\ Status(g, k) = Status(h, k) /\ Order(g, k) = Order(h, k)
                         /\ At(g, k) = At(h, k) /\ Left(g, k) = Left(h, k) /\ Right(g, k) = Right(h, k)
  BY <1>1, <1>2 DEF Grown, SameTree
<1>4. /\ Status(g, n) = "allocated" /\ Order(g, n) = Order(h, n) /\ At(g, n) = At(h, n)
      /\ Left(g, n) = l /\ Right(g, n) = r
  BY DEF Grown
<1>5. /\ Status(g, l) = "allocated" /\ Order(g, l) = Order(h, n) - 1 /\ At(g, l) = At(h, n)
      /\ Left(g, l) = Null /\ Right(g, l) = Null
  BY DEF Grown
<1>6. /\ Status(g, r) = s /\ Order(g, r) = Order(h, n) - 1 /\ At(g, r) = At(h, n) + half
      /\ Left(g, r) = Null /\ Right(g, r) = Null
  BY DEF Grown
<1>7. \A k \in L : /\ Width(g, k) = Width(h, k)
                   /\ Behind(g, k) = Behind(h, k) /\ PageBehind(g, k) = PageBehind(h, k)
  BY <1>3, <1>4 DEF Width, Behind, PageBehind
<1>8. \A k \in L \ {n} : Inner(g, k) <=> Inner(h, k)
  BY <1>3 DEF Inner
<1>9. Inner(g, n) /\ Whole(g, l) /\ Whole(g, r) /\ Null \notin Nodes
  BY <1>1, <1>4, <1>5, <1>6, Numbers DEF Inner, Whole
<1>10. n \in Nat /\ Width(g, l) = half /\ Width(g, r) = half
  BY <1>1, <1>5, <1>6, NodeNumbers DEF Width
<1>11. /\ Behind(g, l) = r /\ Behind(g, r) = Behind(h, n) /\ Behind(h, n) = n + 4 * half - 1
       /\ PageBehind(g, l) = At(h, n) + half /\ PageBehind(g, r) = PageBehind(h, n)
       /\ PageBehind(h, n) = At(h, n) + half + half /\ r = n + half + half
  <2>1. /\ Behind(g, l) = l + 2 * half - 1 /\ Behind(g, r) = r + 2 * half - 1
        /\ Behind(h, n) = n + 2 * (half + half) - 1
        /\ PageBehind(g, l) = At(h, n) + half /\ PageBehind(g, r) = (At(h, n) + half) + half
        /\ PageBehind(h, n) = At(h, n) + (half + half) /\ r = n + (half + half)
    BY <1>1, <1>5, <1>6, <1>10 DEF Behind, PageBehind
  <2> HIDE DEF half
  <2> QED
    BY <1>1, <1>10, <2>1
<1>12. TopsOK(g, M)
  <2>1. \A b \in 1 .. Blocks : MaxNode(b) \in L /\ Order(g, MaxNode(b)) = MaxOrder
                               /\ At(g, MaxNode(b)) = (b - 1) * Type[MaxOrder]
    BY <1>2, <1>3, <1>4 DEF TreeOK, TopsOK, MaxNodes
  <2>2. ASSUME NEW k \in M \ MaxNodes PROVE Order(g, k) < MaxOrder /\ \E m \in M : IsLeafOf(g, k, m)
    <3>1. CASE k \in {l, r}
      BY <1>1, <1>4, <1>5, <1>6, <1>9, <3>1 DEF IsLeafOf
    <3>2. CASE k \in L
      <4>1. PICK m \in L : IsLeafOf(h, k, m)
        BY <2>2, <3>2 DEF TreeOK, TopsOK
      <4>2. m # n
        BY <4>1 DEF IsLeafOf, Whole
      <4>3. IsLeafOf(g, k, m)
        BY <1>3, <1>8, <4>1, <4>2 DEF IsLeafOf
      <4>4. Order(g, k) < MaxOrder
        BY <1>3, <1>4, <2>2, <3>2 DEF TreeOK, TopsOK
      <4> QED
        BY <4>3, <4>4
    <3> QED
      BY <3>1, <3>2
  <2> QED
    BY <1>1, <1>2, <2>1, <2>2 DEF TopsOK
<1>13. \A k \in M : NodeOK(g, M, k)
  <2>1. ASSUME NEW k \in L \ {n} PROVE NodeOK(g, M, k)
    <3>1. NodeOK(h, L, k)
      BY <1>2
    <3>2. ASSUME Inner(h, k) PROVE LeavesFit(g, M, k)
      <4>1. LeavesFit(h, L, k)
        BY <3>1, <3>2 DEF NodeOK
      <4> QED
        BY <1>3, <1>4, <1>7, <4>1 DEF LeavesFit
    <3> QED
      BY <1>3, <1>7, <1>8, <3>1, <3>2 DEF NodeOK, Whole
  <2>2. NodeOK(g, M, n)
    <3>1. NodeOK(h, L, n)
      BY <1>2
    <3>2. LeavesFit(g, M, n)
      BY <1>1, <1>4, <1>5, <1>6, <1>7 DEF LeavesFit, Low
    <3> QED
      BY <1>4, <1>7, <1>9, <3>1, <3>2 DEF NodeOK, Whole
  <2>3. NodeOK(h, L, n)
    BY <1>2
  <2>4. /\ Behind(h, n) <= NodeCount + 1 /\ PageBehind(h, n) <= PageCount
        /\ NodeCount \in Nat /\ PageCount \in Nat
    BY <2>3, Counts DEF NodeOK
  <2>5. /\ Behind(g, l) <= NodeCount + 1 /\ PageBehind(g, l) <= PageCount
        /\ Behind(g, r) <= NodeCount + 1 /\ PageBehind(g, r) <= PageCount
    <3> HIDE DEF half, l, r
    <3> QED
      BY <1>1, <1>10, <1>11, <2>4
  <2>6. NodeOK(g, M, l) /\ NodeOK(g, M, r)
    BY <1>5, <1>6, <1>9, <2>5 DEF NodeOK, Whole
  <2> QED
    BY <2>1, <2>2, <2>6
<1>14. Nested(g, M)
  <2> SUFFICES ASSUME NEW m \in M, NEW k \in M, m # k, IsUnder(g, m, k)
               PROVE  Inner(g, k) /\ (Within(g, m, Left(g, k)) \/ Within(g, m, Right(g, k)))
    BY DEF Nested
  <2>1. /\ \A a \in M : a \in Nat /\ Behind(g, a) \in Nat /\ At(g, a) \in Nat /\ PageBehind(g, a) \in Nat
        /\ Behind(h, n) \in Nat
    BY <1>1, <1>2, NodeNumbers
  <2>2. CASE m \in L /\ k \in L
    <3>1. IsUnder(h, m, k)
      BY <1>7, <2>2 DEF IsUnder
    <3>2. Inner(h, k) /\ (Within(h, m, Left(h, k)) \/ Within(h, m, Right(h, k)))
      BY <1>2, <2>2, <3>1 DEF Nested
    <3>3. k # n
      BY <3>2 DEF Whole
    <3>4. Left(h, k) \in L /\ Right(h, k) \in L
      BY <2>2, <3>2, LeafPlaces
    <3> QED
      BY <1>3, <1>4, <1>7, <1>8, <2>2, <3>2, <3>3, <3>4 DEF Within
  <2>3. CASE m \in {l, r} /\ k = n
    BY <1>4, <1>9, <2>1, <2>3 DEF Within
  <2>4. CASE m \in {l, r} /\ k \in L \ {n}
    <3>1. Behind(g, m) <= Behind(h, n) /\ n < m /\ m < Behind(h, n) /\ At(h, n) <= At(g, m)
          /\ PageBehind(g, m) <= PageBehind(h, n)
      <4> HIDE DEF half
      <4> QED
        BY <1>1, <1>5, <1>6, <1>10, <1>11, <2>4
    <3>2. IsUnder(h, n, k)
      <4>1. n < k => IsUnder(h, k, n)
        BY <1>10, <2>1, <2>4, <3>1 DEF IsUnder
      <4>2. ~(n < k)
        BY <1>2, <2>4, <4>1 DEF Nested, Whole
      <4>3. k <= n /\ m < Behind(h, k)
        BY <1>7, <1>10, <2>1, <2>4, <4>2 DEF IsUnder
      <4> QED
        BY <1>7, <1>10, <2>1, <2>4, <3>1, <4>3 DEF IsUnder
    <3>3. Inner(h, k) /\ (Within(h, n, Left(h, k)) \/ Within(h, n, Right(h, k)))
      BY <1>2, <2>4, <3>2 DEF Nested
    <3>4. Left(h, k) \in L /\ Right(h, k) \in L
      BY <2>4, <3>3, LeafPlaces
    <3>5. ASSUME NEW c \in L, Within(h, n, c) PROVE Within(g, m, c)
      <4>1. c <= n /\ Behind(h, n) <= Behind(g, c) /\ At(g, c) <= At(h, n) /\ PageBehind(h, n) <= PageBehind(g, c)
        BY <1>3, <1>4, <1>7, <3>5 DEF Within
      <4>2. /\ c \in Nat /\ n \in Nat /\ m \in Nat /\ At(h, n) \in Nat /\ At(g, m) \in Nat /\ At(g, c) \in Nat
            /\ Behind(g, c) \in Nat /\ Behind(g, m) \in Nat /\ Behind(h, n) \in Nat
            /\ PageBehind(g, c) \in Nat /\ PageBehind(g, m) \in Nat /\ PageBehind(h, n) \in Nat
        BY <1>1, <1>2, NodeNumbers
      <4> QED
        BY <3>1, <4>1, <4>2 DEF Within
    <3> QED
      BY <1>3, <1>8, <2>4, <3>3, <3>4, <3>5
  <2>5. CASE m \in L /\ k \in {l, r}
    <3>1. Behind(g, k) <= Behind(h, n) /\ n < k
      <4> HIDE DEF half
      <4> QED
        BY <1>1, <1>10, <1>11, <2>5
    <3>2. m # n /\ IsUnder(h, m, n)
      BY <1>7, <1>10, <2>1, <2>5, <3>1 DEF IsUnder
    <3> QED
      BY <1>2, <2>5, <3>2 DEF Nested, Whole
  <2>6. CASE m \in {l, r} /\ k \in {l, r}
    <3> HIDE DEF half
    <3> QED
      BY <1>1, <1>10, <1>11, <2>6 DEF IsUnder
  <2> QED
    BY <2>2, <2>3, <2>4, <2>5, <2>6
<1> QED
  BY <1>8, <1>9, <1>12, <1>13, <1>14 DEF TreeOK

\* The leaves of a node are cut off.
LEMMA TreeShrinks ==
    ASSUME NEW h \in Heaps, NEW g \in Heaps, NEW L, TreeOK(h, L), NEW n \in L, Inner(h, n),
           Whole(h, Left(h, n)), Whole(h, Right(h, n)), NEW s, Shrunk(h, g, n, s)
    PROVE  /\ TreeOK(g, L \ {Left(h, n), Right(h, n)})
           /\ Whole(g, n) /\ \A k \in L \ {n, Left(h, n), Right(h, n)} : Inner(g, k) <=> Inner(h, k)
<1> DEFINE l == Left(h, n)
           r == Right(h, n)
           M == L \ {l, r}
<1>1. /\ n \in Nodes /\ l \in L \ MaxNodes /\ r \in L \ MaxNodes /\ n # l /\ n # r
      /\ l \in Nodes /\ r \in Nodes
  BY LeafPlaces
<1>2. /\ L \subseteq Nodes /\ MaxNodes \subseteq L /\ (\A k \in L : NodeOK(h, L, k))
      /\ Nested(h, L)
  BY DEF TreeOK, TopsOK
<1>3. \A k \in M \ {n} : /\ Status(g, k) = Status(h, k) /\ Left(g, k) = Left(h, k) /\ Right(g, k) = Right(h, k)
  BY <1>1, <1>2 DEF Shrunk, SameTree
<1>4. \A k \in L : Order(g, k) = Order(h, k) /\ At(g, k) = At(h, k)
  BY <1>1, <1>2 DEF Shrunk, SameTree
<1>5. Status(g, n) = "unallocated" /\ Left(g, n) = Null /\ Right(g, n) = Null
  BY DEF Shrunk
<1>6. \A k \in L : /\ Width(g, k) = Width(h, k)
                   /\ Behind(g, k) = Behind(h, k) /\ PageBehind(g, k) = PageBehind(h, k)
  BY <1>4 DEF Width, Behind, PageBehind
<1>7. (\A k \in M \ {n} : Inner(g, k) <=> Inner(h, k)) /\ Whole(g, n)
  BY <1>3, <1>5 DEF Inner, Whole
<1>8. ASSUME NEW k \in M \ {n}, Inner(h, k) PROVE Left(h, k) \in M /\ Right(h, k) \in M
  <2>1. Left(h, k) \in L /\ Right(h, k) \in L
    BY <1>8, LeafPlaces
  <2>2. \A c \in {l, r} : ~IsLeafOf(h, c, k)
    <3>1. \A c \in {l, r} : IsLeafOf(h, c, n)
      BY DEF IsLeafOf
    <3> QED
      BY <1>8, <3>1, OneParent
  <2> QED
    BY <1>8, <2>1, <2>2 DEF IsLeafOf
<1>9. TopsOK(g, M)
  <2>1. \A b \in 1 .. Blocks : MaxNode(b) \in L /\ Order(g, MaxNode(b)) = MaxOrder
                               /\ At(g, MaxNode(b)) = (b - 1) * Type[MaxOrder]
    BY <1>2, <1>4 DEF TreeOK, TopsOK, MaxNodes
  <2>2. ASSUME NEW k \in M \ MaxNodes PROVE Order(g, k) < MaxOrder /\ \E m \in M : IsLeafOf(g, k, m)
    <3>1. PICK m \in L : IsLeafOf(h, k, m)
      BY <2>2 DEF TreeOK, TopsOK
    <3>2. m \in M \ {n}
      BY <2>2, <3>1 DEF IsLeafOf, Whole
    <3>3. IsLeafOf(g, k, m)
      BY <1>3, <1>7, <3>1, <3>2 DEF IsLeafOf
    <3>4. Order(g, k) < MaxOrder
      BY <1>4, <2>2 DEF TreeOK, TopsOK
    <3> QED
      BY <3>2, <3>3, <3>4
  <2> QED
    BY <1>1, <1>2, <2>1, <2>2 DEF TopsOK
<1>10. \A k \in M : NodeOK(g, M, k)
  <2>1. ASSUME NEW k \in M \ {n} PROVE NodeOK(g, M, k)
    <3>1. NodeOK(h, L, k)
      BY <1>2
    <3>2. ASSUME Inner(h, k) PROVE LeavesFit(g, M, k)
      <4>1. LeavesFit(h, L, k)
        BY <3>1, <3>2 DEF NodeOK
      <4>2. Left(h, k) \in M /\ Right(h, k) \in M
        BY <1>8, <3>2
      <4> QED
        BY <1>3, <1>4, <1>6, <4>1, <4>2 DEF LeavesFit
    <3> QED
      BY <1>3, <1>6, <1>7, <3>1, <3>2 DEF NodeOK, Whole
  <2>2. NodeOK(g, M, n)
    <3>1. NodeOK(h, L, n)
      BY <1>2
    <3> QED
      BY <1>5, <1>6, <1>7, <3>1 DEF NodeOK, Whole
  <2> QED
    BY <2>1, <2>2
<1>11. Nested(g, M)
  <2> SUFFICES ASSUME NEW m \in M, NEW k \in M, m # k, IsUnder(g, m, k)
               PROVE  Inner(g, k) /\ (Within(g, m, Left(g, k)) \/ Within(g, m, Right(g, k)))
    BY DEF Nested
  <2>1. IsUnder(h, m, k)
    BY <1>6 DEF IsUnder
  <2>2. Inner(h, k) /\ (Within(h, m, Left(h, k)) \/ Within(h, m, Right(h, k)))
    BY <1>2, <2>1 DEF Nested
  <2>3. k # n
    <3>1. SUFFICES ASSUME k = n PROVE FALSE
      OBVIOUS
    <3>2. PICK c \in {l, r} : Within(h, m, c) /\ Whole(h, c) /\ c \in L /\ m # c
      BY <1>1, <2>2, <3>1
    <3>3. /\ m \in Nat /\ Behind(h, m) \in Nat /\ c \in Nat /\ Behind(h, c) \in Nat
          /\ Width(h, m) \in Nat \ {0} /\ Behind(h, m) = m + 2 * Width(h, m) - 1
      BY <1>2, <3>2, NodeNumbers DEF Behind
    <3>4. IsUnder(h, m, c)
      BY <3>2, <3>3 DEF IsUnder, Within
    <3> QED
      BY <1>2, <3>2, <3>4 DEF Nested, Whole
  <2>4. Left(h, k) \in M /\ Right(h, k) \in M
    BY <1>8, <2>2, <2>3
  <2> QED
    BY <1>3, <1>4, <1>6, <1>7, <2>2, <2>3, <2>4 DEF Within
<1> QED
  BY <1>7, <1>9, <1>10, <1>11 DEF TreeOK

-----------------------------------------------------------------------------
(* The pages of the pieces.                                                  *)

\* The pieces cut the heap, and the allocated ones hold the pages A.
PagesOK(h, L, A) ==
    /\ \A p \in Pages : \E n \in L : Whole(h, n) /\ HasPage(h, n, p)
    /\ \A n \in L, p \in Pages :
          Whole(h, n) /\ HasPage(h, n, p) => (Status(h, n) = "allocated" <=> p \in A)
    /\ \A m, n \in L, p \in Pages :
          Whole(h, m) /\ Whole(h, n) /\ HasPage(h, m, p) /\ HasPage(h, n, p) => m = n

LEMMA PagesSame ==
    ASSUME NEW h, NEW g, NEW L \in SUBSET Nodes, NEW A, PagesOK(h, L, A), SameTree(h, g, Nodes)
    PROVE  PagesOK(g, L, A)
<1>1. \A k \in L : /\ Whole(g, k) <=> Whole(h, k)
                   /\ Status(g, k) = Status(h, k)
                   /\ \A p \in Pages : HasPage(g, k, p) <=> HasPage(h, k, p)
  BY DEF SameTree, Whole, Inner, HasPage, PageBehind, Width
<1> QED
  BY <1>1 DEF PagesOK

\* A piece changes its status.
LEMMA PagesStatus ==
    ASSUME NEW h, NEW g, NEW L \in SUBSET Nodes, NEW A, NEW B, NEW n \in L,
           NEW s \in {"allocated", "unallocated"},
           PagesOK(h, L, A), StatusSet(h, g, n, s), Whole(h, n),
           \A p \in Pages : p \in B <=> IF HasPage(h, n, p) THEN s = "allocated" ELSE p \in A
    PROVE  PagesOK(g, L, B)
<1>1. \A k \in L : /\ Whole(g, k) <=> Whole(h, k)
                   /\ \A p \in Pages : HasPage(g, k, p) <=> HasPage(h, k, p)
  BY DEF StatusSet, SameTree, Whole, Inner, HasPage, PageBehind, Width
<1>2. \A k \in L : Status(g, k) = IF k = n THEN s ELSE Status(h, k)
  BY DEF StatusSet, SameTree
<1>3. \A k \in L, p \in Pages :
          Whole(g, k) /\ HasPage(g, k, p) => (Status(g, k) = "allocated" <=> p \in B)
  <2>1. TAKE k \in L, p \in Pages
  <2>2. HAVE Whole(g, k) /\ HasPage(g, k, p)
  <2>3. CASE k = n
    BY <1>1, <1>2, <2>2, <2>3
  <2>4. CASE k # n
    <3>1. ~HasPage(h, n, p)
      BY <1>1, <2>2, <2>4 DEF PagesOK
    <3> QED
      BY <1>1, <1>2, <2>2, <2>4, <3>1 DEF PagesOK
  <2> QED
    BY <2>3, <2>4
<1> QED
  BY <1>1, <1>3 DEF PagesOK

\* B are the pages held of A when the right half of n gets the status s.
Halved(h, n, s, A, B) ==
    \A p \in Pages : p \in B <=>
        p \in A /\ ~(s = "unallocated" /\ At(h, n) + Type[Order(h, n) - 1] <= p
                                       /\ p < PageBehind(h, n))

\* A piece is cut in two, and the right half may be free.
LEMMA PagesGrow ==
    ASSUME NEW h \in Heaps, NEW g \in Heaps, NEW L, TreeOK(h, L), NEW A, NEW B, PagesOK(h, L, A),
           NEW n \in L, Whole(h, n), Order(h, n) > 0, Status(h, n) = "allocated",
           NEW s \in {"allocated", "unallocated"}, Grown(h, g, n, s),
           Halved(h, n, s, A, B)
    PROVE  PagesOK(g, L \cup {n + 1, n + Width(h, n)}, B)
<1> DEFINE l    == n + 1
           r    == n + Width(h, n)
           half == Type[Order(h, n) - 1]
           M    == L \cup {l, r}
<1>1. /\ n \in Nodes /\ l \in Nodes \ L /\ r \in Nodes \ L
      /\ half \in Nat \ {0} /\ Width(h, n) = half + half
      /\ At(h, n) \in Nat /\ At(h, n) + half \in Pages
  BY LeafRoom
<1>2. L \subseteq Nodes /\ Pages \subseteq Nat
  BY Numbers DEF TreeOK, TopsOK
<1>3. \A k \in L \ {n} : /\ Whole(g, k) <=> Whole(h, k)
                         /\ Status(g, k) = Status(h, k)
                         /\ \A p \in Pages : HasPage(g, k, p) <=> HasPage(h, k, p)
  BY <1>1, <1>2 DEF Grown, SameTree, Whole, Inner, HasPage, PageBehind, Width
<1>4. Inner(g, n) /\ Whole(g, l) /\ Whole(g, r)
  <2>1. TreeOK(g, M) /\ Inner(g, n) /\ Whole(g, l) /\ Whole(g, r)
    BY TreeGrows
  <2> QED
    BY <2>1
<1>5. /\ Status(g, l) = "allocated" /\ Order(g, l) = Order(h, n) - 1 /\ At(g, l) = At(h, n)
      /\ Status(g, r) = s /\ Order(g, r) = Order(h, n) - 1 /\ At(g, r) = At(h, n) + half
  BY DEF Grown
<1>6. Width(g, l) = half /\ Width(g, r) = half
  BY <1>5 DEF Width
<1>7. \A p \in Pages : /\ HasPage(g, l, p) <=> At(h, n) <= p /\ p < At(h, n) + half
                       /\ HasPage(g, r, p) <=> At(h, n) + half <= p /\ p < PageBehind(h, n)
                       /\ HasPage(h, n, p) <=> At(h, n) <= p /\ p < PageBehind(h, n)
                       /\ p \in Nat
  <2>1. PageBehind(g, l) = At(h, n) + half /\ PageBehind(g, r) = (At(h, n) + half) + half
        /\ PageBehind(h, n) = At(h, n) + (half + half)
    BY <1>1, <1>5, <1>6 DEF PageBehind
  <2> HIDE DEF half, l, r
  <2>2. PageBehind(g, r) = PageBehind(h, n)
    BY <1>1, <2>1
  <2> QED
    BY <1>1, <1>2, <1>5, <2>1, <2>2 DEF HasPage
<1>8. PageBehind(h, n) = At(h, n) + half + half
  BY <1>1 DEF PageBehind
<1> HIDE DEF l, r, half
<1>9. \A p \in Pages : /\ HasPage(h, n, p) <=> HasPage(g, l, p) \/ HasPage(g, r, p)
                       /\ ~(HasPage(g, l, p) /\ HasPage(g, r, p))
  BY <1>1, <1>7, <1>8
<1>10. \A p \in Pages : p \in B <=> p \in A /\ ~(s = "unallocated" /\ HasPage(g, r, p))
  BY <1>7 DEF half, Halved
<1>11. \A p \in Pages : \E k \in M : Whole(g, k) /\ HasPage(g, k, p)
  <2>1. TAKE p \in Pages
  <2>2. PICK k \in L : Whole(h, k) /\ HasPage(h, k, p)
    BY DEF PagesOK
  <2> QED
    BY <1>3, <1>4, <1>9, <2>2
<1>12. ASSUME NEW k \in M, NEW p \in Pages, Whole(g, k), HasPage(g, k, p)
       PROVE  /\ Status(g, k) = "allocated" <=> p \in B
              /\ k \in L \ {n} => Whole(h, k) /\ HasPage(h, k, p) /\ ~HasPage(h, n, p)
  <2>1. CASE k \in L \ {n}
    <3>1. Whole(h, k) /\ HasPage(h, k, p)
      BY <1>3, <1>12, <2>1
    <3>2. ~HasPage(h, n, p)
      BY <2>1, <3>1 DEF PagesOK
    <3> QED
      BY <1>3, <1>9, <1>10, <2>1, <3>1, <3>2 DEF PagesOK
  <2>2. CASE k = l
    <3>1. p \in A
      BY <1>9, <1>12, <2>2 DEF PagesOK
    <3> QED
      BY <1>1, <1>5, <1>9, <1>10, <1>12, <2>2, <3>1
  <2>3. CASE k = r
    <3>1. p \in A
      BY <1>9, <1>12, <2>3 DEF PagesOK
    <3> QED
      BY <1>1, <1>5, <1>10, <1>12, <2>3, <3>1
  <2>4. k # n
    BY <1>4, <1>12 DEF Whole
  <2> QED
    BY <2>1, <2>2, <2>3, <2>4
<1>13. ASSUME NEW m \in M, NEW k \in M, NEW p \in Pages,
              Whole(g, m), Whole(g, k), HasPage(g, m, p), HasPage(g, k, p)
       PROVE  m = k
  <2>1. m # n /\ k # n
    BY <1>4, <1>13 DEF Whole
  <2>2. CASE m \in L /\ k \in L
    BY <1>12, <1>13, <2>1, <2>2 DEF PagesOK
  <2>3. CASE ~(m \in L /\ k \in L)
    BY <1>9, <1>12, <1>13, <2>1, <2>3
  <2> QED
    BY <2>2, <2>3
<1>14. PagesOK(g, M, B)
  <2> HIDE DEF M
  <2> QED
    BY <1>11, <1>12, <1>13 DEF PagesOK
<1> QED
  BY <1>14 DEF l, r

\* Two free halves become one piece.
LEMMA PagesShrink ==
    ASSUME NEW h \in Heaps, NEW g \in Heaps, NEW L, TreeOK(h, L), NEW A, PagesOK(h, L, A),
           NEW n \in L, Inner(h, n), Whole(h, Left(h, n)), Whole(h, Right(h, n)),
           Status(h, Left(h, n)) = "unallocated", Status(h, Right(h, n)) = "unallocated",
           NEW s, Shrunk(h, g, n, s)
    PROVE  PagesOK(g, L \ {Left(h, n), Right(h, n)}, A)
<1> DEFINE l    == Left(h, n)
           r    == Right(h, n)
           half == Type[Order(h, n) - 1]
           M    == L \ {l, r}
<1>1. /\ n \in Nodes /\ l \in L /\ r \in L /\ n # l /\ n # r /\ l # r
      /\ half \in Nat \ {0} /\ l \in Nodes /\ r \in Nodes
      /\ At(h, l) = At(h, n) /\ At(h, r) = At(h, n) + half
      /\ PageBehind(h, l) = At(h, r) /\ PageBehind(h, r) = PageBehind(h, n)
  BY LeafPlaces
<1>2. L \subseteq Nodes /\ Pages \subseteq Nat
  BY Numbers DEF TreeOK, TopsOK
<1>3. \A k \in M \ {n} : /\ Whole(g, k) <=> Whole(h, k)
                         /\ Status(g, k) = Status(h, k)
                         /\ \A p \in Pages : HasPage(g, k, p) <=> HasPage(h, k, p)
  BY <1>1, <1>2 DEF Shrunk, SameTree, Whole, Inner, HasPage, PageBehind, Width
<1>4. Whole(g, n) /\ Status(g, n) = "unallocated"
      /\ \A p \in Pages : HasPage(g, n, p) <=> HasPage(h, n, p)
  BY DEF Shrunk, Whole, Inner, HasPage, PageBehind, Width
<1>5. At(h, n) \in Nat /\ PageBehind(h, r) \in Nat /\ PageBehind(h, r) = At(h, r) + Width(h, r)
      /\ Width(h, r) \in Nat
  BY <1>1, NodeNumbers DEF PageBehind
<1> HIDE DEF half, l, r
<1>6. \A p \in Pages : HasPage(h, n, p) <=> HasPage(h, l, p) \/ HasPage(h, r, p)
  BY <1>1, <1>2, <1>5 DEF HasPage
<1>7. Whole(h, l) /\ Whole(h, r) /\ Status(h, l) = "unallocated" /\ Status(h, r) = "unallocated"
  BY DEF l, r
<1>8. \A p \in Pages : \E k \in M : Whole(g, k) /\ HasPage(g, k, p)
  <2>1. TAKE p \in Pages
  <2>2. PICK k \in L : Whole(h, k) /\ HasPage(h, k, p)
    BY DEF PagesOK
  <2>3. k # n
    BY <2>2 DEF Whole
  <2> QED
    BY <1>1, <1>3, <1>4, <1>6, <2>2, <2>3
<1>9. ASSUME NEW p \in Pages, HasPage(h, n, p)
      PROVE  p \notin A /\ \A k \in L \ {l, r} : ~(Whole(h, k) /\ HasPage(h, k, p))
  <2>1. PICK c \in {l, r} : HasPage(h, c, p)
    BY <1>6, <1>9
  <2> QED
    BY <1>1, <1>7, <2>1 DEF PagesOK
<1>10. ASSUME NEW k \in M, NEW p \in Pages, Whole(g, k), HasPage(g, k, p)
       PROVE  /\ Status(g, k) = "allocated" <=> p \in A
              /\ k # n => Whole(h, k) /\ HasPage(h, k, p) /\ ~HasPage(h, n, p)
  BY <1>3, <1>4, <1>9, <1>10 DEF PagesOK
<1>11. ASSUME NEW m \in M, NEW k \in M, NEW p \in Pages,
              Whole(g, m), Whole(g, k), HasPage(g, m, p), HasPage(g, k, p)
       PROVE  m = k
  BY <1>4, <1>10, <1>11 DEF PagesOK
<1>12. PagesOK(g, M, A)
  <2> HIDE DEF M
  <2> QED
    BY <1>8, <1>10, <1>11 DEF PagesOK
<1> QED
  BY <1>12 DEF l, r

-----------------------------------------------------------------------------
(* What splits and joins do to the lists.                                    *)

LEMMA ListsGrow ==
    ASSUME NEW h \in Heaps, NEW g \in Heaps, NEW L, TreeOK(h, L), ListsOK(h, L),
           NEW n \in L, Whole(h, n), Order(h, n) > 0, Status(h, n) = "allocated",
           NEW s \in {"allocated", "unallocated"}, Grown(h, g, n, s), g.first = h.first,
           SameLinks(h, g, Nodes \ {n + 1, n + Width(h, n)}),
           NextOf(g, n + 1) = Null, PrevOf(g, n + 1) = Null,
           NextOf(g, n + Width(h, n)) = Null, PrevOf(g, n + Width(h, n)) = Null
    PROVE  /\ ListsOK(g, L \cup {n + 1, n + Width(h, n)})
           /\ ~Linked(g, n + 1) /\ ~Linked(g, n + Width(h, n))
<1> DEFINE l == n + 1
           r == n + Width(h, n)
           M == L \cup {l, r}
           S == {l, r}
<1>1. n \in Nodes /\ l \in Nodes \ L /\ r \in Nodes \ L /\ l \in Low /\ r \in Low /\ Low \subseteq Nodes
  BY LeafRoom DEF Low
<1>2. ~Linked(h, l) /\ ~Linked(h, r)
  BY <1>1 DEF ListsOK
<1>3. S \in SUBSET Nodes /\ \A k \in S \cap Low : ~Linked(h, k) /\ NextOf(g, k) = Null /\ PrevOf(g, k) = Null
  BY <1>1, <1>2
<1>4. \A k \in Low \ S : /\ Order(g, k) = Order(h, k)
                         /\ k # n => Status(g, k) = Status(h, k) /\ (Whole(g, k) <=> Whole(h, k))
  BY <1>1 DEF Grown, SameTree, Whole, Inner
<1>5. \A k \in Low \ S : k \in L /\ Whole(h, k) /\ Status(h, k) = "unallocated"
                         => k \in M /\ Whole(g, k) /\ Status(g, k) = "unallocated"
  BY <1>4
<1>6. SameLinks(h, g, Nodes \ S)
  OBVIOUS
<1> HIDE DEF S, M
<1>7. ListsOK(g, M) /\ \A k \in Low : Linked(g, k) => Linked(h, k)
  BY ZenonT(30), <1>3, <1>4, <1>5, <1>6, ListsFrame
<1> QED
  BY <1>1, <1>2, <1>7 DEF M

LEMMA ListsShrink ==
    ASSUME NEW h \in Heaps, NEW g \in Heaps, NEW L, TreeOK(h, L), ListsOK(h, L),
           NEW n \in L, Inner(h, n), NEW s, Shrunk(h, g, n, s),
           SameLists(Unlink(Unlink(h, Left(h, n)), Right(h, n)), g)
    PROVE  /\ ListsOK(g, L \ {Left(h, n), Right(h, n)})
           /\ \A k \in Low : Linked(g, k) => Linked(h, k)
<1> DEFINE l == Left(h, n)
           r == Right(h, n)
           v == Unlink(h, l)
           u == Unlink(v, r)
           M == L \ {l, r}
           S == {l, r}
<1>1. /\ n \in Nodes /\ l \in Nodes /\ r \in Nodes /\ l \in Low /\ r \in Low /\ l \in L /\ r \in L
      /\ n # l /\ n # r /\ l # r /\ Low \subseteq Nodes
  BY LeafPlaces DEF Low
<1>2. Order(h, l) # MaxOrder /\ Order(h, r) # MaxOrder
  <2>1. Order(h, l) < MaxOrder /\ Order(h, r) < MaxOrder
    BY <1>1 DEF TreeOK, TopsOK, Low
  <2> QED
    BY <2>1, MaxOrderIsNumber
<1> HIDE DEF l, r
<1>3. /\ v \in Heaps /\ SameTree(h, v, Nodes)
      /\ ListsOK(v, L) /\ ~Linked(v, l) /\ \A k \in Low : Linked(v, k) => Linked(h, k)
  BY <1>1, <1>2, UnlinkDoes, UnlinkLists
<1>4. Order(v, r) # MaxOrder
  BY <1>1, <1>2, <1>3 DEF SameTree
<1> HIDE DEF v
<1>5. /\ u \in Heaps /\ SameTree(v, u, Nodes)
      /\ ListsOK(u, L) /\ ~Linked(u, r) /\ \A k \in Low : Linked(u, k) => Linked(v, k)
  BY <1>1, <1>3, <1>4, UnlinkDoes, UnlinkLists
<1>6. SameLists(u, g)
  BY DEF u, v, l, r
<1> HIDE DEF u
<1>7. ~Linked(u, l)
  BY <1>1, <1>3, <1>5
<1>8. S \in SUBSET Nodes /\ \A k \in S \cap Low : ~Linked(u, k) /\ NextOf(g, k) = Null /\ PrevOf(g, k) = Null
  BY <1>1, <1>5, <1>6, <1>7 DEF SameLists, SameLinks, Linked
<1>9. \A k \in Low \ S : /\ Order(g, k) = Order(u, k)
                         /\ k # n => Status(g, k) = Status(u, k) /\ (Whole(g, k) <=> Whole(u, k))
                         /\ Whole(u, k) <=> Whole(h, k)
  BY <1>1, <1>3, <1>5 DEF Shrunk, SameTree, Whole, Inner, l, r
<1>10. \A k \in Low \ S : k \in L /\ Whole(u, k) /\ Status(u, k) = "unallocated"
                          => k \in M /\ Whole(g, k) /\ Status(g, k) = "unallocated"
  BY <1>9 DEF Whole
<1>11. SameLinks(u, g, Nodes \ S) /\ g.first = u.first
  BY <1>6 DEF SameLists, SameLinks
<1> HIDE DEF S, M
<1>12. ListsOK(g, M) /\ \A k \in Low : Linked(g, k) => Linked(u, k)
  BY <1>5, <1>8, <1>9, <1>10, <1>11, ListsFrame
<1> QED
  BY <1>3, <1>5, <1>12 DEF M, l, r

\* A piece is freed.
LEMMA ListsFreed ==
    ASSUME NEW h \in Heaps, NEW g \in Heaps, NEW L, ListsOK(h, L), NEW n \in Nodes,
           StatusSet(h, g, n, "unallocated"), SameLists(h, g)
    PROVE  ListsOK(g, L) /\ \A k \in Low : Linked(g, k) => Linked(h, k)
<1> DEFINE S == {}
<1>1. S \in SUBSET Nodes /\ g.first = h.first /\ SameLinks(h, g, Nodes \ S)
      /\ \A k \in S \cap Low : ~Linked(h, k) /\ NextOf(g, k) = Null /\ PrevOf(g, k) = Null
  BY DEF SameLists, SameLinks
<1>2. /\ \A k \in Low \ S : Order(g, k) = Order(h, k)
      /\ \A k \in Low \ S : k \in L /\ Whole(h, k) /\ Status(h, k) = "unallocated"
                            => k \in L /\ Whole(g, k) /\ Status(g, k) = "unallocated"
  BY DEF StatusSet, SameTree, Whole, Inner, Low
<1> HIDE DEF S
<1> QED
  BY <1>1, <1>2, ListsFrame

-----------------------------------------------------------------------------
(* kalloc() splits the node it takes.                                        *)

\* A turn of the loop, with or without a free right half.
Cut(h, n, s) ==
    IF s = "allocated" THEN WithLeaves(h, n, "allocated")
    ELSE PushFirst(WithLeaves(h, n, "unallocated"), n + Width(h, n))

LEMMA CutDoes ==
    ASSUME NEW h \in Heaps, NEW L, TreeOK(h, L), ListsOK(h, L), NEW A, NEW B, PagesOK(h, L, A),
           NEW n \in L, Whole(h, n), Order(h, n) > 0, Status(h, n) = "allocated",
           NEW s \in {"allocated", "unallocated"},
           Halved(h, n, s, A, B)
    PROVE  LET g == Cut(h, n, s)
               M == L \cup {n + 1, n + Width(h, n)}
           IN  /\ g \in Heaps /\ g.relinked = h.relinked /\ Grown(h, g, n, s)
               /\ TreeOK(g, M) /\ ListsOK(g, M) /\ PagesOK(g, M, B)
<1> DEFINE l == n + 1
           r == n + Width(h, n)
           M == L \cup {l, r}
           f == WithLeaves(h, n, s)
           e == PushFirst(f, r)
<1>1. /\ n \in Nodes /\ l \in Nodes \ L /\ r \in Nodes \ L /\ l \in Low /\ r \in Low
      /\ Type[Order(h, n) - 1] \in Nat \ {0} /\ Width(h, n) = Type[Order(h, n) - 1] + Type[Order(h, n) - 1]
      /\ At(h, n) + Type[Order(h, n) - 1] \in Pages
      /\ Order(h, n) - 1 < MaxOrder
  BY LeafRoom
<1>2. /\ f \in Heaps /\ f.first = h.first /\ f.relinked = h.relinked
      /\ Grown(h, f, n, s)
      /\ SameLinks(h, f, Nodes \ {l, r})
      /\ NextOf(f, l) = Null /\ PrevOf(f, l) = Null
      /\ NextOf(f, r) = Null /\ PrevOf(f, r) = Null
  BY <1>1, WithLeavesDoes
<1> HIDE DEF f
<1>3. TreeOK(f, M) /\ Whole(f, r)
  BY <1>2, TreeGrows
<1>4. PagesOK(f, M, B)
  BY <1>2, PagesGrow
<1>5. ListsOK(f, M) /\ ~Linked(f, r)
  BY <1>2, ListsGrow
<1>6. CASE s = "allocated"
  <2>1. Cut(h, n, s) = f
    BY <1>6 DEF Cut, f
  <2> QED
    BY <1>2, <1>3, <1>4, <1>5, <2>1
<1>7. CASE s = "unallocated"
  <2>1. Cut(h, n, s) = e
    BY <1>7 DEF Cut, f
  <2>2. e \in Heaps /\ e.relinked = f.relinked /\ SameTree(f, e, Nodes)
    BY <1>1, <1>2, PushFirstDoes
  <2>3. TreeOK(e, M)
    <3> HIDE DEF M, e
    <3> QED
      BY <1>3, <2>2, TreeSame
  <2>4. PagesOK(e, M, B)
    <3>1. M \in SUBSET Nodes
      BY <1>3 DEF TreeOK, TopsOK
    <3> HIDE DEF M, e
    <3> QED
      BY <1>4, <2>2, <3>1, PagesSame
  <2>5. Status(f, r) = "unallocated" /\ Order(f, r) = Order(h, n) - 1
    BY <1>2, <1>7 DEF Grown
  <2>6. Order(f, r) # MaxOrder
    <3>1. Order(h, n) \in Nat
      BY <1>1, NodeNumbers
    <3> QED
      BY <1>1, <2>5, <3>1, MaxOrderIsNumber
  <2>7. ListsOK(e, M)
    <3>1. r \in M
      OBVIOUS
    <3> HIDE DEF M, r
    <3> QED
      BY <1>1, <1>2, <1>3, <1>5, <2>5, <2>6, <3>1, PushFirstLists
  <2>8. Grown(h, e, n, s)
    <3> HIDE DEF e
    <3> QED
      BY <1>1, <1>2, <2>2 DEF Grown, SameTree
  <2> QED
    BY <1>2, <2>1, <2>2, <2>3, <2>4, <2>7, <2>8
<1> QED
  BY <1>6, <1>7

\* What the loop finds, and what it leaves: pieces that hold the first `size`
\* pages of n and free ones for the rest.
SplitPre(h, L, A, n, size) ==
    /\ TreeOK(h, L) /\ ListsOK(h, L) /\ PagesOK(h, L, A)
    /\ n \in L /\ Whole(h, n) /\ Status(h, n) = "allocated"
    /\ size \in 1 .. Width(h, n)

Rest(h, n, size) == At(h, n) + size .. PageBehind(h, n) - 1

SplitPost(h, L, A, n, size, g, M) ==
    /\ g \in Heaps /\ g.relinked = h.relinked
    /\ TreeOK(g, M) /\ ListsOK(g, M) /\ PagesOK(g, M, A \ Rest(h, n, size))
    /\ L \subseteq M /\ \A k \in M \ L : k # n /\ IsUnder(h, k, n)
    /\ SameTree(h, g, {k \in Nodes : ~IsUnder(h, k, n)})
    /\ Status(g, n) = "allocated" /\ Order(g, n) = Order(h, n) /\ At(g, n) = At(h, n)
    /\ \A k \in M : IsUnder(h, k, n) /\ Inner(g, k) => Status(g, Left(g, k)) = "allocated"

\* One of the halves is split further.
LEMMA SplitBelow ==
    ASSUME NEW h \in Heaps, NEW L \in SUBSET Nodes, NEW A \in SUBSET Pages, NEW n \in Nodes, NEW size \in Nat,
           SplitPre(h, L, A, n, size), Order(h, n) > 0,
           NEW s \in {"allocated", "unallocated"}, NEW e \in Heaps, e.relinked = h.relinked, Grown(h, e, n, s),
           TreeOK(e, L \cup {n + 1, n + Width(h, n)}),
           NEW c \in {n + 1, n + Width(h, n)}, NEW below \in Nat, NEW B \in SUBSET Pages,
           NEW g, NEW M, SplitPost(e, L \cup {n + 1, n + Width(h, n)}, B, c, below, g, M),
           B \ Rest(e, c, below) = A \ Rest(h, n, size)
    PROVE  SplitPost(h, L, A, n, size, g, M)
<1> DEFINE l    == n + 1
           r    == n + Width(h, n)
           half == Type[Order(h, n) - 1]
           K    == L \cup {l, r}
<1>1. TreeOK(h, L) /\ n \in L /\ Whole(h, n) /\ Status(h, n) = "allocated"
  BY DEF SplitPre
<1>2. /\ n \in Nodes /\ l \in Nodes \ L /\ r \in Nodes \ L
      /\ half \in Nat \ {0} /\ Width(h, n) = half + half
  BY <1>1, LeafRoom
<1>3. /\ Inner(e, n) /\ Whole(e, l) /\ Whole(e, r)
      /\ \A k \in L \ {n} : Inner(e, k) <=> Inner(h, k)
  BY <1>1, TreeGrows
<1>4. /\ Left(e, n) = l /\ Right(e, n) = r /\ Status(e, l) = "allocated"
      /\ Status(e, n) = "allocated" /\ Order(e, n) = Order(h, n) /\ At(e, n) = At(h, n)
      /\ SameTree(h, e, Nodes \ {n, l, r})
  BY <1>1 DEF Grown
<1>5. n \in Nat /\ Behind(h, n) = n + half + half + half + half - 1 /\ Width(e, n) = Width(h, n)
  <2>1. Behind(h, n) = n + 2 * (half + half) - 1
    BY <1>2 DEF Behind
  <2> HIDE DEF half
  <2> QED
    BY <1>2, <1>4, <2>1, NodeNumbers DEF Width
<1>6. /\ Behind(e, l) = r /\ Behind(e, r) = Behind(e, n) /\ Behind(e, n) = Behind(h, n)
      /\ c \in Nodes /\ Behind(e, c) \in Nat
  <2>1. TreeOK(e, K) /\ n \in K
    BY <1>1
  <2>2. Behind(e, l) = r /\ Behind(e, r) = Behind(e, n)
    <3> HIDE DEF K
    <3> QED
      BY <1>3, <1>4, <2>1, LeafPlaces
  <2>3. Behind(e, n) = Behind(h, n)
    BY <1>4 DEF Behind, Width
  <2>4. c \in Nodes /\ Behind(e, c) \in Nat
    BY <1>2, NodeNumbers
  <2> QED
    BY <2>2, <2>3, <2>4
<1>7. /\ g \in Heaps /\ g.relinked = e.relinked
      /\ TreeOK(g, M) /\ ListsOK(g, M) /\ PagesOK(g, M, B \ Rest(e, c, below))
      /\ K \subseteq M /\ \A k \in M \ K : k # c /\ IsUnder(e, k, c)
      /\ SameTree(e, g, {k \in Nodes : ~IsUnder(e, k, c)})
      /\ Status(g, c) = "allocated" /\ Order(g, c) = Order(e, c) /\ At(g, c) = At(e, c)
      /\ \A k \in M : IsUnder(e, k, c) /\ Inner(g, k) => Status(g, Left(g, k)) = "allocated"
  BY DEF SplitPost
<1>8. M \subseteq Nodes
  BY <1>7 DEF TreeOK, TopsOK
<1> HIDE DEF l, r, half
<1>9. c \in {l, r} /\ l = n + 1 /\ r = n + half + half
  BY <1>2, <1>5 DEF l, r
<1>10. ASSUME NEW k \in Nodes, IsUnder(e, k, c) PROVE k # n /\ IsUnder(h, k, n)
  <2>1. k \in Nat
    BY NodeNumbers
  <2> QED
    BY <1>2, <1>5, <1>6, <1>9, <1>10, <2>1 DEF IsUnder
<1>11. l # n /\ r # n /\ IsUnder(h, l, n) /\ IsUnder(h, r, n) /\ IsUnder(h, n, n)
  BY <1>2, <1>5, <1>9 DEF IsUnder
<1>12. \A k \in M \ L : k # n /\ IsUnder(h, k, n)
  BY <1>7, <1>8, <1>10, <1>11
<1>13. SameTree(h, g, {k \in Nodes : ~IsUnder(h, k, n)})
  BY <1>4, <1>7, <1>10, <1>11 DEF SameTree
<1>14. Status(g, n) = "allocated" /\ Order(g, n) = Order(h, n) /\ At(g, n) = At(h, n)
       /\ Left(g, n) = l
  BY <1>2, <1>4, <1>7, <1>10 DEF SameTree
<1>15. Status(g, l) = "allocated"
  <2>1. CASE c = l
    BY <1>7, <2>1
  <2>2. CASE c # l
    <3>1. c = r /\ ~IsUnder(e, l, c)
      BY <1>2, <1>5, <1>9, <2>2 DEF IsUnder
    <3> QED
      BY <1>2, <1>4, <1>7, <3>1 DEF SameTree
  <2> QED
    BY <2>1, <2>2
<1>16. ASSUME NEW k \in M, IsUnder(h, k, n), Inner(g, k)
       PROVE  Status(g, Left(g, k)) = "allocated"
  <2>1. CASE IsUnder(e, k, c)
    BY <1>7, <1>16, <2>1
  <2>2. CASE k = n
    BY <1>14, <1>15, <2>2
  <2>3. CASE ~IsUnder(e, k, c) /\ k # n
    <3>1. k \in K /\ Inner(e, k)
      BY <1>7, <1>8, <1>16, <2>3 DEF SameTree, Inner
    <3>2. k \in L
      BY <1>3, <3>1 DEF Whole, l, r
    <3> QED
      BY <1>1, <1>16, <2>3, <3>2 DEF TreeOK, Nested, Whole
  <2> QED
    BY <2>1, <2>2, <2>3
<1>17. L \subseteq M /\ g.relinked = h.relinked /\ PagesOK(g, M, A \ Rest(h, n, size))
  BY <1>7
<1> QED
  BY <1>7, <1>12, <1>13, <1>14, <1>16, <1>17 DEF SplitPost

\* A node without leaves.
Bare(h, n) == [h EXCEPT !.node[n].left = Null, !.node[n].right = Null]

\* The arms of the loop.
LEMMA SplitArms ==
    ASSUME NEW h \in Heaps, NEW n \in Nodes, NEW size \in 1 .. Width(h, n)
    PROVE  LET o     == Order(h, n)
               half  == Type[o - 1]
               right == n + Width(h, n)
               g     == Split[o][<<h, n, size>>]
           IN  /\ size = Width(h, n) => g = Bare(h, n)
               /\ o > 0 /\ size < Width(h, n) /\ size > half =>
                     g = Split[o - 1][<<Cut(h, n, "allocated"), right, size - half>>]
               /\ o > 0 /\ size = half => g = Cut(h, n, "unallocated")
               /\ o > 0 /\ size < half => g = Split[o - 1][<<Cut(h, n, "unallocated"), n + 1, size>>]
<1> DEFINE o     == Order(h, n)
           half  == Type[o - 1]
           right == n + Width(h, n)
           below == IF o = 0 THEN <<>> ELSE Split[o - 1]
           whole == Bare(h, n)
           freed == PushFirst(WithLeaves(h, n, "unallocated"), right)
           g     == Split[o][<<h, n, size>>]
<1>1. o \in Orders /\ Width(h, n) \in Nat \ {0} /\ size \in Nat /\ o \in Nat
      /\ (o > 0 => half \in Nat \ {0} /\ Width(h, n) = 2 * half)
  BY NodeNumbers
<1>2. g = SplitTurn(below, h, n, size)
  <2> HIDE DEF o
  <2> QED
    BY <1>1, SplitUnfolds
<1>3. /\ Width(h, n) = Type[h.node[n].order] /\ right = LeafRight(n, h.node[n].order)
      /\ half = Type[h.node[n].order - 1] /\ LeafLeft(n) = n + 1
  BY DEF Width, Order, LeafRight, LeafLeft
<1> HIDE DEF below, half, o, g, right
<1>4. g = IF size = Width(h, n) THEN whole
          ELSE IF size > half   THEN below[<<WithLeaves(h, n, "allocated"), right, size - half>>]
          ELSE IF size = half   THEN freed
          ELSE below[<<freed, n + 1, size>>]
  BY <1>2, <1>3 DEF SplitTurn, Bare
<1> HIDE DEF whole, freed
<1>5. size = Width(h, n) => g = whole
  BY <1>4
<1>6. ASSUME o > 0
      PROVE  /\ below = Split[o - 1] /\ freed = Cut(h, n, "unallocated")
             /\ WithLeaves(h, n, "allocated") = Cut(h, n, "allocated")
  BY <1>1, <1>6 DEF below, freed, Cut, right
<1>7. o > 0 /\ size < Width(h, n) /\ size > half =>
         g = Split[o - 1][<<Cut(h, n, "allocated"), right, size - half>>]
  BY <1>1, <1>4, <1>6
<1>8. o > 0 /\ size = half => g = Cut(h, n, "unallocated")
  BY <1>1, <1>4, <1>6
<1>9. o > 0 /\ size < half => g = Split[o - 1][<<Cut(h, n, "unallocated"), n + 1, size>>]
  BY <1>1, <1>4, <1>6
<1> QED
  BY <1>5, <1>7, <1>8, <1>9 DEF half, o, g, right, whole

SplitWorks(o) ==
    \A h \in Heaps, L \in SUBSET Nodes, A \in SUBSET Pages, n \in Nodes, size \in Nat :
        SplitPre(h, L, A, n, size) /\ Order(h, n) = o =>
            \E M : SplitPost(h, L, A, n, size, Split[o][<<h, n, size>>], M)

\* A node of which all pages are asked for stays as it is.
LEMMA SplitWhole ==
    ASSUME NEW h \in Heaps, NEW L \in SUBSET Nodes, NEW A \in SUBSET Pages, NEW n \in Nodes,
           SplitPre(h, L, A, n, Width(h, n))
    PROVE  SplitPost(h, L, A, n, Width(h, n), Split[Order(h, n)][<<h, n, Width(h, n)>>], L)
<1> DEFINE g == Split[Order(h, n)][<<h, n, Width(h, n)>>]
<1>1. Width(h, n) \in 1 .. Width(h, n) /\ At(h, n) \in Nat /\ n \in Nat
  BY NodeNumbers
<1>2. g = [h EXCEPT !.node[n].left = Null, !.node[n].right = Null]
  <2>1. g = Bare(h, n)
    BY <1>1, SplitArms
  <2> QED
    BY <2>1 DEF Bare
<1>3. /\ TreeOK(h, L) /\ ListsOK(h, L) /\ PagesOK(h, L, A)
      /\ n \in L /\ Whole(h, n) /\ Status(h, n) = "allocated"
  BY DEF SplitPre
<1>4. h.node[n].left = Null /\ h.node[n].right = Null
  BY <1>3 DEF TreeOK, NodeOK, Left, Right
<1>5. g = h
  <2> DEFINE rec == [h.node[n] EXCEPT !.left = Null]
  <2>1. h.node[n] \in NodeRecords
    BY DEF Heaps
  <2>2. rec = h.node[n]
    BY <1>4, <2>1 DEF NodeRecords
  <2>3. [h EXCEPT !.node[n] = h.node[n]] = h
    BY DEF Heaps
  <2>4. [h.node[n] EXCEPT !.right = Null] = h.node[n]
    BY <1>4, <2>1 DEF NodeRecords
  <2>5. [h EXCEPT !.node[n].left = Null] = h /\ [h EXCEPT !.node[n].right = Null] = h
    BY <2>2, <2>3, <2>4
  <2>6. g = [[h EXCEPT !.node[n].left = Null] EXCEPT !.node[n].right = Null]
    BY <1>2
  <2> HIDE DEF g
  <2> QED
    BY <2>5, <2>6
<1> HIDE DEF g
<1>6. Rest(h, n, Width(h, n)) = {}
  BY <1>1 DEF Rest, PageBehind
<1>7. A \ Rest(h, n, Width(h, n)) = A
  BY <1>6
<1>8. \A k \in L : IsUnder(h, k, n) /\ Inner(h, k) => FALSE
  BY <1>3 DEF TreeOK, Nested, Whole
<1>9. SameTree(h, h, {k \in Nodes : ~IsUnder(h, k, n)})
  BY DEF SameTree
<1> QED
  BY <1>3, <1>5, <1>7, <1>8, <1>9 DEF SplitPost, g

\* The first half is asked for.
LEMMA SplitHalf ==
    ASSUME NEW h \in Heaps, NEW L \in SUBSET Nodes, NEW A \in SUBSET Pages, NEW n \in Nodes, NEW size \in Nat,
           SplitPre(h, L, A, n, size), Order(h, n) > 0, size = Type[Order(h, n) - 1]
    PROVE  SplitPost(h, L, A, n, size, Cut(h, n, "unallocated"), L \cup {n + 1, n + Width(h, n)})
<1> DEFINE l == n + 1
           r == n + Width(h, n)
           M == L \cup {l, r}
           B == A \ Rest(h, n, size)
           e == Cut(h, n, "unallocated")
<1>1. /\ TreeOK(h, L) /\ ListsOK(h, L) /\ PagesOK(h, L, A)
      /\ n \in L /\ Whole(h, n) /\ Status(h, n) = "allocated"
  BY DEF SplitPre
<1>2. /\ l \in Nodes \ L /\ r \in Nodes \ L
      /\ size \in Nat \ {0} /\ Width(h, n) = size + size /\ At(h, n) \in Nat
  BY <1>1, LeafRoom
<1>3. \A p \in Pages : p \in B <=>
               p \in A /\ ~("unallocated" = "unallocated" /\ At(h, n) + Type[Order(h, n) - 1] <= p
                                                          /\ p < PageBehind(h, n))
  <2>1. PageBehind(h, n) \in Nat
    BY NodeNumbers
  <2> QED
    BY <1>2, <2>1, Numbers DEF Rest
<1>4. /\ e \in Heaps /\ e.relinked = h.relinked /\ Grown(h, e, n, "unallocated")
      /\ TreeOK(e, M) /\ ListsOK(e, M) /\ PagesOK(e, M, B)
  <2> DEFINE s == "unallocated"
  <2>1. s \in {"allocated", "unallocated"}
    OBVIOUS
  <2>2. Halved(h, n, s, A, B)
    BY <1>3 DEF Halved
  <2> HIDE DEF B
  <2> QED
    BY <1>1, <2>1, <2>2, CutDoes
<1>5. /\ Inner(e, n) /\ Whole(e, l) /\ Whole(e, r)
      /\ \A k \in L \ {n} : Inner(e, k) <=> Inner(h, k)
  BY <1>1, <1>4, TreeGrows
<1>6. /\ Left(e, n) = l /\ Status(e, l) = "allocated"
      /\ Status(e, n) = "allocated" /\ Order(e, n) = Order(h, n) /\ At(e, n) = At(h, n)
      /\ SameTree(h, e, Nodes \ {n, l, r})
  BY <1>1, <1>4 DEF Grown
<1>7. l # n /\ r # n /\ IsUnder(h, l, n) /\ IsUnder(h, r, n) /\ IsUnder(h, n, n)
  <2>1. n \in Nat /\ Behind(h, n) = n + 2 * (size + size) - 1
    BY <1>2, NodeNumbers DEF Behind
  <2> QED
    BY <1>2, <2>1 DEF IsUnder
<1>8. SameTree(h, e, {k \in Nodes : ~IsUnder(h, k, n)})
  BY <1>6, <1>7 DEF SameTree
<1>9. ASSUME NEW k \in M, IsUnder(h, k, n), Inner(e, k)
      PROVE  Status(e, Left(e, k)) = "allocated"
  <2>1. k = n \/ k \in L \ {n}
    BY <1>5, <1>9 DEF Whole
  <2>2. k \notin L \ {n}
    BY <1>1, <1>5, <1>9 DEF TreeOK, Nested, Whole
  <2> QED
    BY <1>6, <2>1, <2>2
<1>10. L \subseteq M /\ \A k \in M \ L : k # n /\ IsUnder(h, k, n)
  BY <1>7
<1> HIDE DEF e, M
<1> QED
  BY <1>4, <1>6, <1>8, <1>9, <1>10 DEF SplitPost, e, M

LEMMA SplitStep ==
    ASSUME NEW o \in Orders, o > 0 => SplitWorks(o - 1)
    PROVE  SplitWorks(o)
<1> SUFFICES ASSUME NEW h \in Heaps, NEW L \in SUBSET Nodes, NEW A \in SUBSET Pages, NEW n \in Nodes,
                    NEW size \in Nat, SplitPre(h, L, A, n, size), Order(h, n) = o
             PROVE  \E M : SplitPost(h, L, A, n, size, Split[o][<<h, n, size>>], M)
  BY DEF SplitWorks
<1> DEFINE l    == n + 1
           r    == n + Width(h, n)
           half == Type[o - 1]
           K    == L \cup {l, r}
           g    == Split[o][<<h, n, size>>]
<1>1. /\ TreeOK(h, L) /\ ListsOK(h, L) /\ PagesOK(h, L, A)
      /\ n \in L /\ Whole(h, n) /\ Status(h, n) = "allocated"
      /\ size \in 1 .. Width(h, n) /\ n \in Nat /\ o \in Nat
  BY NodeNumbers DEF SplitPre
<1>2. CASE size = Width(h, n)
  <2>1. SplitPost(h, L, A, n, size, g, L)
    BY <1>2, SplitWhole
  <2> QED
    BY <2>1
<1>3. ASSUME o > 0
      PROVE  /\ l \in Nodes \ L /\ r \in Nodes \ L
             /\ half \in Nat \ {0} /\ Width(h, n) = half + half
             /\ At(h, n) \in Nat /\ At(h, n) + half \in Pages /\ PageBehind(h, n) = At(h, n) + half + half
  <2>1. /\ l \in Nodes \ L /\ r \in Nodes \ L
        /\ half \in Nat \ {0} /\ Width(h, n) = half + half
        /\ At(h, n) \in Nat /\ At(h, n) + half \in Pages
    BY <1>1, <1>3, LeafRoom
  <2>2. PageBehind(h, n) = At(h, n) + (half + half)
    BY <2>1 DEF PageBehind
  <2> HIDE DEF half
  <2> QED
    BY <2>1, <2>2
<1>4. ASSUME o > 0, NEW s \in {"allocated", "unallocated"}, NEW B \in SUBSET Pages,
             Halved(h, n, s, A, B)
      PROVE  LET e == Cut(h, n, s) IN
             /\ e \in Heaps /\ e.relinked = h.relinked /\ Grown(h, e, n, s)
             /\ TreeOK(e, K) /\ ListsOK(e, K) /\ PagesOK(e, K, B)
             /\ Whole(e, l) /\ Whole(e, r) /\ Status(e, l) = "allocated" /\ Status(e, r) = s
             /\ Order(e, l) = o - 1 /\ Order(e, r) = o - 1
             /\ Width(e, l) = half /\ Width(e, r) = half
             /\ At(e, l) = At(h, n) /\ At(e, r) = At(h, n) + half
  <2> DEFINE e == Cut(h, n, s)
  <2>1. /\ e \in Heaps /\ e.relinked = h.relinked /\ Grown(h, e, n, s)
        /\ TreeOK(e, K) /\ ListsOK(e, K) /\ PagesOK(e, K, B)
    <3>1. Order(h, n) > 0
      BY <1>4
    <3> QED
      BY <1>1, <1>4, <3>1, CutDoes
  <2> HIDE DEF e
  <2>2. Whole(e, l) /\ Whole(e, r)
    BY <1>1, <1>4, <2>1, TreeGrows
  <2>3. /\ Status(e, l) = "allocated" /\ Status(e, r) = s
        /\ Order(e, l) = o - 1 /\ Order(e, r) = o - 1
        /\ At(e, l) = At(h, n) /\ At(e, r) = At(h, n) + half
    BY <2>1 DEF Grown
  <2>4. Width(e, l) = half /\ Width(e, r) = half
    BY <2>3 DEF Width
  <2> QED
    BY <2>1, <2>2, <2>3, <2>4 DEF e
<1>5. CASE o > 0 /\ size < Width(h, n) /\ size > half
  <2> DEFINE s == "allocated"
             e == Cut(h, n, s)
  <2>1. s \in {"allocated", "unallocated"} /\ Halved(h, n, s, A, A)
    BY DEF Halved
  <2>2. /\ e \in Heaps /\ e.relinked = h.relinked /\ Grown(h, e, n, s)
        /\ TreeOK(e, K) /\ ListsOK(e, K) /\ PagesOK(e, K, A)
        /\ Whole(e, r) /\ Status(e, r) = "allocated"
        /\ Order(e, r) = o - 1 /\ Width(e, r) = half /\ At(e, r) = At(h, n) + half
    BY <1>4, <1>5, <2>1
  <2>3. g = Split[o - 1][<<e, r, size - half>>]
    BY <1>1, <1>5, SplitArms
  <2> HIDE DEF e, half, g, r
  <2>4. size - half \in 1 .. Width(e, r) /\ size - half \in Nat
    BY <1>1, <1>3, <1>5, <2>2
  <2>5. SplitPre(e, K, A, r, size - half)
    BY <2>2, <2>4 DEF SplitPre
  <2>6. K \in SUBSET Nodes /\ r \in Nodes
    BY <1>3, <1>5
  <2> HIDE DEF K
  <2>7. PICK M : SplitPost(e, K, A, r, size - half, g, M)
    BY <1>5, <2>2, <2>3, <2>4, <2>5, <2>6 DEF SplitWorks
  <2>8. Rest(e, r, size - half) = Rest(h, n, size)
    <3>1. PageBehind(e, r) = PageBehind(h, n)
      BY <1>3, <1>5, <2>2 DEF PageBehind
    <3>2. At(e, r) + (size - half) = At(h, n) + size
      BY <1>1, <1>3, <1>5, <2>2
    <3> QED
      BY <3>1, <3>2 DEF Rest
  <2>9. SplitPost(h, L, A, n, size, g, M)
    <3>1. r \in {n + 1, n + Width(h, n)} /\ K = L \cup {n + 1, n + Width(h, n)}
          /\ s \in {"allocated", "unallocated"}
      BY DEF r, K
    <3>2. A \ Rest(e, r, size - half) = A \ Rest(h, n, size)
      BY <2>8
    <3>3. Order(h, n) > 0
      BY <1>5
    <3> HIDE DEF s
    <3> QED
      BY <2>2, <2>4, <2>7, <3>1, <3>2, <3>3, SplitBelow
  <2> QED
    BY <2>9 DEF g
<1>6. CASE o > 0 /\ size = half
  <2>1. g = Cut(h, n, "unallocated")
    BY <1>1, <1>6, SplitArms
  <2>2. SplitPost(h, L, A, n, size, Cut(h, n, "unallocated"), K)
    BY <1>6, SplitHalf
  <2> QED
    BY <2>1, <2>2
<1>7. CASE o > 0 /\ size < half
  <2> DEFINE s == "unallocated"
             B == A \ Rest(h, n, half)
             e == Cut(h, n, s)
  <2>1. s \in {"allocated", "unallocated"} /\ B \in SUBSET Pages /\ Halved(h, n, s, A, B)
    <3> HIDE DEF half
    <3>1. half \in Nat /\ At(h, n) \in Nat /\ PageBehind(h, n) \in Nat /\ Pages \subseteq Nat
      BY <1>3, <1>7, Numbers, NodeNumbers
    <3>2. \A p \in Pages : p \in Rest(h, n, half) <=> At(h, n) + half <= p /\ p < PageBehind(h, n)
      BY <3>1 DEF Rest
    <3> HIDE DEF s
    <3>3. s = "unallocated" /\ half = Type[Order(h, n) - 1]
      BY DEF s, half
    <3> QED
      BY <3>2, <3>3 DEF Halved
  <2> HIDE DEF B
  <2>2. /\ e \in Heaps /\ e.relinked = h.relinked /\ Grown(h, e, n, s)
        /\ TreeOK(e, K) /\ ListsOK(e, K) /\ PagesOK(e, K, B)
        /\ Whole(e, l) /\ Status(e, l) = "allocated"
        /\ Order(e, l) = o - 1 /\ Width(e, l) = half /\ At(e, l) = At(h, n)
    BY <1>4, <1>7, <2>1
  <2>3. g = Split[o - 1][<<e, l, size>>]
    BY <1>1, <1>7, SplitArms
  <2> HIDE DEF e, half, g, l
  <2>4. size \in 1 .. Width(e, l)
    BY <1>1, <1>3, <1>7, <2>2
  <2>5. SplitPre(e, K, B, l, size)
    BY <2>2, <2>4 DEF SplitPre
  <2>6. K \in SUBSET Nodes /\ l \in Nodes
    BY <1>3, <1>7
  <2> HIDE DEF K
  <2>7. PICK M : SplitPost(e, K, B, l, size, g, M)
    BY <1>7, <2>1, <2>2, <2>3, <2>5, <2>6 DEF SplitWorks
  <2>8. B \ Rest(e, l, size) = A \ Rest(h, n, size)
    <3>1. PageBehind(e, l) = At(h, n) + half
      BY <1>3, <1>7, <2>2 DEF PageBehind
    <3>2. At(h, n) \in Nat /\ half \in Nat /\ PageBehind(h, n) = At(h, n) + half + half /\ size \in Nat
          /\ size < half
      BY <1>3, <1>7
    <3>3. \A p : p \in Rest(e, l, size) <=> p \in At(h, n) + size .. At(h, n) + half - 1
      BY <2>2, <3>1, <3>2 DEF Rest
    <3>4. \A p : p \in Rest(h, n, half) <=> p \in At(h, n) + half .. PageBehind(h, n) - 1
      BY DEF Rest
    <3>5. \A p : p \in Rest(h, n, size) <=> p \in At(h, n) + size .. PageBehind(h, n) - 1
      BY DEF Rest
    <3>6. \A p : p \in Rest(h, n, size) <=> p \in Rest(e, l, size) \/ p \in Rest(h, n, half)
      BY <3>2, <3>3, <3>4, <3>5
    <3> QED
      BY <3>6 DEF B
  <2>9. SplitPost(h, L, A, n, size, g, M)
    <3>1. l \in {n + 1, n + Width(h, n)} /\ K = L \cup {n + 1, n + Width(h, n)}
          /\ s \in {"allocated", "unallocated"}
      BY DEF l, K
    <3>3. Order(h, n) > 0
      BY <1>7
    <3> HIDE DEF s
    <3> QED
      BY <2>1, <2>2, <2>4, <2>7, <2>8, <3>1, <3>3, SplitBelow
  <2> QED
    BY <2>9 DEF g
<1>8. o = 0 => Width(h, n) = 1
  BY TypeOfOrder DEF Width
<1>9. o > 0 => size = Width(h, n) \/ (size < Width(h, n) /\ size > half) \/ size = half \/ size < half
  BY <1>1, <1>3
<1> QED
  BY <1>1, <1>2, <1>5, <1>6, <1>7, <1>8, <1>9

\* The loop of kalloc() does what it is for.
LEMMA SplitDoes ==
    ASSUME NEW h \in Heaps, NEW L \in SUBSET Nodes, NEW A \in SUBSET Pages, NEW n \in Nodes, NEW size \in Nat,
           SplitPre(h, L, A, n, size)
    PROVE  \E M : SplitPost(h, L, A, n, size, Split[Order(h, n)][<<h, n, size>>], M)
<1> DEFINE Good == {o \in Orders : SplitWorks(o)}
<1>1. 0 \in Orders /\ \A o \in 1 .. MaxOrder : o \in Orders
  BY BuddyAssumption DEF Orders
<1>2. 0 \in Good
  BY <1>1, SplitStep
<1>3. ASSUME NEW o \in 1 .. MaxOrder, o - 1 \in Good PROVE o \in Good
  BY <1>1, <1>3, SplitStep
<1>4. \A o \in 0 .. MaxOrder : o \in Good
  <2> HIDE DEF Good
  <2> QED
    BY <1>2, <1>3, UpTo, BuddyAssumption
<1>5. SplitWorks(Order(h, n))
  BY <1>4, FieldTypes DEF Orders
<1> QED
  BY <1>5 DEF SplitWorks

-----------------------------------------------------------------------------
(* kfree() merges below a node.                                              *)

\* What merges below n make of the tree L: some of the nodes go, with pages
\* that nobody holds, and B are the pages held in the tree M that is left.
\* Unless a node was relinked, the lists are as they should be.
Merged(h, L, n, B, g, M) ==
    /\ g \in Heaps /\ TreeOK(g, M) /\ PagesOK(g, M, B)
    /\ M \subseteq L
    /\ \A k \in L \ M : /\ k # n /\ IsUnder(h, k, n)
                        /\ \A p \in Pages : HasPage(h, k, p) => p \notin B
    /\ \A k \in Nodes : Order(g, k) = Order(h, k) /\ At(g, k) = At(h, k)
    /\ SameTree(h, g, {k \in Nodes : ~IsUnder(h, k, n)})
    /\ \A k \in M : Whole(g, k) /\ Status(g, k) = "allocated"
                    => Whole(h, k) /\ Status(h, k) = "allocated"
    /\ ~g.relinked => /\ ~h.relinked /\ ListsOK(g, M)
                      /\ \A k \in Low : Linked(g, k) => Linked(h, k)

\* The places of the nodes stay the same.
LEMMA SamePlaces ==
    ASSUME NEW h, NEW g, \A k \in Nodes : Order(g, k) = Order(h, k) /\ At(g, k) = At(h, k)
    PROVE  \A k \in Nodes : /\ Width(g, k) = Width(h, k)
                            /\ Behind(g, k) = Behind(h, k) /\ PageBehind(g, k) = PageBehind(h, k)
                            /\ \A p : HasPage(g, k, p) <=> HasPage(h, k, p)
                            /\ \A m : IsUnder(g, m, k) <=> IsUnder(h, m, k)
  BY DEF Width, Behind, PageBehind, HasPage, IsUnder

\* What is merged below a leaf of n is merged below n.
LEMMA MergedLift ==
    ASSUME NEW h \in Heaps, NEW L, TreeOK(h, L), NEW n \in L, Inner(h, n),
           NEW c \in {Left(h, n), Right(h, n)}, NEW B, NEW g, NEW M, Merged(h, L, c, B, g, M)
    PROVE  Merged(h, L, n, B, g, M)
<1>1. /\ n \in Nodes /\ c \in Nodes /\ n < c /\ Behind(h, c) <= Behind(h, n) /\ n \in Nat /\ c \in Nat
      /\ Behind(h, c) \in Nat /\ Behind(h, n) \in Nat /\ L \subseteq Nodes
  <2> DEFINE l    == Left(h, n)
             r    == Right(h, n)
             half == Type[Order(h, n) - 1]
  <2>1. /\ n \in Nodes /\ l \in Nodes /\ r \in Nodes /\ half \in Nat \ {0}
        /\ l = n + 1 /\ r = n + half + half /\ Behind(h, l) = r /\ Behind(h, r) = Behind(h, n)
        /\ Width(h, r) = half
    BY LeafPlaces
  <2>2. /\ n \in Nat /\ l \in Nat /\ r \in Nat /\ Behind(h, n) \in Nat
        /\ Behind(h, r) = r + 2 * half - 1
    BY <2>1, NodeNumbers DEF Behind
  <2>3. L \subseteq Nodes
    BY DEF TreeOK, TopsOK
  <2> HIDE DEF half
  <2> QED
    BY <2>1, <2>2, <2>3
<1>2. \A k \in Nodes : IsUnder(h, k, c) => IsUnder(h, k, n) /\ k # n
  <2>1. \A k \in Nodes : k \in Nat
    BY Numbers
  <2> QED
    BY <1>1, <2>1 DEF IsUnder
<1> QED
  BY <1>1, <1>2 DEF Merged, SameTree

LEMMA MergedThrough ==
    ASSUME NEW h \in Heaps, NEW L \in SUBSET Nodes, NEW n \in Nodes, NEW A, NEW B, B \subseteq A,
           NEW f, NEW K, Merged(h, L, n, A, f, K), NEW g, NEW M, Merged(f, K, n, B, g, M)
    PROVE  Merged(h, L, n, B, g, M)
<1>1. \A k \in Nodes : /\ \A p : HasPage(f, k, p) <=> HasPage(h, k, p)
                       /\ \A m : IsUnder(f, m, k) <=> IsUnder(h, m, k)
  <2>1. \A k \in Nodes : Order(f, k) = Order(h, k) /\ At(f, k) = At(h, k)
    BY DEF Merged
  <2> QED
    BY <2>1, SamePlaces
<1>2. \A k \in L \ M : /\ k # n /\ IsUnder(h, k, n)
                       /\ \A p \in Pages : HasPage(h, k, p) => p \notin B
  <2>1. TAKE k \in L \ M
  <2>2. CASE k \in K
    BY <1>1, <2>2 DEF Merged
  <2>3. CASE k \notin K
    BY <2>3 DEF Merged
  <2> QED
    BY <2>2, <2>3
<1>3. SameTree(h, g, {k \in Nodes : ~IsUnder(h, k, n)})
  BY <1>1 DEF Merged, SameTree
<1>4. M \subseteq K /\ K \subseteq L
  BY DEF Merged
<1>5. \A k \in Nodes : Order(g, k) = Order(h, k) /\ At(g, k) = At(h, k)
  BY DEF Merged
<1>6. \A k \in M : Whole(g, k) /\ Status(g, k) = "allocated"
                    => Whole(h, k) /\ Status(h, k) = "allocated"
  BY <1>4 DEF Merged
<1>7. ~g.relinked => /\ ~h.relinked /\ ListsOK(g, M)
                     /\ \A k \in Low : Linked(g, k) => Linked(h, k)
  BY DEF Merged
<1> QED
  BY <1>2, <1>3, <1>4, <1>5, <1>6, <1>7 DEF Merged

\* Nothing is merged.
LEMMA MergedNot ==
    ASSUME NEW h \in Heaps, NEW L, NEW n, NEW A, TreeOK(h, L), PagesOK(h, L, A), ~h.relinked => ListsOK(h, L)
    PROVE  Merged(h, L, n, A, h, L)
  BY DEF Merged, SameTree

\* The leaves of n have become free, and n becomes a piece.
LEMMA MergedJoin ==
    ASSUME NEW h \in Heaps, NEW L \in SUBSET Nodes, NEW n \in L, NEW B,
           NEW f, NEW K, Merged(h, L, n, B, f, K), Inner(f, n), n \in K,
           Status(f, Left(f, n)) = "unallocated", Status(f, Right(f, n)) = "unallocated",
           NEW s \in {"unallocated", "nonode"}
    PROVE  LET g == Joined(f, n, s)
               M == K \ {Left(f, n), Right(f, n)}
           IN  /\ Merged(h, L, n, B, g, M)
               /\ Shrunk(f, g, n, s) /\ Whole(f, Left(f, n)) /\ Whole(f, Right(f, n))
<1> DEFINE g == Joined(f, n, s)
           l == Left(f, n)
           r == Right(f, n)
           M == K \ {l, r}
<1>1. f \in Heaps /\ TreeOK(f, K) /\ PagesOK(f, K, B) /\ K \subseteq L
  BY DEF Merged
<1>2. /\ l \in K /\ r \in K /\ l \in Nodes \ {n} /\ r \in Nodes \ {n} /\ l # r /\ n \in Nodes
      /\ Status(f, n) = "allocated"
  BY <1>1, LeafPlaces
<1>3. Whole(f, l) /\ Whole(f, r)
  <2>1. \A c \in K : Inner(f, c) => Status(f, c) = "allocated"
    BY <1>1 DEF TreeOK, NodeOK, LeavesFit
  <2> QED
    BY <1>2, <2>1 DEF Whole
<1>4. /\ g \in Heaps /\ Shrunk(f, g, n, s)
      /\ SameLists(Unlink(Unlink(f, l), r), g) /\ g.relinked = f.relinked
  <2>1. LET u == Unlink(Unlink(f, l), r)
        IN  g \in Heaps /\ SameLists(u, g) /\ Shrunk(f, g, n, s) /\ u.relinked = f.relinked
    BY <1>1, <1>2, JoinedDoes
  <2> QED
    BY <2>1 DEF SameLists
<1> HIDE DEF g
<1>5. TreeOK(g, M) /\ Whole(g, n) /\ \A k \in M \ {n} : Inner(g, k) <=> Inner(f, k)
  BY <1>1, <1>2, <1>3, <1>4, TreeShrinks
<1>6. PagesOK(g, M, B)
  BY <1>1, <1>3, <1>4, PagesShrink
<1>7. \A k \in Nodes : Order(g, k) = Order(f, k) /\ At(g, k) = At(f, k)
  BY <1>4 DEF Shrunk, SameTree
<1>8. \A k \in Nodes : Order(g, k) = Order(h, k) /\ At(g, k) = At(h, k)
  BY <1>7 DEF Merged
<1>9. \A k \in Nodes : /\ \A p : HasPage(f, k, p) <=> HasPage(h, k, p)
                       /\ \A m : IsUnder(f, m, k) <=> IsUnder(h, m, k)
  <2>1. \A k \in Nodes : Order(f, k) = Order(h, k) /\ At(f, k) = At(h, k)
    BY DEF Merged
  <2> QED
    BY <2>1, SamePlaces
<1>10. IsUnder(f, l, n) /\ IsUnder(f, r, n) /\ IsUnder(f, n, n)
  <2> DEFINE half == Type[Order(f, n) - 1]
  <2>1. /\ half \in Nat \ {0} /\ Width(f, r) = half
        /\ l = n + 1 /\ r = n + half + half /\ Behind(f, r) = Behind(f, n)
    BY <1>1, LeafPlaces
  <2>2. n \in Nat /\ Behind(f, r) = r + 2 * half - 1
    BY <1>2, <2>1, NodeNumbers DEF Behind
  <2> HIDE DEF half, l, r
  <2> QED
    BY <2>1, <2>2 DEF IsUnder
<1>11. \A c \in {l, r}, p \in Pages : HasPage(f, c, p) => p \notin B
  BY <1>1, <1>2, <1>3 DEF PagesOK
<1>12. \A k \in L \ M : /\ k # n /\ IsUnder(h, k, n)
                        /\ \A p \in Pages : HasPage(h, k, p) => p \notin B
  <2>1. TAKE k \in L \ M
  <2>2. CASE k \in {l, r}
    BY <1>2, <1>9, <1>10, <1>11, <2>2
  <2>3. CASE k \notin {l, r}
    BY <2>1, <2>3 DEF Merged
  <2> QED
    BY <2>2, <2>3
<1>13. SameTree(h, g, {k \in Nodes : ~IsUnder(h, k, n)})
  BY <1>4, <1>9, <1>10 DEF Merged, SameTree, Shrunk
<1>14. ASSUME NEW k \in M, Whole(g, k), Status(g, k) = "allocated"
       PROVE  Whole(h, k) /\ Status(h, k) = "allocated"
  <2>1. k # n /\ k \in Nodes
    BY <1>1, <1>4, <1>14 DEF Shrunk
  <2>2. Whole(f, k) /\ Status(f, k) = "allocated"
    BY <1>4, <1>5, <1>14, <2>1 DEF Shrunk, SameTree, Whole
  <2> QED
    BY <2>2 DEF Merged
<1>15. ASSUME ~g.relinked
       PROVE  ~h.relinked /\ ListsOK(g, M) /\ \A k \in Low : Linked(g, k) => Linked(h, k)
  <2>1. /\ ~h.relinked /\ ListsOK(f, K) /\ \A k \in Low : Linked(f, k) => Linked(h, k)
    BY <1>4, <1>15 DEF Merged
  <2>2. ListsOK(g, M) /\ \A k \in Low : Linked(g, k) => Linked(f, k)
    BY <1>1, <1>4, <2>1, ListsShrink
  <2> QED
    BY <2>1, <2>2
<1>16. M \subseteq L
  BY <1>1
<1> HIDE DEF M, l, r
<1>17. Merged(h, L, n, B, g, M)
  BY <1>4, <1>5, <1>6, <1>8, <1>12, <1>13, <1>14, <1>15, <1>16 DEF Merged
<1> QED
  BY <1>3, <1>4, <1>17 DEF g, M, l, r

\* A relink leaves what is known of the tree.
LEMMA MergedRelink ==
    ASSUME NEW h \in Heaps, NEW L \in SUBSET Nodes, NEW n \in Nodes, NEW B,
           NEW f, NEW M, Merged(h, L, n, B, f, M), NEW k \in Nodes
    PROVE  Merged(h, L, n, B, Relink(f, k), M)
<1> DEFINE g == Relink(f, k)
<1>1. f \in Heaps /\ TreeOK(f, M) /\ PagesOK(f, M, B) /\ M \subseteq L
  BY DEF Merged
<1>2. g \in Heaps /\ SameTree(f, g, Nodes) /\ (g = f \/ g.relinked = TRUE)
  BY <1>1, RelinkDoes
<1> HIDE DEF g
<1>3. TreeOK(g, M) /\ PagesOK(g, M, B)
  BY <1>1, <1>2, TreeSame, PagesSame
<1>4. /\ \A j \in Nodes : Order(g, j) = Order(h, j) /\ At(g, j) = At(h, j)
      /\ SameTree(h, g, {j \in Nodes : ~IsUnder(h, j, n)})
  BY <1>2 DEF Merged, SameTree
<1>5. \A j \in M : Whole(g, j) /\ Status(g, j) = "allocated"
                    => Whole(h, j) /\ Status(h, j) = "allocated"
  <2>1. \A j \in M : Whole(g, j) /\ Status(g, j) = "allocated" => Whole(f, j) /\ Status(f, j) = "allocated"
    BY <1>1, <1>2 DEF SameTree, Whole, Inner
  <2> QED
    BY <2>1 DEF Merged
<1>6. ~g.relinked => /\ ~h.relinked /\ ListsOK(g, M)
                     /\ \A j \in Low : Linked(g, j) => Linked(h, j)
  BY <1>2 DEF Merged
<1>7. \A j \in L \ M : /\ j # n /\ IsUnder(h, j, n)
                       /\ \A p \in Pages : HasPage(h, j, p) => p \notin B
  BY DEF Merged
<1>8. Merged(h, L, n, B, g, M)
  BY <1>1, <1>2, <1>3, <1>4, <1>5, <1>6, <1>7 DEF Merged
<1> QED
  BY <1>8 DEF g

\* merge_bnode(): one leaf after the other, as far as the limit reaches.
Freed(h, n) == [h EXCEPT !.node[n].status = "unallocated"]
LeafMerged(h, n, limit) == MergeBnode[Order(h, n) - 1][<<h, Left(h, n), limit>>]
LeavesMerged(h, n, limit) ==
    LET half == Type[Order(h, n) - 1]
        h1   == LeafMerged(h, n, limit)
    IN  IF limit > half THEN MergeBnode[Order(h, n) - 1][<<h1, Right(h1, n), limit - half>>] ELSE h1
LeavesFree(h, n) ==
    Status(h, Left(h, n)) = "unallocated" /\ Status(h, Right(h, n)) = "unallocated"

LEMMA MergeBnodeArms ==
    ASSUME NEW h \in Heaps, NEW n \in Nodes, NEW limit \in Nat
    PROVE  LET g == MergeBnode[Order(h, n)][<<h, n, limit>>]
               f == LeavesMerged(h, n, limit)
           IN  /\ Whole(h, n) => g = Freed(h, n)
               /\ Inner(h, n) /\ Order(h, n) > 0 =>
                    g = IF LeavesFree(f, n) THEN Joined(f, n, "unallocated")
                        ELSE Relink(Relink(f, Left(f, n)), Right(f, n))
<1> DEFINE o     == Order(h, n)
           below == IF o = 0 THEN <<>> ELSE MergeBnode[o - 1]
           g     == MergeBnode[o][<<h, n, limit>>]
           half  == Type[o - 1]
           h1    == below[<<h, Left(h, n), limit>>]
           h2    == IF limit > half THEN below[<<h1, Right(h1, n), limit - half>>] ELSE h1
<1>1. o \in Orders /\ o \in Nat
  BY NodeNumbers
<1>2. g = MergeBnodeTurn(below, h, n, limit)
  <2> HIDE DEF o
  <2> QED
    BY SMTT(30), <1>1, MergeBnodeUnfolds
<1>3. MergeBnodeTurn(below, h, n, limit) =
          IF Whole(h, n) THEN Freed(h, n)
          ELSE IF LeavesFree(h2, n) THEN Joined(h2, n, "unallocated")
          ELSE Relink(Relink(h2, Left(h2, n)), Right(h2, n))
  <2> HIDE DEF below
  <2>1. h2 = LET hl == below[<<h, h.node[n].left, limit>>]
             IN  IF ReachesRight(limit, Type[h.node[n].order - 1])
                 THEN below[<<hl, hl.node[n].right, limit - Type[h.node[n].order - 1]>>] ELSE hl
    BY DEF ReachesRight, Left, Right, Order
  <2> HIDE DEF h2
  <2>2. /\ BothLeavesFree(h2, n) <=> LeavesFree(h2, n)
        /\ HasLeaves(h, n) <=> Inner(h, n)
    BY Tests DEF LeavesFree
  <2> QED
    BY <2>1, <2>2 DEF MergeBnodeTurn, Whole, Freed, Left, Right
<1>4. ASSUME o > 0 PROVE h2 = LeavesMerged(h, n, limit)
  <2>1. below = MergeBnode[o - 1]
    BY <1>1, <1>4
  <2> HIDE DEF below
  <2> QED
    BY <2>1 DEF LeavesMerged, LeafMerged
<1> HIDE DEF h2, g
<1> QED
  BY <1>2, <1>3, <1>4 DEF Whole, g

\* The pages of n before page c.
Front(h, n, c) == {p \in Pages : HasPage(h, n, p) /\ p < c}

\* No piece below n lies on both sides of page c.
Clean(h, L, n, c) ==
    \A k \in L : IsUnder(h, k, n) /\ Whole(h, k) /\ At(h, k) < c => PageBehind(h, k) <= c

MergePre(h, L, A, n, c) ==
    /\ TreeOK(h, L) /\ PagesOK(h, L, A) /\ (~h.relinked => ListsOK(h, L))
    /\ n \in L /\ Front(h, n, c) \subseteq A /\ Clean(h, L, n, c)

MergeBnodeWorks(o) ==
    \A h \in Heaps, L \in SUBSET Nodes, A \in SUBSET Pages, n \in Nodes, limit \in Nat \ {0} :
        MergePre(h, L, A, n, At(h, n) + limit) /\ Order(h, n) = o =>
            \E M : Merged(h, L, n, A \ Front(h, n, At(h, n) + limit), MergeBnode[o][<<h, n, limit>>], M)

\* A piece is freed.
LEMMA MergeFreed ==
    ASSUME NEW h \in Heaps, NEW L \in SUBSET Nodes, NEW A \in SUBSET Pages, NEW n \in Nodes, NEW limit \in Nat \ {0},
           MergePre(h, L, A, n, At(h, n) + limit), Whole(h, n)
    PROVE  Merged(h, L, n, A \ Front(h, n, At(h, n) + limit), Freed(h, n), L)
<1> DEFINE g == Freed(h, n)
           c == At(h, n) + limit
           B == A \ Front(h, n, c)
<1>1. /\ TreeOK(h, L) /\ PagesOK(h, L, A) /\ (~h.relinked => ListsOK(h, L))
      /\ n \in L /\ Clean(h, L, n, c)
  BY DEF MergePre
<1>2. /\ g \in Heaps /\ SameLists(h, g) /\ StatusSet(h, g, n, "unallocated")
  BY StatusSetDoes DEF Freed
<1> HIDE DEF g
<1>3. TreeOK(g, L)
  <2> DEFINE s == "unallocated"
  <2>1. s \in {"allocated", "unallocated"} /\ StatusSet(h, g, n, s)
    BY <1>2
  <2> HIDE DEF s
  <2> QED
    BY <1>1, <2>1, TreeStatus
<1>4. IsUnder(h, n, n) /\ At(h, n) < c /\ At(h, n) \in Nat /\ c \in Nat /\ PageBehind(h, n) \in Nat
  <2>1. n \in Nat /\ Width(h, n) \in Nat \ {0} /\ At(h, n) \in Nat /\ PageBehind(h, n) \in Nat
    BY NodeNumbers
  <2> QED
    BY <2>1 DEF IsUnder, Behind
<1>5. PageBehind(h, n) <= c
  BY <1>1, <1>4 DEF Clean
<1> HIDE DEF c
<1>6. \A p \in Pages : p \in B <=> IF HasPage(h, n, p) THEN FALSE ELSE p \in A
  BY <1>4, <1>5, Numbers DEF Front, HasPage
<1> HIDE DEF B
<1>7. PagesOK(g, L, B)
  <2> DEFINE s == "unallocated"
  <2>1. s \in {"allocated", "unallocated"} /\ StatusSet(h, g, n, s)
        /\ \A p \in Pages : p \in B <=> IF HasPage(h, n, p) THEN s = "allocated" ELSE p \in A
    BY <1>2, <1>6
  <2> HIDE DEF s
  <2> QED
    BY <1>1, <2>1, PagesStatus
<1>8. ~g.relinked => /\ ~h.relinked /\ ListsOK(g, L)
                     /\ \A k \in Low : Linked(g, k) => Linked(h, k)
  <2>1. SUFFICES ASSUME ~g.relinked
                 PROVE  /\ ~h.relinked /\ ListsOK(g, L)
                        /\ \A k \in Low : Linked(g, k) => Linked(h, k)
    OBVIOUS
  <2>2. ~h.relinked
    BY <1>2, <2>1 DEF SameLists
  <2>3. ListsOK(g, L) /\ \A k \in Low : Linked(g, k) => Linked(h, k)
    BY <1>1, <1>2, <2>2, ListsFreed
  <2> QED
    BY <2>2, <2>3
<1>9. /\ \A k \in Nodes : Order(g, k) = Order(h, k) /\ At(g, k) = At(h, k)
      /\ SameTree(h, g, {k \in Nodes : ~IsUnder(h, k, n)})
  BY <1>2, <1>4 DEF StatusSet, SameTree
<1>10. \A k \in L : Whole(g, k) /\ Status(g, k) = "allocated"
                    => Whole(h, k) /\ Status(h, k) = "allocated"
  BY <1>2 DEF StatusSet, SameTree, Whole, Inner
<1>11. Merged(h, L, n, B, g, L)
  BY <1>2, <1>3, <1>7, <1>8, <1>9, <1>10 DEF Merged
<1> QED
  BY <1>11 DEF g, B, c

\* What lies below one leaf does not lie below the other.
LEMMA LeavesApart ==
    ASSUME NEW h \in Heaps, NEW L, TreeOK(h, L), NEW n \in L, Inner(h, n)
    PROVE  LET l == Left(h, n)
               r == Right(h, n)
           IN  /\ ~IsUnder(h, n, l) /\ ~IsUnder(h, n, r) /\ ~IsUnder(h, r, l) /\ ~IsUnder(h, l, r)
               /\ \A k \in Nodes : IsUnder(h, k, l) => IsUnder(h, k, n) /\ ~IsUnder(h, k, r)
               /\ \A k \in Nodes : IsUnder(h, k, r) => IsUnder(h, k, n)
               /\ \A p \in Pages : /\ HasPage(h, n, p) <=> HasPage(h, l, p) \/ HasPage(h, r, p)
                                   /\ ~(HasPage(h, l, p) /\ HasPage(h, r, p))
                                   /\ HasPage(h, l, p) <=> HasPage(h, n, p) /\ p < At(h, r)
               /\ l \in L /\ r \in L /\ l \in Nodes /\ r \in Nodes /\ l # r /\ n # l /\ n # r
               /\ IsUnder(h, l, n) /\ IsUnder(h, r, n) /\ IsUnder(h, n, n)
<1> DEFINE l    == Left(h, n)
           r    == Right(h, n)
           half == Type[Order(h, n) - 1]
<1>1. /\ n \in Nodes /\ l \in L /\ r \in L /\ l \in Nodes /\ r \in Nodes
      /\ half \in Nat \ {0} /\ Width(h, r) = half
      /\ l = n + 1 /\ r = n + half + half /\ Behind(h, l) = r /\ Behind(h, r) = Behind(h, n)
      /\ At(h, l) = At(h, n) /\ At(h, r) = At(h, n) + half
      /\ PageBehind(h, l) = At(h, r) /\ PageBehind(h, r) = PageBehind(h, n)
      /\ n # l /\ n # r /\ l # r
  BY LeafPlaces
<1>2. n \in Nat /\ At(h, n) \in Nat /\ Behind(h, r) = r + 2 * half - 1 /\ PageBehind(h, r) = At(h, r) + half
  BY <1>1, NodeNumbers DEF Behind, PageBehind
<1>3. Nodes \subseteq Nat /\ Pages \subseteq Nat
  BY Numbers
<1> HIDE DEF l, r, half
<1>4. ~IsUnder(h, n, l) /\ ~IsUnder(h, n, r) /\ ~IsUnder(h, r, l) /\ ~IsUnder(h, l, r)
      /\ IsUnder(h, l, n) /\ IsUnder(h, r, n) /\ IsUnder(h, n, n)
  BY <1>1, <1>2 DEF IsUnder
<1>5. \A k \in Nodes : IsUnder(h, k, l) => IsUnder(h, k, n) /\ ~IsUnder(h, k, r)
  BY <1>1, <1>2, <1>3 DEF IsUnder
<1>6. \A k \in Nodes : IsUnder(h, k, r) => IsUnder(h, k, n)
  BY <1>1, <1>2, <1>3 DEF IsUnder
<1>7. \A p \in Pages : /\ HasPage(h, n, p) <=> HasPage(h, l, p) \/ HasPage(h, r, p)
                       /\ ~(HasPage(h, l, p) /\ HasPage(h, r, p))
                       /\ HasPage(h, l, p) <=> HasPage(h, n, p) /\ p < At(h, r)
  BY <1>1, <1>2, <1>3 DEF HasPage
<1> QED
  BY <1>1, <1>4, <1>5, <1>6, <1>7 DEF l, r

\* What a merge below n leaves to be done below a node k it has not touched.
LEMMA MergedApart ==
    ASSUME NEW h, NEW L, NEW n, NEW B, NEW f, NEW K, Merged(h, L, n, B, f, K), NEW k \in Nodes,
           k \in L, ~IsUnder(h, k, n)
    PROVE  /\ k \in K /\ f \in Heaps /\ TreeOK(f, K) /\ PagesOK(f, K, B)
           /\ (~f.relinked => ListsOK(f, K))
           /\ Status(f, k) = Status(h, k) /\ Order(f, k) = Order(h, k) /\ At(f, k) = At(h, k)
           /\ Left(f, k) = Left(h, k) /\ Right(f, k) = Right(h, k)
           /\ Inner(f, k) <=> Inner(h, k)
  BY DEF Merged, SameTree, Inner

LEMMA MergeBnodeStep ==
    ASSUME NEW o \in Orders, o > 0 => MergeBnodeWorks(o - 1)
    PROVE  MergeBnodeWorks(o)
<1> SUFFICES ASSUME NEW h \in Heaps, NEW L \in SUBSET Nodes, NEW A \in SUBSET Pages, NEW n \in Nodes,
                    NEW limit \in Nat \ {0}, MergePre(h, L, A, n, At(h, n) + limit), Order(h, n) = o
             PROVE  \E M : Merged(h, L, n, A \ Front(h, n, At(h, n) + limit), MergeBnode[o][<<h, n, limit>>], M)
  BY ZenonT(30) DEF MergeBnodeWorks
<1> DEFINE c == At(h, n) + limit
           B == A \ Front(h, n, c)
           g == MergeBnode[o][<<h, n, limit>>]
<1>1. CASE Whole(h, n)
  <2>1. g = Freed(h, n)
    BY <1>1, MergeBnodeArms
  <2>2. Merged(h, L, n, B, Freed(h, n), L)
    BY <1>1, MergeFreed
  <2> QED
    BY <2>1, <2>2
<1>2. CASE Inner(h, n)
  <2> DEFINE l    == Left(h, n)
             r    == Right(h, n)
             half == Type[o - 1]
             f1   == MergeBnode[o - 1][<<h, l, limit>>]
             f2   == LeavesMerged(h, n, limit)
             A1   == A \ Front(h, l, c)
  <2>1. /\ TreeOK(h, L) /\ PagesOK(h, L, A) /\ (~h.relinked => ListsOK(h, L))
        /\ n \in L /\ Front(h, n, c) \subseteq A /\ Clean(h, L, n, c)
    BY DEF MergePre
  <2>2. /\ l \in L /\ r \in L /\ l \in Nodes /\ r \in Nodes
        /\ half \in Nat \ {0} /\ o > 0
        /\ At(h, l) = At(h, n) /\ At(h, r) = At(h, n) + half
        /\ Order(h, l) = o - 1 /\ Order(h, r) = o - 1
        /\ o - 1 \in Orders /\ At(h, n) \in Nat
    BY <1>2, <2>1, LeafPlaces, NodeNumbers
  <2>3. /\ ~IsUnder(h, n, l) /\ ~IsUnder(h, n, r) /\ ~IsUnder(h, r, l) /\ ~IsUnder(h, l, r)
        /\ \A k \in Nodes : IsUnder(h, k, l) => IsUnder(h, k, n) /\ ~IsUnder(h, k, r)
        /\ \A k \in Nodes : IsUnder(h, k, r) => IsUnder(h, k, n)
        /\ \A p \in Pages : /\ HasPage(h, n, p) <=> HasPage(h, l, p) \/ HasPage(h, r, p)
                            /\ ~(HasPage(h, l, p) /\ HasPage(h, r, p))
                            /\ HasPage(h, l, p) <=> HasPage(h, n, p) /\ p < At(h, r)
    BY <1>2, <2>1, LeavesApart
  <2>4. g = IF LeavesFree(f2, n) THEN Joined(f2, n, "unallocated")
            ELSE Relink(Relink(f2, Left(f2, n)), Right(f2, n))
    BY <1>2, <2>2, MergeBnodeArms
  <2>5. /\ ~(limit > half) => f2 = f1
        /\ limit > half => f2 = MergeBnode[o - 1][<<f1, Right(f1, n), limit - half>>]
    BY DEF LeavesMerged, LeafMerged
  <2> HIDE DEF l, r, half, f1, f2, g
  <2>6. MergePre(h, L, A, l, c)
    <3>1. Front(h, l, c) \subseteq A
      BY <2>1, <2>3 DEF Front
    <3>2. Clean(h, L, l, c)
      BY <2>1, <2>3 DEF Clean
    <3> QED
      BY <2>1, <2>2, <3>1, <3>2 DEF MergePre
  <2>7. PICK M1 : Merged(h, L, l, A1, f1, M1)
    <3>1. MergePre(h, L, A, l, At(h, l) + limit) /\ Front(h, l, At(h, l) + limit) = Front(h, l, c)
      BY <2>2, <2>6
    <3> HIDE DEF c
    <3> QED
      BY <2>2, <3>1 DEF MergeBnodeWorks, f1
  <2>8. /\ n \in M1 /\ r \in M1 /\ f1 \in Heaps /\ TreeOK(f1, M1) /\ PagesOK(f1, M1, A1)
        /\ (~f1.relinked => ListsOK(f1, M1))
        /\ Order(f1, r) = o - 1 /\ At(f1, r) = At(h, r)
        /\ Left(f1, n) = l /\ Right(f1, n) = r /\ Inner(f1, n)
    BY <1>2, <2>1, <2>2, <2>3, <2>7, MergedApart DEF l, r
  <2>9. Merged(h, L, n, A1, f1, M1)
    <3>1. l \in {Left(h, n), Right(h, n)}
      BY DEF l
    <3> HIDE DEF A1
    <3> QED
      BY <1>2, <2>1, <2>7, <3>1, MergedLift
  <2>10. \A p \in Pages : p \in Nat
    BY Numbers
  <2>11. \E M2 : Merged(h, L, n, B, f2, M2) /\ n \in M2 /\ Inner(f2, n) /\ Left(f2, n) = l /\ Right(f2, n) = r
    <3>1. CASE ~(limit > half)
      <4>1. Front(h, n, c) = Front(h, l, c)
        BY <2>2, <2>3, <2>10, <3>1 DEF Front
      <4> QED
        BY <2>5, <2>8, <2>9, <3>1, <4>1
    <3>2. CASE limit > half
      <4>1. f2 = MergeBnode[o - 1][<<f1, r, limit - half>>] /\ limit - half \in Nat \ {0}
            /\ At(f1, r) + (limit - half) = c
        BY <2>2, <2>5, <2>8, <3>2
      <4>2. \A k \in Nodes : Order(f1, k) = Order(h, k) /\ At(f1, k) = At(h, k)
        BY <2>7 DEF Merged
      <4>3. \A k \in Nodes : /\ PageBehind(f1, k) = PageBehind(h, k)
                             /\ \A p : HasPage(f1, k, p) <=> HasPage(h, k, p)
                             /\ \A m : IsUnder(f1, m, k) <=> IsUnder(h, m, k)
        BY <4>2, SamePlaces
      <4>4. Front(f1, r, c) \subseteq A1 /\ A1 \ Front(f1, r, c) = B
        BY <2>1, <2>2, <2>3, <4>3 DEF Front
      <4>5. Clean(f1, M1, r, c)
        <5>1. SUFFICES ASSUME NEW k \in M1, IsUnder(f1, k, r), Whole(f1, k), At(f1, k) < c
                       PROVE  PageBehind(f1, k) <= c
          BY DEF Clean
        <5>2. k \in L /\ k \in Nodes
          BY <2>7 DEF Merged
        <5>3. IsUnder(h, k, r) /\ ~IsUnder(h, k, l)
          BY <2>2, <2>3, <4>3, <5>1, <5>2
        <5>4. Whole(h, k) /\ At(h, k) < c
          BY <2>7, <4>2, <5>1, <5>2, <5>3 DEF Merged, SameTree, Whole, Inner
        <5>5. PageBehind(h, k) <= c
          BY <2>1, <2>3, <5>2, <5>3, <5>4 DEF Clean
        <5> QED
          BY <4>3, <5>2, <5>5
      <4>6. MergePre(f1, M1, A1, r, c)
        BY <2>8, <4>4, <4>5 DEF MergePre
      <4>7. M1 \in SUBSET Nodes /\ A1 \in SUBSET Pages
        BY <2>7 DEF Merged
      <4> HIDE DEF c, A1, B
      <4>8. PICK M2 : Merged(f1, M1, r, A1 \ Front(f1, r, c), f2, M2)
        BY <2>2, <2>8, <4>1, <4>6, <4>7 DEF MergeBnodeWorks
      <4>9. Merged(f1, M1, r, B, f2, M2)
        BY <4>4, <4>8
      <4>10. Merged(f1, M1, n, B, f2, M2)
        <5>1. r \in {Left(f1, n), Right(f1, n)}
          BY <2>8
        <5> QED
          BY <2>8, <4>9, <5>1, MergedLift
      <4>11. Merged(h, L, n, B, f2, M2)
        <5>1. B \subseteq A1
          BY <4>4
        <5> QED
          BY <2>9, <4>10, <5>1, MergedThrough
      <4>12. n \in M2 /\ Inner(f2, n) /\ Left(f2, n) = l /\ Right(f2, n) = r
        <5>1. ~IsUnder(f1, n, r)
          BY <2>2, <2>3, <4>3
        <5> QED
          BY <2>8, <4>9, <5>1, MergedApart
      <4> QED
        BY <4>11, <4>12
    <3> QED
      BY <3>1, <3>2
  <2>12. PICK M2 : Merged(h, L, n, B, f2, M2) /\ n \in M2 /\ Inner(f2, n) /\ Left(f2, n) = l /\ Right(f2, n) = r
    BY <2>11
  <2> HIDE DEF B
  <2>13. ASSUME LeavesFree(f2, n) PROVE \E M : Merged(h, L, n, B, g, M)
    <3> DEFINE s == "unallocated"
    <3>1. s \in {"unallocated", "nonode"} /\ g = Joined(f2, n, s)
      BY <2>4, <2>13
    <3> HIDE DEF s
    <3>2. Merged(h, L, n, B, Joined(f2, n, s), M2 \ {Left(f2, n), Right(f2, n)})
      BY <2>1, <2>12, <2>13, <3>1, MergedJoin DEF LeavesFree
    <3> QED
      BY <3>1, <3>2
  <2>14. ASSUME ~LeavesFree(f2, n) PROVE \E M : Merged(h, L, n, B, g, M)
    <3>1. g = Relink(Relink(f2, l), r)
      BY <2>4, <2>12, <2>14
    <3>2. Merged(h, L, n, B, Relink(f2, l), M2)
      BY <2>2, <2>12, MergedRelink
    <3>3. Merged(h, L, n, B, Relink(Relink(f2, l), r), M2)
      BY <2>2, <3>2, MergedRelink
    <3> QED
      BY <3>1, <3>3
  <2>15. \E M : Merged(h, L, n, B, g, M)
    BY <2>13, <2>14
  <2> QED
    BY <2>15 DEF B, g
<1> QED
  BY <1>1, <1>2 DEF Whole

LEMMA MergeBnodeDoes ==
    ASSUME NEW h \in Heaps, NEW L \in SUBSET Nodes, NEW A \in SUBSET Pages, NEW n \in Nodes,
           NEW limit \in Nat \ {0}, MergePre(h, L, A, n, At(h, n) + limit)
    PROVE  \E M : Merged(h, L, n, A \ Front(h, n, At(h, n) + limit), MergeBnode[Order(h, n)][<<h, n, limit>>], M)
<1> DEFINE Good == {o \in Orders : MergeBnodeWorks(o)}
<1>1. 0 \in Orders /\ \A o \in 1 .. MaxOrder : o \in Orders
  BY BuddyAssumption DEF Orders
<1>2. 0 \in Good
  BY <1>1, MergeBnodeStep
<1>3. ASSUME NEW o \in 1 .. MaxOrder, o - 1 \in Good PROVE o \in Good
  BY <1>1, <1>3, MergeBnodeStep
<1>4. \A o \in 0 .. MaxOrder : o \in Good
  <2> HIDE DEF Good
  <2> QED
    BY <1>2, <1>3, UpTo, BuddyAssumption
<1>5. MergeBnodeWorks(Order(h, n))
  BY <1>4, FieldTypes DEF Orders
<1> QED
  BY <1>5 DEF MergeBnodeWorks

-----------------------------------------------------------------------------
(* kfree() merges the whole block afterwards.                                *)

\* merge_bnode_nolimit(): one leaf after the other.
LEMMA NolimitArms ==
    ASSUME NEW h \in Heaps, NEW n \in Nodes
    PROVE  LET o  == Order(h, n)
               g  == MergeBnodeNolimit[o][<<h, n>>]
               f1 == MergeBnodeNolimit[o - 1][<<h, Left(h, n)>>]
               f  == MergeBnodeNolimit[o - 1][<<f1, Right(f1, n)>>]
           IN  /\ Whole(h, n) => g = h
               /\ Inner(h, n) /\ o > 0 => g = IF LeavesFree(f, n) THEN Joined(f, n, "nonode") ELSE f
<1> DEFINE o     == Order(h, n)
           below == IF o = 0 THEN <<>> ELSE MergeBnodeNolimit[o - 1]
           g     == MergeBnodeNolimit[o][<<h, n>>]
           h1    == below[<<h, Left(h, n)>>]
           h2    == below[<<h1, Right(h1, n)>>]
<1>1. o \in Orders /\ o \in Nat
  BY NodeNumbers
<1>2. g = MergeBnodeNolimitTurn(below, h, n)
  <2> HIDE DEF o
  <2> QED
    BY <1>1, NolimitUnfolds
<1>3. MergeBnodeNolimitTurn(below, h, n) =
          IF Whole(h, n) THEN h
          ELSE IF LeavesFree(h2, n) THEN Joined(h2, n, "nonode") ELSE h2
  <2> HIDE DEF below
  <2>1. h2 = MergedBelow(below, h, n)
    BY DEF MergedBelow, Left, Right
  <2> HIDE DEF h2
  <2>2. /\ BothLeavesFree(h2, n) <=> LeavesFree(h2, n)
        /\ HasLeaves(h, n) <=> Inner(h, n)
    BY Tests DEF LeavesFree
  <2> QED
    BY <2>1, <2>2 DEF MergeBnodeNolimitTurn, Whole
<1>4. o > 0 => below = MergeBnodeNolimit[o - 1]
  BY <1>1
<1> HIDE DEF below, g
<1> QED
  BY <1>2, <1>3, <1>4 DEF Whole, g

\* Of the nodes of L those that went are marked as no nodes, and no node below
\* n has two free leaves.
MergedAll(h, L, n, A, g, M) ==
    /\ Merged(h, L, n, A, g, M)
    /\ \A k \in M : IsUnder(h, k, n) /\ Inner(g, k) => ~LeavesFree(g, k)
    /\ \A k \in L \ M : Status(g, k) = "nonode"

NolimitPre(h, L, A, n) ==
    TreeOK(h, L) /\ PagesOK(h, L, A) /\ (~h.relinked => ListsOK(h, L)) /\ n \in L

NolimitWorks(o) ==
    \A h \in Heaps, L \in SUBSET Nodes, A \in SUBSET Pages, n \in Nodes :
        NolimitPre(h, L, A, n) /\ Order(h, n) = o =>
            \E M : MergedAll(h, L, n, A, MergeBnodeNolimit[o][<<h, n>>], M)

\* The leaves of a node that lies under n lie under n.
LEMMA LeavesUnder ==
    ASSUME NEW h \in Heaps, NEW L, TreeOK(h, L), NEW n \in L, NEW k \in L, IsUnder(h, k, n), Inner(h, k)
    PROVE  /\ Left(h, k) \in Nodes /\ Right(h, k) \in Nodes
           /\ IsUnder(h, Left(h, k), n) /\ IsUnder(h, Right(h, k), n)
<1> DEFINE l == Left(h, k)
           r == Right(h, k)
<1>1. /\ l \in Nodes /\ r \in Nodes /\ IsUnder(h, l, k) /\ IsUnder(h, r, k)
  BY LeavesApart
<1>2. Within(h, k, n) /\ k \in Nodes /\ n \in Nodes
  BY UnderIsWithin DEF TreeOK, TopsOK
<1>3. k \in Nat /\ n \in Nat /\ l \in Nat /\ r \in Nat /\ Behind(h, k) \in Nat /\ Behind(h, n) \in Nat
  BY <1>1, <1>2, NodeNumbers
<1> HIDE DEF l, r
<1>4. IsUnder(h, l, n) /\ IsUnder(h, r, n)
  BY <1>1, <1>2, <1>3 DEF IsUnder, Within
<1> QED
  BY <1>1, <1>4 DEF l, r

\* Both leaves of n are done, and n has yet to be looked at.
LeavesDone(h, L, n, A, g, M) ==
    /\ Merged(h, L, n, A, g, M) /\ n \in M /\ Inner(g, n)
    /\ \A k \in M : k # n /\ IsUnder(h, k, n) /\ Inner(g, k) => ~LeavesFree(g, k)
    /\ \A k \in L \ M : Status(g, k) = "nonode"

\* What was merged below the left leaf stays as it is while what lies below
\* the right one is merged.
LEMMA MergedAllBoth ==
    ASSUME NEW h \in Heaps, NEW L \in SUBSET Nodes, NEW A, TreeOK(h, L), NEW n \in L, Inner(h, n),
           NEW f, NEW K, MergedAll(h, L, Left(h, n), A, f, K),
           NEW g, NEW M, MergedAll(f, K, Right(h, n), A, g, M)
    PROVE  LeavesDone(h, L, n, A, g, M)
<1> DEFINE l == Left(h, n)
           r == Right(h, n)
<1>1. /\ Merged(h, L, l, A, f, K) /\ Merged(f, K, r, A, g, M)
      /\ \A k \in K : IsUnder(h, k, l) /\ Inner(f, k) => ~LeavesFree(f, k)
      /\ \A k \in M : IsUnder(f, k, r) /\ Inner(g, k) => ~LeavesFree(g, k)
      /\ \A k \in L \ K : Status(f, k) = "nonode"
      /\ \A k \in K \ M : Status(g, k) = "nonode"
  BY DEF MergedAll
<1>2. /\ ~IsUnder(h, n, l) /\ ~IsUnder(h, n, r) /\ ~IsUnder(h, r, l)
      /\ \A k \in Nodes : IsUnder(h, k, l) => IsUnder(h, k, n) /\ ~IsUnder(h, k, r)
      /\ l \in L /\ r \in L /\ l \in Nodes /\ r \in Nodes /\ n \in Nodes
  BY LeavesApart
<1>3. \A k \in Nodes : Order(f, k) = Order(h, k) /\ At(f, k) = At(h, k)
  BY <1>1 DEF Merged
<1>4. \A k \in Nodes : \A m : IsUnder(f, m, k) <=> IsUnder(h, m, k)
  BY <1>3, SamePlaces
<1>5. /\ n \in K /\ f \in Heaps /\ TreeOK(f, K) /\ Left(f, n) = l /\ Right(f, n) = r /\ Inner(f, n)
  BY <1>1, <1>2, MergedApart
<1>6. n \in M /\ Inner(g, n)
  BY <1>1, <1>2, <1>4, <1>5, MergedApart
<1>7. K \subseteq L /\ M \subseteq K /\ l \in K
  BY <1>1, <1>2 DEF Merged
<1>8. Merged(h, L, n, A, g, M)
  <2>1. l \in {Left(h, n), Right(h, n)} /\ r \in {Left(f, n), Right(f, n)}
    BY <1>5
  <2>2. Merged(h, L, n, A, f, K)
    BY <1>1, <2>1, MergedLift
  <2>3. Merged(f, K, n, A, g, M)
    BY <1>1, <1>5, <2>1, MergedLift
  <2> QED
    BY <1>2, <2>2, <2>3, MergedThrough
<1>9. SameTree(f, g, {k \in Nodes : ~IsUnder(h, k, r)})
  BY <1>1, <1>2, <1>4 DEF Merged
<1> HIDE DEF l, r
<1>10. ASSUME NEW k \in M, k # n, IsUnder(h, k, n), Inner(g, k) PROVE ~LeavesFree(g, k)
  <2>1. k \in L /\ k \in K /\ k \in Nodes
    BY <1>7
  <2>2. IsUnder(h, k, l) \/ IsUnder(h, k, r)
    <3>1. Within(h, k, l) \/ Within(h, k, r)
      BY <1>10, <2>1 DEF TreeOK, Nested, l, r
    <3>2. k \in Nat /\ Behind(h, k) = k + 2 * Width(h, k) - 1 /\ Width(h, k) \in Nat \ {0}
          /\ Behind(h, l) \in Nat /\ Behind(h, r) \in Nat /\ l \in Nat /\ r \in Nat
      BY <1>2, <2>1, NodeNumbers DEF Behind
    <3> QED
      BY <3>1, <3>2 DEF Within, IsUnder
  <2>3. CASE IsUnder(h, k, r)
    BY <1>1, <1>2, <1>4, <1>10, <2>3
  <2>4. CASE IsUnder(h, k, l)
    <3>1. ~IsUnder(h, k, r)
      BY <1>2, <2>1, <2>4
    <3>2. Left(g, k) = Left(f, k) /\ Right(g, k) = Right(f, k) /\ Inner(f, k)
      BY <1>9, <1>10, <2>1, <3>1 DEF SameTree, Inner
    <3>3. ~LeavesFree(f, k)
      BY <1>1, <2>1, <2>4, <3>2
    <3>4. /\ Left(f, k) \in Nodes /\ Right(f, k) \in Nodes
          /\ IsUnder(f, Left(f, k), l) /\ IsUnder(f, Right(f, k), l)
      BY <1>2, <1>4, <1>5, <1>7, <2>1, <2>4, <3>2, LeavesUnder
    <3>5. ~IsUnder(h, Left(f, k), r) /\ ~IsUnder(h, Right(f, k), r)
      BY <1>2, <1>4, <3>4
    <3> QED
      BY <1>9, <3>2, <3>3, <3>4, <3>5 DEF LeavesFree, SameTree
  <2> QED
    BY <2>2, <2>3, <2>4
<1>11. ASSUME NEW k \in L \ M PROVE Status(g, k) = "nonode"
  <2>1. CASE k \in K
    BY <1>1, <2>1
  <2>2. CASE k \notin K
    <3>1. Status(f, k) = "nonode" /\ k \in Nodes /\ IsUnder(h, k, l)
      BY <1>1, <2>2 DEF Merged
    <3> QED
      BY <1>2, <1>9, <3>1 DEF SameTree
  <2> QED
    BY <2>1, <2>2
<1> QED
  BY <1>6, <1>8, <1>10, <1>11 DEF LeavesDone

\* The free leaves of n become one piece.
LEMMA MergedAllJoin ==
    ASSUME NEW h \in Heaps, NEW L \in SUBSET Nodes, NEW A, NEW n \in L,
           NEW f, NEW K, LeavesDone(h, L, n, A, f, K), LeavesFree(f, n)
    PROVE  MergedAll(h, L, n, A, Joined(f, n, "nonode"), K \ {Left(f, n), Right(f, n)})
<1> DEFINE s == "nonode"
           g == Joined(f, n, s)
           l == Left(f, n)
           r == Right(f, n)
           M == K \ {l, r}
<1>1. /\ Merged(h, L, n, A, f, K) /\ n \in K /\ Inner(f, n)
      /\ f \in Heaps /\ TreeOK(f, K) /\ K \subseteq L /\ n \in Nodes
  BY DEF LeavesDone, Merged
<1>2. s \in {"unallocated", "nonode"}
  OBVIOUS
<1>3. Status(f, l) = "unallocated" /\ Status(f, r) = "unallocated"
  BY DEF LeavesFree
<1> HIDE DEF s
<1>4. Merged(h, L, n, A, g, M) /\ Shrunk(f, g, n, s)
  BY <1>1, <1>2, <1>3, MergedJoin
<1>5. l \in K /\ r \in K /\ l # n /\ r # n /\ ~IsUnder(f, n, l) /\ ~IsUnder(f, n, r)
  BY <1>1, LeavesApart
<1>6. SameTree(f, g, Nodes \ {n, l, r}) /\ Whole(g, n) /\ Status(g, l) = s /\ Status(g, r) = s
  BY <1>4 DEF Shrunk, Whole, Inner
<1>7. \A k \in Nodes : Order(f, k) = Order(h, k) /\ At(f, k) = At(h, k)
  BY <1>1 DEF Merged
<1>8. \A k \in Nodes : \A m : IsUnder(f, m, k) <=> IsUnder(h, m, k)
  BY <1>7, SamePlaces
<1> HIDE DEF g, l, r
<1>9. ASSUME NEW k \in M, IsUnder(h, k, n), Inner(g, k) PROVE ~LeavesFree(g, k)
  <2>1. k \in K /\ k \in Nodes /\ k \notin {l, r}
    BY <1>1
  <2>2. k # n
    BY <1>6, <1>9 DEF Whole
  <2>3. IsUnder(h, k, n)
    BY <1>9
  <2>4. Left(g, k) = Left(f, k) /\ Right(g, k) = Right(f, k) /\ Inner(f, k)
    BY <1>6, <1>9, <2>1, <2>2 DEF SameTree, Inner
  <2>5. ~LeavesFree(f, k)
    BY <2>1, <2>2, <2>3, <2>4 DEF LeavesDone
  <2>6. ASSUME NEW c \in {Left(f, k), Right(f, k)} PROVE c \in Nodes \ {n, l, r}
    <3>1. c \in Nodes /\ IsUnder(f, c, k)
      BY <1>1, <2>1, <2>4, LeavesApart
    <3>2. c \notin {l, r}
      <4>1. IsLeafOf(f, c, k)
        BY <2>4 DEF IsLeafOf
      <4>2. c \in {l, r} => IsLeafOf(f, c, n)
        BY <1>1 DEF IsLeafOf, l, r
      <4> QED
        BY <1>1, <2>1, <2>2, <4>1, <4>2, OneParent
    <3>3. c # n
      <4>1. IsUnder(f, k, n)
        BY <1>1, <1>8, <2>3
      <4>2. ~IsUnder(f, n, k)
        <5>1. k \in Nat /\ n \in Nat
          BY <1>1, <2>1, NodeNumbers
        <5> QED
          BY <2>2, <4>1, <5>1 DEF IsUnder
      <4> QED
        BY <3>1, <4>2
    <3> QED
      BY <3>1, <3>2, <3>3
  <2>7. \A c \in {Left(f, k), Right(f, k)} : Status(g, c) = Status(f, c)
    BY <1>6, <2>6 DEF SameTree
  <2> QED
    BY <2>4, <2>5, <2>7 DEF LeavesFree
<1>10. ASSUME NEW k \in L \ M PROVE Status(g, k) = s
  <2>1. CASE k \in {l, r}
    BY <1>6, <2>1
  <2>2. CASE k \notin {l, r}
    <3>1. k \in Nodes \ {n, l, r} /\ k \in L \ K
      BY <1>1, <1>10, <2>2
    <3>2. Status(f, k) = s
      BY <3>1 DEF s, LeavesDone
    <3> QED
      BY <1>6, <3>1, <3>2 DEF SameTree
  <2> QED
    BY <2>1, <2>2
<1> QED
  BY <1>4, <1>9, <1>10 DEF MergedAll, g, l, r, s

\* A piece stays as it is.
LEMMA MergedAllNot ==
    ASSUME NEW h \in Heaps, NEW L \in SUBSET Nodes, NEW A, NEW n, NolimitPre(h, L, A, n), Whole(h, n)
    PROVE  MergedAll(h, L, n, A, h, L)
<1>1. Merged(h, L, n, A, h, L)
  BY MergedNot DEF NolimitPre
<1>2. ASSUME NEW k \in L, IsUnder(h, k, n), Inner(h, k) PROVE FALSE
  BY <1>2 DEF NolimitPre, TreeOK, Nested, Whole
<1> QED
  BY <1>1, <1>2 DEF MergedAll

LEMMA NolimitStep ==
    ASSUME NEW o \in Orders, o > 0 => NolimitWorks(o - 1)
    PROVE  NolimitWorks(o)
<1> SUFFICES ASSUME NEW h \in Heaps, NEW L \in SUBSET Nodes, NEW A \in SUBSET Pages, NEW n \in Nodes,
                    NolimitPre(h, L, A, n), Order(h, n) = o
             PROVE  \E M : MergedAll(h, L, n, A, MergeBnodeNolimit[o][<<h, n>>], M)
  BY DEF NolimitWorks
<1> DEFINE g == MergeBnodeNolimit[o][<<h, n>>]
<1>1. CASE Whole(h, n)
  <2>1. g = h
    BY <1>1, NolimitArms
  <2> QED
    BY <1>1, <2>1, MergedAllNot
<1>2. CASE Inner(h, n)
  <2> DEFINE l  == Left(h, n)
             r  == Right(h, n)
             f1 == MergeBnodeNolimit[o - 1][<<h, l>>]
             f  == MergeBnodeNolimit[o - 1][<<f1, Right(f1, n)>>]
  <2>1. TreeOK(h, L) /\ PagesOK(h, L, A) /\ (~h.relinked => ListsOK(h, L)) /\ n \in L
    BY DEF NolimitPre
  <2>2. /\ l \in L /\ r \in L /\ l \in Nodes /\ r \in Nodes
        /\ Order(h, l) = o - 1 /\ Order(h, r) = o - 1 /\ o > 0
    BY <1>2, <2>1, LeafPlaces
  <2>3. ~IsUnder(h, n, l) /\ ~IsUnder(h, r, l)
    BY <1>2, <2>1, LeavesApart
  <2>4. g = IF LeavesFree(f, n) THEN Joined(f, n, "nonode") ELSE f
    BY <1>2, <2>2, NolimitArms
  <2> HIDE DEF l, r, f, g
  <2>5. PICK K : MergedAll(h, L, l, A, f1, K)
    BY <2>1, <2>2 DEF NolimitPre, NolimitWorks
  <2> HIDE DEF f1
  <2>6. Merged(h, L, l, A, f1, K) /\ K \in SUBSET Nodes
    BY <2>5 DEF MergedAll, Merged
  <2>7. /\ r \in K /\ f1 \in Heaps /\ TreeOK(f1, K) /\ PagesOK(f1, K, A)
        /\ (~f1.relinked => ListsOK(f1, K)) /\ Order(f1, r) = o - 1
    BY <2>2, <2>3, <2>6, MergedApart
  <2>8. Right(f1, n) = r
    BY <2>1, <2>3, <2>6, MergedApart DEF r
  <2>9. PICK M : MergedAll(f1, K, r, A, f, M)
    BY <2>2, <2>6, <2>7, <2>8 DEF NolimitPre, NolimitWorks, f
  <2>10. LeavesDone(h, L, n, A, f, M)
    <3>1. MergedAll(h, L, Left(h, n), A, f1, K) /\ MergedAll(f1, K, Right(h, n), A, f, M)
      BY <2>5, <2>9 DEF l, r
    <3>2. TreeOK(h, L) /\ n \in L
      BY <2>1
    <3> QED
      BY <1>2, <3>1, <3>2, MergedAllBoth
  <2>11. CASE LeavesFree(f, n)
    <3>1. MergedAll(h, L, n, A, Joined(f, n, "nonode"), M \ {Left(f, n), Right(f, n)})
      BY <2>1, <2>10, <2>11, MergedAllJoin
    <3> QED
      BY <2>4, <2>11, <3>1 DEF g
  <2>12. CASE ~LeavesFree(f, n)
    <3>1. \A k \in Nodes : Order(f, k) = Order(h, k) /\ At(f, k) = At(h, k)
      BY <2>10 DEF LeavesDone, Merged
    <3>2. \A m : IsUnder(f, m, n) <=> IsUnder(h, m, n)
      BY <3>1, SamePlaces
    <3>3. MergedAll(h, L, n, A, f, M)
      BY <2>10, <2>12, <3>2 DEF LeavesDone, MergedAll
    <3> QED
      BY <2>4, <2>12, <3>3 DEF g
  <2> QED
    BY <2>11, <2>12
<1> QED
  BY <1>1, <1>2 DEF Whole

LEMMA NolimitDoes ==
    ASSUME NEW h \in Heaps, NEW L \in SUBSET Nodes, NEW A \in SUBSET Pages, NEW n \in Nodes, NolimitPre(h, L, A, n)
    PROVE  \E M : MergedAll(h, L, n, A, MergeBnodeNolimit[Order(h, n)][<<h, n>>], M)
<1> DEFINE Good == {o \in Orders : NolimitWorks(o)}
<1>1. 0 \in Orders /\ \A o \in 1 .. MaxOrder : o \in Orders
  BY BuddyAssumption DEF Orders
<1>2. 0 \in Good
  BY <1>1, NolimitStep
<1>3. ASSUME NEW o \in 1 .. MaxOrder, o - 1 \in Good PROVE o \in Good
  BY <1>1, <1>3, NolimitStep
<1>4. \A o \in 0 .. MaxOrder : o \in Good
  <2> HIDE DEF Good
  <2> QED
    BY <1>2, <1>3, UpTo, BuddyAssumption
<1>5. NolimitWorks(Order(h, n))
  BY <1>4, FieldTypes DEF Orders
<1> QED
  BY <1>5 DEF NolimitWorks

-----------------------------------------------------------------------------
(* kfree() finds the root of the block it is given.                          *)

LEMMA WithinIsUnder ==
    ASSUME NEW h \in Heaps, NEW m \in Nodes, NEW n \in Nodes, Within(h, m, n)
    PROVE  /\ IsUnder(h, m, n) /\ Width(h, m) <= Width(h, n)
           /\ At(h, n) <= At(h, m) /\ At(h, m) < PageBehind(h, n)
<1>1. /\ m \in Nat /\ n \in Nat /\ Width(h, m) \in Nat \ {0} /\ Width(h, n) \in Nat \ {0}
      /\ At(h, m) \in Nat /\ PageBehind(h, n) \in Nat
      /\ Behind(h, m) = m + 2 * Width(h, m) - 1 /\ Behind(h, n) = n + 2 * Width(h, n) - 1
      /\ PageBehind(h, m) = At(h, m) + Width(h, m)
  BY NodeNumbers DEF Behind, PageBehind
<1>2. /\ n <= m /\ Behind(h, m) <= Behind(h, n)
      /\ At(h, n) <= At(h, m) /\ PageBehind(h, m) <= PageBehind(h, n)
  BY DEF Within
<1> QED
  BY <1>1, <1>2 DEF IsUnder

\* The root found for the address of a node r below n is at least as large.
RootPre(h, L, n, r, page) ==
    TreeOK(h, L) /\ n \in L /\ r \in L /\ IsUnder(h, r, n) /\ At(h, r) = page

RootPost(h, L, n, r, z) ==
    z \in L /\ IsUnder(h, z, n) /\ At(h, z) = At(h, r) /\ Width(h, r) <= Width(h, z)

RootWorks(o) ==
    \A h \in Heaps, L \in SUBSET Nodes, n \in Nodes, r \in Nodes, page \in Pages :
        RootPre(h, L, n, r, page) /\ Order(h, n) = o =>
            RootPost(h, L, n, r, RootFrom[o][<<h, n, page>>])

LEMMA RootStep ==
    ASSUME NEW o \in Orders, o > 0 => RootWorks(o - 1)
    PROVE  RootWorks(o)
<1> SUFFICES ASSUME NEW h \in Heaps, NEW L \in SUBSET Nodes, NEW n \in Nodes, NEW r \in Nodes, NEW page \in Pages,
                    RootPre(h, L, n, r, page), Order(h, n) = o
             PROVE  RootPost(h, L, n, r, RootFrom[o][<<h, n, page>>])
  BY DEF RootWorks
<1> DEFINE z     == RootFrom[o][<<h, n, page>>]
           below == IF o = 0 THEN <<>> ELSE RootFrom[o - 1]
<1>1. TreeOK(h, L) /\ n \in L /\ r \in L /\ IsUnder(h, r, n) /\ At(h, r) = page
  BY DEF RootPre
<1>2. z = IF At(h, n) >= page THEN n
          ELSE IF At(h, Right(h, n)) > page THEN below[<<h, Left(h, n), page>>]
          ELSE below[<<h, Right(h, n), page>>]
  <2>1. z = RootTurn(below, h, n, page)
    BY RootUnfolds
  <2> HIDE DEF below, z
  <2> QED
    BY <2>1 DEF RootTurn, At, Left, Right
<1>3. /\ IsUnder(h, n, n) /\ At(h, n) <= page /\ Width(h, r) <= Width(h, n)
      /\ At(h, n) \in Nat /\ page \in Nat
  <2>1. At(h, n) <= page /\ Width(h, r) <= Width(h, n)
    BY <1>1, UnderIsWithin, WithinIsUnder
  <2>2. At(h, n) \in Nat /\ At(h, r) \in Nat /\ Width(h, n) \in Nat \ {0} /\ n \in Nat
        /\ Behind(h, n) = n + 2 * Width(h, n) - 1
    BY NodeNumbers DEF Behind
  <2> QED
    BY <1>1, <2>1, <2>2 DEF IsUnder
<1> HIDE DEF z, below
<1>4. CASE At(h, n) >= page
  <2>1. z = n /\ At(h, n) = page
    BY <1>2, <1>3, <1>4
  <2> QED
    BY <1>1, <1>3, <2>1 DEF RootPost, z
<1>5. CASE ~(At(h, n) >= page)
  <2> DEFINE l == Left(h, n)
             e == Right(h, n)
  <2>1. r # n
    BY <1>1, <1>3, <1>5
  <2>2. Inner(h, n) /\ (Within(h, r, l) \/ Within(h, r, e))
    BY <1>1, <2>1 DEF TreeOK, Nested
  <2>3. /\ l \in L /\ e \in L /\ l \in Nodes /\ e \in Nodes /\ o > 0
        /\ Order(h, l) = o - 1 /\ Order(h, e) = o - 1 /\ PageBehind(h, l) = At(h, e)
    BY <1>1, <2>2, LeafPlaces
  <2>4. below = RootFrom[o - 1]
    BY <2>3 DEF below
  <2>5. ASSUME NEW c \in {l, e}, Within(h, r, c), z = RootFrom[o - 1][<<h, c, page>>]
        PROVE  RootPost(h, L, n, r, z)
    <3>1. RootPre(h, L, c, r, page)
      BY <1>1, <2>3, <2>5, WithinIsUnder DEF RootPre
    <3>2. RootPost(h, L, c, r, z)
      BY <2>3, <2>5, <3>1 DEF RootWorks
    <3>3. \A k \in Nodes : IsUnder(h, k, c) => IsUnder(h, k, n)
      BY <1>1, <2>2, LeavesApart
    <3> QED
      BY <3>2, <3>3 DEF RootPost
  <2>6. At(h, e) \in Nat
    BY <2>3, NodeNumbers
  <2>7. CASE At(h, e) > page
    <3>1. ~Within(h, r, e)
      BY <1>1, <1>3, <2>3, <2>6, <2>7, WithinIsUnder
    <3>2. z = RootFrom[o - 1][<<h, l, page>>]
      BY <1>2, <1>5, <2>4, <2>7
    <3> HIDE DEF l, e
    <3> QED
      BY <2>2, <2>5, <3>1, <3>2 DEF z
  <2>8. CASE ~(At(h, e) > page)
    <3>1. ~Within(h, r, l)
      BY <1>1, <1>3, <2>3, <2>6, <2>8, WithinIsUnder
    <3>2. z = RootFrom[o - 1][<<h, e, page>>]
      BY <1>2, <1>5, <2>4, <2>8
    <3> HIDE DEF l, e
    <3> QED
      BY <2>2, <2>5, <3>1, <3>2 DEF z
  <2> QED
    BY <2>7, <2>8
<1> QED
  BY <1>4, <1>5

LEMMA RootDoes ==
    ASSUME NEW h \in Heaps, NEW L \in SUBSET Nodes, NEW n \in Nodes, NEW r \in Nodes, NEW page \in Pages,
           RootPre(h, L, n, r, page)
    PROVE  RootPost(h, L, n, r, RootFrom[Order(h, n)][<<h, n, page>>])
<1> DEFINE Good == {o \in Orders : RootWorks(o)}
<1>1. 0 \in Orders /\ \A o \in 1 .. MaxOrder : o \in Orders
  BY BuddyAssumption DEF Orders
<1>2. 0 \in Good
  BY <1>1, RootStep
<1>3. ASSUME NEW o \in 1 .. MaxOrder, o - 1 \in Good PROVE o \in Good
  BY <1>1, <1>3, RootStep
<1>4. \A o \in 0 .. MaxOrder : o \in Good
  <2> HIDE DEF Good
  <2> QED
    BY <1>2, <1>3, UpTo, BuddyAssumption
<1>5. RootWorks(Order(h, n))
  BY <1>4, FieldTypes DEF Orders
<1> QED
  BY <1>5 DEF RootWorks

\* The quotient is the number of whole intervals before a number.
LEMMA Quotient ==
    ASSUME NEW a \in Nat, NEW k \in Nat \ {0}, NEW c \in Nat, c * k <= a, a < c * k + k
    PROVE  a \div k = c
<1> DEFINE q == a \div k
<1>1. q \in Nat /\ q * k <= a /\ a < q * k + k
  BY SMT
<1> HIDE DEF q
<1>2. CASE q < c
  <2>1. q * k + k <= c * k
    <3>1. PICK d \in Nat : c = q + 1 + d
      <4>1. c - q - 1 \in Nat /\ c = q + 1 + (c - q - 1)
        BY <1>1, <1>2
      <4> QED
        BY <4>1
    <3>2. c * k = q * k + k + d * k /\ d * k \in Nat /\ q * k \in Nat
      BY <1>1, <3>1, SMT
    <3> QED
      BY <3>2
  <2>2. c * k \in Nat /\ q * k \in Nat
    BY <1>1, SMT
  <2> QED
    BY <1>1, <2>1, <2>2
<1>3. CASE c < q
  <2>1. c * k + k <= q * k
    <3>1. PICK d \in Nat : q = c + 1 + d
      <4>1. q - c - 1 \in Nat /\ q = c + 1 + (q - c - 1)
        BY <1>1, <1>3
      <4> QED
        BY <4>1
    <3>2. q * k = c * k + k + d * k /\ d * k \in Nat /\ c * k \in Nat
      BY <1>1, <3>1, SMT
    <3> QED
      BY <3>2
  <2>2. c * k \in Nat /\ q * k \in Nat
    BY <1>1, SMT
  <2> QED
    BY <1>1, <2>1, <2>2
<1> QED
  BY <1>1, <1>2, <1>3 DEF q

\* Every node in use lies under one of the highest order.
LEMMA TopExists ==
    ASSUME NEW h \in Heaps, NEW L, TreeOK(h, L), NEW r \in L
    PROVE  \E b \in 1 .. Blocks : IsUnder(h, r, MaxNode(b))
<1> DEFINE Bad == {k \in L : \A b \in 1 .. Blocks : ~IsUnder(h, k, MaxNode(b))}
<1>1. L \subseteq Nodes /\ MaxNodes \subseteq L /\ \A n \in L \ MaxNodes : \E m \in L : IsLeafOf(h, n, m)
  BY DEF TreeOK, TopsOK
<1>2. SUFFICES ASSUME Bad # {} PROVE FALSE
  OBVIOUS
<1>3. PICK k \in Bad : \A m \in Bad : k <= m
  <2>1. Bad \in SUBSET Nat
    BY <1>1, Numbers
  <2> HIDE DEF Bad
  <2> QED
    BY <1>2, <2>1, LeastNumber
<1>4. k \in L /\ k \in Nodes
  BY <1>1
<1>5. \A n \in Nodes : IsUnder(h, n, n)
  <2>1. TAKE n \in Nodes
  <2>2. n \in Nat /\ Width(h, n) \in Nat \ {0} /\ Behind(h, n) = n + 2 * Width(h, n) - 1
    BY NodeNumbers DEF Behind
  <2> QED
    BY <2>2 DEF IsUnder
<1>6. k \notin MaxNodes
  BY <1>4, <1>5 DEF MaxNodes
<1>7. PICK m \in L : IsLeafOf(h, k, m)
  BY <1>1, <1>4, <1>6
<1>8. Inner(h, m) /\ k \in {Left(h, m), Right(h, m)}
  BY <1>7 DEF IsLeafOf
<1>9. m \in Nodes /\ IsUnder(h, k, m) /\ k # m
  BY <1>8, LeavesApart, <1>1
<1>10. m < k
  <2>1. m \in Nat /\ k \in Nat
    BY <1>4, <1>9, Numbers
  <2> QED
    BY <1>9, <2>1 DEF IsUnder
<1>11. m \notin Bad
  <2>1. m \in Nat /\ k \in Nat
    BY <1>4, <1>9, Numbers
  <2> HIDE DEF Bad
  <2> QED
    BY <1>3, <1>10, <2>1
<1>12. PICK b \in 1 .. Blocks : IsUnder(h, m, MaxNode(b))
  BY <1>11
<1>13. MaxNode(b) \in L
  BY <1>1 DEF MaxNodes
<1>14. IsUnder(h, k, MaxNode(b))
  BY <1>8, <1>12, <1>13, LeavesUnder
<1> QED
  BY <1>3, <1>14

\* kfree() finds the node of the highest order by the address.
LEMMA TopOf ==
    ASSUME NEW h \in Heaps, NEW L, TreeOK(h, L), NEW r \in L
    PROVE  LET high == MaxNode(1 + At(h, r) \div Type[MaxOrder])
           IN  /\ high \in MaxNodes /\ high \in L /\ high \in Nodes /\ IsUnder(h, r, high)
               /\ Order(h, high) = MaxOrder
<1> DEFINE k == Type[MaxOrder]
<1>1. PICK b \in 1 .. Blocks : IsUnder(h, r, MaxNode(b))
  BY TopExists
<1> DEFINE n == MaxNode(b)
           c == b - 1
<1>2. n \in MaxNodes /\ n \in L /\ n \in Nodes /\ Order(h, n) = MaxOrder /\ At(h, n) = c * k /\ r \in Nodes
  BY Numbers DEF TreeOK, TopsOK, MaxNodes
<1>3. /\ At(h, n) <= At(h, r) /\ At(h, r) < PageBehind(h, n)
  BY <1>1, <1>2, UnderIsWithin, WithinIsUnder
<1>4. PageBehind(h, n) = c * k + k
  BY <1>2 DEF PageBehind, Width
<1>5. c \in Nat /\ k \in Nat \ {0} /\ At(h, r) \in Nat /\ 1 + c = b
  BY <1>2, NodeNumbers, TypeOfOrder, BuddyAssumption DEF Orders
<1>6. At(h, r) \div k = c
  <2> HIDE DEF c, k
  <2> QED
    BY <1>2, <1>3, <1>4, <1>5, Quotient
<1> QED
  BY <1>1, <1>2, <1>5, <1>6

-----------------------------------------------------------------------------
(* The nodes in use are those that are reached from the highest order.       *)

LEMMA LiveUnfolds ==
    ASSUME NEW h
    PROVE  /\ LiveAt(h)[0] = MaxNodes
           /\ \A d \in 1 .. MaxOrder : LiveAt(h)[d] = Leaves(h, LiveAt(h)[d - 1])
<1>1. PICK f : Recurses(f, "LiveAt", h, MaxOrder)
  BY Recursion, MaxOrderIsNumber
<1>2. f = [d \in Orders |-> IF d = 0 THEN MaxNodes ELSE Leaves(h, f[d - 1])]
  <2>1. ASSUME NEW d \in Orders
        PROVE  Turn("LiveAt", h, d, Before(f, d)) = IF d = 0 THEN MaxNodes ELSE Leaves(h, f[d - 1])
    BY DEF Turn, Before
  <2> QED
    BY <1>1, <2>1 DEF Recurses, Orders
<1> DEFINE at == LiveAt(h)
<1>3. at = [d \in Orders |-> IF d = 0 THEN MaxNodes ELSE Leaves(h, at[d - 1])]
  BY <1>2 DEF LiveAt
<1> HIDE DEF at
<1>4. 0 \in Orders /\ \A d \in 1 .. MaxOrder : d \in Orders /\ d # 0
  BY BuddyAssumption DEF Orders
<1>5. at[0] = MaxNodes
  BY <1>3, <1>4
<1>6. \A d \in 1 .. MaxOrder : at[d] = Leaves(h, at[d - 1])
  BY <1>3, <1>4
<1> QED
  BY <1>5, <1>6 DEF at

LEMMA LiveOfOrder ==
    ASSUME NEW h \in Heaps, NEW L, TreeOK(h, L)
    PROVE  \A d \in Orders : LiveAt(h)[d] = {n \in L : Order(h, n) = MaxOrder - d}
<1> DEFINE Good == {d \in Orders : LiveAt(h)[d] = {n \in L : Order(h, n) = MaxOrder - d}}
<1>1. 0 \in Orders /\ MaxOrder \in Nat /\ \A d \in 1 .. MaxOrder : d \in Orders
  BY BuddyAssumption DEF Orders
<1>2. /\ L \subseteq Nodes /\ MaxNodes \subseteq L /\ \A n \in MaxNodes : Order(h, n) = MaxOrder
      /\ \A n \in L \ MaxNodes : Order(h, n) < MaxOrder /\ \E m \in L : IsLeafOf(h, n, m)
  BY DEF TreeOK, TopsOK, MaxNodes
<1>3. \A n \in L : Order(h, n) \in Nat
  BY <1>2, NodeNumbers
<1>4. 0 \in Good
  <2>1. \A n \in L : Order(h, n) = MaxOrder - 0 <=> n \in MaxNodes
    BY <1>1, <1>2, <1>3
  <2>2. LiveAt(h)[0] = MaxNodes
    BY LiveUnfolds
  <2> QED
    BY <1>1, <1>2, <2>1, <2>2
<1>5. ASSUME NEW d \in 1 .. MaxOrder, d - 1 \in Good PROVE d \in Good
  <2> DEFINE S == {n \in L : Order(h, n) = MaxOrder - (d - 1)}
  <2>1. LiveAt(h)[d] = Leaves(h, S)
    BY <1>5, LiveUnfolds
  <2>2. ASSUME NEW n \in Leaves(h, S) PROVE n \in L /\ Order(h, n) = MaxOrder - d
    <3>1. PICK m \in S : Inner(h, m) /\ n \in {Left(h, m), Right(h, m)}
      BY <2>2, Tests DEF Leaves, Left, Right
    <3>2. m \in L /\ Order(h, m) = MaxOrder - (d - 1)
      OBVIOUS
    <3>3. n \in L /\ Order(h, n) = Order(h, m) - 1
      BY <3>1, <3>2, LeafPlaces
    <3> QED
      BY <1>1, <3>2, <3>3
  <2>3. ASSUME NEW n \in L, Order(h, n) = MaxOrder - d PROVE n \in Leaves(h, S)
    <3>1. n \notin MaxNodes
      BY <1>1, <1>2, <2>3
    <3>2. PICK m \in L : IsLeafOf(h, n, m)
      BY <1>2, <3>1
    <3>3. Inner(h, m) /\ n \in {Left(h, m), Right(h, m)}
      BY <3>2 DEF IsLeafOf
    <3>4. Order(h, n) = Order(h, m) - 1
      BY <3>3, LeafPlaces
    <3>5. m \in S
      BY <1>1, <1>3, <2>3, <3>4
    <3> HIDE DEF S
    <3> QED
      BY <3>3, <3>5, Tests DEF Leaves, Left, Right
  <2> HIDE DEF S
  <2>4. LiveAt(h)[d] = {n \in L : Order(h, n) = MaxOrder - d}
    BY <2>1, <2>2, <2>3
  <2> QED
    BY <1>1, <2>4
<1>6. \A d \in 0 .. MaxOrder : d \in Good
  <2> HIDE DEF Good
  <2> QED
    BY <1>4, <1>5, UpTo, BuddyAssumption
<1> QED
  BY <1>6 DEF Orders

LEMMA LiveIsTree ==
    ASSUME NEW L, Heap \in Heaps, TreeOK(Heap, L)
    PROVE  LiveNodes = L
<1>1. ASSUME NEW n \in L PROVE n \in LiveNodes
  <2>1. n \in Nodes
    BY DEF TreeOK, TopsOK
  <2>2. MaxOrder - Order(Heap, n) \in Orders /\ MaxOrder - (MaxOrder - Order(Heap, n)) = Order(Heap, n)
    BY <2>1, FieldTypes, BuddyAssumption DEF Orders
  <2>3. n \in LiveAt(Heap)[MaxOrder - Order(Heap, n)]
    BY <2>2, LiveOfOrder
  <2> QED
    BY <2>2, <2>3 DEF LiveNodes
<1>2. ASSUME NEW n \in LiveNodes PROVE n \in L
  <2>1. PICK d \in Orders : n \in LiveAt(Heap)[d]
    BY <1>2 DEF LiveNodes
  <2> QED
    BY <2>1, LiveOfOrder
<1> QED
  BY <1>1, <1>2

-----------------------------------------------------------------------------
(* The invariant: a tree tells the pages held, every block held lies in one  *)
(* node, what is allocated belongs to one block, and nothing is left to join. *)

Cover(H) == UNION {PagesOf(b) : b \in H}

HeldOK(h, L, H) ==
    /\ \A b \in H : \E r \in L : At(h, r) = b.page /\ b.size <= Width(h, r)
    /\ \A b, c \in H : b # c => PagesOf(b) \cap PagesOf(c) = {}
    /\ \A n \in L : Whole(h, n) /\ Status(h, n) = "allocated" =>
           \E b \in H : \A p \in Pages : HasPage(h, n, p) => p \in PagesOf(b)

NoFreePair(h, L) == \A n \in L : Inner(h, n) => ~LeavesFree(h, n)

StateOK(h, L, H) ==
    /\ TreeOK(h, L) /\ PagesOK(h, L, Cover(H)) /\ ListsOK(h, L)
    /\ HeldOK(h, L, H) /\ NoFreePair(h, L)

Held == [page : Pages, size : Sizes]

\* The pages held, as pages.
LEMMA CoverIsPages ==
    ASSUME NEW h \in Heaps, NEW L, NEW H \in SUBSET Held, TreeOK(h, L), HeldOK(h, L, H)
    PROVE  /\ Cover(H) \in SUBSET Pages
           /\ \A b \in H : /\ b.page \in Nat /\ b.size \in Nat \ {0} /\ b.page \in PagesOf(b)
                           /\ \A p \in Pages : p \in PagesOf(b) <=> b.page <= p /\ p < b.page + b.size
                           /\ PagesOf(b) \subseteq Pages
<1>1. \A b \in H : b.page \in Pages /\ b.page \in Nat /\ b.size \in Nat \ {0}
  <2>1. \A i \in Sizes : i \in Nat \ {0}
    BY BuddyAssumption
  <2>2. \A b \in H : b.page \in Pages /\ b.size \in Sizes
    BY DEF Held
  <2> QED
    BY <2>1, <2>2, Numbers
<1>2. ASSUME NEW b \in H PROVE PagesOf(b) \subseteq Pages
  <2>1. PICK r \in L : At(h, r) = b.page /\ b.size <= Width(h, r)
    BY DEF HeldOK
  <2>2. r \in Nodes /\ PageBehind(h, r) <= PageCount
    BY DEF TreeOK, TopsOK, NodeOK
  <2>3. PageBehind(h, r) = At(h, r) + Width(h, r) /\ Width(h, r) \in Nat
    BY <2>2, NodeNumbers DEF PageBehind
  <2> QED
    BY <1>1, <2>1, <2>2, <2>3, Counts DEF PagesOf
<1>3. \A b \in H, p \in Pages : p \in PagesOf(b) <=> b.page <= p /\ p < b.page + b.size
  <2>1. \A p \in Pages : p \in Nat
    BY Numbers
  <2> QED
    BY <1>1, <2>1 DEF PagesOf
<1>4. \A b \in H : b.page \in PagesOf(b)
  BY <1>1 DEF PagesOf
<1> QED
  BY <1>1, <1>2, <1>3, <1>4 DEF Cover

\* The order of a page count is the least that is large enough.
LEMMA OrderOfSize ==
    ASSUME NEW size \in Sizes
    PROVE  OrderOf(size) \in Orders /\ size <= Type[OrderOf(size)]
<1> DEFINE S == {o \in Orders : size <= Type[o]}
<1>1. S \in SUBSET Nat /\ S # {}
  <2>1. MaxOrder \in S
    BY BuddyAssumption DEF Orders
  <2> QED
    BY <2>1 DEF Orders
<1>2. PICK m \in S : \A k \in S : m <= k
  <2> HIDE DEF S
  <2> QED
    BY <1>1, LeastNumber
<1>3. \E o \in Orders : size <= Type[o] /\ \A p \in Orders : size <= Type[p] => o <= p
  BY <1>2
<1> QED
  BY <1>3 DEF OrderOf

\* The list that is chosen is the first that is not empty.
LEMMA ChosenOrderIs ==
    ASSUME NEW h \in Heaps, NEW L, ListsOK(h, L), NEW size \in Sizes
    PROVE  LET o == ChosenOrder(h, size)
           IN  /\ o \in OrderOf(size) .. MaxOrder /\ First(h, o) # Null
               /\ \A p \in OrderOf(size) .. o - 1 : First(h, p) = Null
<1>1. OrderOf(size) \in Nat /\ OrderOf(size) <= MaxOrder /\ MaxOrder \in Nat
  BY OrderOfSize, BuddyAssumption DEF Orders
<1> DEFINE from == OrderOf(size)
           S    == {o \in from .. MaxOrder : First(h, o) # Null}
<1> HIDE DEF from
<1>2. MaxOrder \in S
  <2>1. MaxNode(1) \in MaxNodes
    BY BuddyAssumption DEF MaxNodes
  <2>2. First(h, MaxOrder) # Null
    BY <2>1, Numbers DEF ListsOK
  <2> QED
    BY <1>1, <2>2 DEF from
<1>3. PICK m \in S : \A k \in S : m <= k
  <2>1. S \in SUBSET Nat
    BY <1>1 DEF from
  <2> HIDE DEF S
  <2> QED
    BY <1>2, <2>1, LeastNumber
<1>4. m \in from .. MaxOrder /\ First(h, m) # Null
  OBVIOUS
<1>5. ASSUME NEW p \in from .. m - 1 PROVE First(h, p) = Null
  <2>1. p \in from .. MaxOrder /\ ~(m <= p)
    BY <1>1, <1>4 DEF from
  <2> QED
    BY <1>3, <2>1
<1>6. \E o \in from .. MaxOrder : h.first[o] # Null /\ \A p \in from .. o - 1 : h.first[p] = Null
  BY <1>4, <1>5 DEF First
<1> QED
  BY <1>6 DEF ChosenOrder, First, from

\* The node that is chosen is a free piece that is large enough.
LEMMA ChosenNodeIs ==
    ASSUME NEW h \in Heaps, NEW L, TreeOK(h, L), ListsOK(h, L), NEW size \in Sizes, CanServe(h, size)
    PROVE  LET n == ChosenNode(h, size)
           IN  /\ n \in L /\ n \in Nodes /\ Whole(h, n) /\ Status(h, n) = "unallocated" /\ size <= Width(h, n)
               /\ Order(h, n) = MaxOrder => n \in MaxNodes
               /\ Order(h, n) # MaxOrder => n = First(h, Order(h, n))
<1> DEFINE o == ChosenOrder(h, size)
           n == ChosenNode(h, size)
<1>1. /\ o \in OrderOf(size) .. MaxOrder /\ First(h, o) # Null
      /\ \A p \in OrderOf(size) .. o - 1 : First(h, p) = Null
  BY ChosenOrderIs
<1>2. OrderOf(size) \in Orders /\ size <= Type[OrderOf(size)]
  BY OrderOfSize
<1>3. o \in Orders /\ size <= Type[o]
  <2>1. o \in Orders /\ OrderOf(size) <= o
    BY <1>1, <1>2, BuddyAssumption DEF Orders
  <2>2. Type[OrderOf(size)] <= Type[o] /\ Type[OrderOf(size)] \in Nat /\ Type[o] \in Nat /\ size \in Nat
    BY <1>2, <2>1, TypeGrows, TypeOfOrder, BuddyAssumption
  <2> QED
    BY <1>2, <2>1, <2>2
<1> HIDE DEF o
<1>4. CASE o = MaxOrder
  <2>1. FreeMaxNodes(h) # {}
    <3>1. ASSUME NEW p \in OrderOf(size) .. MaxOrder - 1 PROVE h.first[p] = Null
      BY <1>1, <1>4 DEF First
    <3> QED
      BY <3>1 DEF CanServe
  <2>2. PICK m \in FreeMaxNodes(h) : \A k \in FreeMaxNodes(h) : m <= k
    <3>1. FreeMaxNodes(h) \in SUBSET Nat
      BY Numbers DEF FreeMaxNodes
    <3> QED
      BY <2>1, <3>1, LeastNumber
  <2>3. n \in FreeMaxNodes(h)
    BY <1>4, <2>2 DEF ChosenNode, o
  <2> HIDE DEF n
  <2>4. n \in MaxNodes /\ Status(h, n) # "allocated"
    BY <2>3 DEF FreeMaxNodes, Status
  <2>5. n \in L /\ n \in Nodes /\ Order(h, n) = MaxOrder /\ NodeOK(h, L, n)
    BY <2>4, Numbers DEF TreeOK, TopsOK, MaxNodes
  <2>6. Whole(h, n) /\ Status(h, n) = "unallocated" /\ size <= Width(h, n)
    BY <1>3, <1>4, <2>4, <2>5 DEF NodeOK, LeavesFit, Whole, Width
  <2> QED
    BY <2>4, <2>5, <2>6 DEF n
<1>5. CASE o # MaxOrder
  <2>1. n = First(h, o)
    BY <1>5 DEF ChosenNode, First, o
  <2> HIDE DEF n
  <2>2. n \in Low /\ Order(h, n) = o
    BY <1>1, <1>3, <1>5, <2>1 DEF ListsOK
  <2>3. Linked(h, n)
    BY <2>1, <2>2 DEF Linked
  <2>4. n \in L /\ Whole(h, n) /\ Status(h, n) = "unallocated"
    BY <2>2, <2>3 DEF ListsOK
  <2>5. n \in Nodes /\ size <= Width(h, n)
    BY <1>3, <2>2 DEF Low, Width
  <2> QED
    BY <1>5, <2>1, <2>2, <2>4, <2>5 DEF n
<1> QED
  BY <1>4, <1>5

-----------------------------------------------------------------------------
(* kalloc() keeps the invariant.                                             *)

NodePages(h, n) == {p \in Pages : HasPage(h, n, p)}

LEMMA TakenState ==
    ASSUME NEW h \in Heaps, NEW L \in SUBSET Nodes, NEW A \in SUBSET Pages, TreeOK(h, L), PagesOK(h, L, A), ListsOK(h, L),
           NEW n \in L, Whole(h, n), Order(h, n) = MaxOrder => n \in MaxNodes,
           Order(h, n) # MaxOrder => n = First(h, Order(h, n)), NEW size \in 1 .. Width(h, n)
    PROVE  LET t == Taken(h, n)
           IN  /\ t \in Heaps /\ t.relinked = h.relinked /\ StatusSet(h, t, n, "allocated")
               /\ SplitPre(t, L, A \cup NodePages(h, n), n, size)
<1> DEFINE t == Taken(h, n)
           s == "allocated"
           B == A \cup NodePages(h, n)
<1>1. t \in Heaps /\ t.relinked = h.relinked /\ StatusSet(h, t, n, s)
  BY TakenDoes
<1>2. s \in {"allocated", "unallocated"}
  OBVIOUS
<1>3. ListsOK(t, L)
  BY TakenLists
<1> HIDE DEF t
<1>4. TreeOK(t, L)
  BY <1>1, TreeStatus
<1>5. \A p \in Pages : p \in B <=> IF HasPage(h, n, p) THEN s = "allocated" ELSE p \in A
  BY DEF NodePages
<1>6. PagesOK(t, L, B)
  <2> HIDE DEF s, B
  <2> QED
    BY <1>1, <1>2, <1>5, PagesStatus
<1>7. Whole(t, n) /\ Status(t, n) = s /\ Width(t, n) = Width(h, n)
  BY <1>1 DEF StatusSet, Whole, Inner, Width
<1>8. SplitPre(t, L, B, n, size)
  BY <1>3, <1>4, <1>6, <1>7 DEF SplitPre
<1> QED
  BY <1>1, <1>8 DEF t

\* The nodes that were in use stay where they were.
LEMMA SplitKeeps ==
    ASSUME NEW h \in Heaps, NEW L \in SUBSET Nodes, TreeOK(h, L), NEW n \in L, Whole(h, n),
           NEW t, StatusSet(h, t, n, "allocated"), NEW A, NEW size, NEW g, NEW M,
           SplitPre(t, L, A, n, size), SplitPost(t, L, A, n, size, g, M)
    PROVE  /\ \A k \in L : /\ Order(g, k) = Order(h, k) /\ At(g, k) = At(h, k)
                           /\ Status(g, k) = IF k = n THEN "allocated" ELSE Status(h, k)
           /\ \A k \in M : ~IsUnder(g, k, n) => /\ k \in L /\ k # n
                                                /\ Left(g, k) = Left(h, k) /\ Right(g, k) = Right(h, k)
           /\ \A k \in M : IsUnder(g, k, n) /\ Inner(g, k) => Status(g, Left(g, k)) = "allocated"
           /\ \A p \in Pages : HasPage(g, n, p) <=> HasPage(h, n, p)
<1>1. n \in Nodes /\ n \in Nat /\ Width(h, n) \in Nat \ {0}
  BY NodeNumbers
<1>2. \A k \in Nodes : Order(t, k) = Order(h, k) /\ At(t, k) = At(h, k) /\ Left(t, k) = Left(h, k) /\ Right(t, k) = Right(h, k)
  BY DEF StatusSet, SameTree
<1>3. \A k \in Nodes : Status(t, k) = IF k = n THEN "allocated" ELSE Status(h, k)
  BY DEF StatusSet, SameTree
<1>4. \A k \in Nodes : \A m : IsUnder(t, m, k) <=> IsUnder(h, m, k)
  BY <1>2, SamePlaces
<1>5. \A k \in L : IsUnder(t, k, n) => k = n
  BY <1>1, <1>4 DEF TreeOK, Nested, Whole
<1>6. /\ L \subseteq M /\ \A k \in M \ L : k # n /\ IsUnder(t, k, n)
      /\ \A k \in Nodes : ~IsUnder(t, k, n) =>
             /\ Status(g, k) = Status(t, k) /\ Order(g, k) = Order(t, k)
             /\ At(g, k) = At(t, k) /\ Left(g, k) = Left(t, k) /\ Right(g, k) = Right(t, k)
      /\ Status(g, n) = "allocated" /\ Order(g, n) = Order(t, n) /\ At(g, n) = At(t, n)
      /\ \A k \in M : IsUnder(t, k, n) /\ Inner(g, k) => Status(g, Left(g, k)) = "allocated"
  BY DEF SplitPost, SameTree
<1>7. \A k \in L : k # n => ~IsUnder(t, k, n)
  BY <1>5
<1>8. \A k \in L : /\ Order(g, k) = Order(h, k) /\ At(g, k) = At(h, k)
                   /\ Status(g, k) = IF k = n THEN "allocated" ELSE Status(h, k)
  BY <1>1, <1>2, <1>3, <1>6, <1>7
<1>9. Width(g, n) = Width(h, n) /\ Behind(g, n) = Behind(h, n) /\ PageBehind(g, n) = PageBehind(h, n) /\ At(g, n) = At(h, n)
  BY <1>8 DEF Width, Behind, PageBehind
<1>10. \A k : IsUnder(g, k, n) <=> IsUnder(t, k, n)
  BY <1>1, <1>4, <1>9 DEF IsUnder
<1>11. \A p \in Pages : HasPage(g, n, p) <=> HasPage(h, n, p)
  BY <1>9 DEF HasPage
<1>12. IsUnder(t, n, n)
  BY <1>1, <1>4 DEF IsUnder, Behind
<1>13. \A k \in M : ~IsUnder(g, k, n) => /\ k \in L /\ k # n
                                         /\ Left(g, k) = Left(h, k) /\ Right(g, k) = Right(h, k)
  BY <1>2, <1>6, <1>10, <1>12
<1> QED
  BY <1>6, <1>8, <1>10, <1>11, <1>13

LEMMA KallocWorks ==
    ASSUME NEW h \in Heaps, NEW L \in SUBSET Nodes, NEW H \in SUBSET Held, StateOK(h, L, H),
           NEW size \in Sizes, CanServe(h, size)
    PROVE  LET n == ChosenNode(h, size)
               g == Split[Order(h, n)][<<Taken(h, n), n, size>>]
               new == [page |-> At(h, n), size |-> size]
           IN  /\ n \in Nodes /\ g \in Heaps /\ g.relinked = h.relinked
               /\ \E M \in SUBSET Nodes : StateOK(g, M, H \cup {new})
               /\ PagesOf(new) \subseteq Pages /\ \A b \in H : PagesOf(b) \cap PagesOf(new) = {}
<1> DEFINE n   == ChosenNode(h, size)
           t   == Taken(h, n)
           g   == Split[Order(h, n)][<<t, n, size>>]
           new == [page |-> At(h, n), size |-> size]
           A   == Cover(H)
           B   == A \cup NodePages(h, n)
<1>1. /\ TreeOK(h, L) /\ PagesOK(h, L, A) /\ ListsOK(h, L)
      /\ HeldOK(h, L, H) /\ NoFreePair(h, L)
  BY DEF StateOK
<1>2. /\ n \in L /\ n \in Nodes /\ Whole(h, n) /\ Status(h, n) = "unallocated" /\ size <= Width(h, n)
      /\ Order(h, n) = MaxOrder => n \in MaxNodes
      /\ Order(h, n) # MaxOrder => n = First(h, Order(h, n))
  BY <1>1, ChosenNodeIs
<1>3. size \in 1 .. Width(h, n) /\ size \in Nat \ {0} /\ At(h, n) \in Nat /\ At(h, n) \in Pages
  <2>1. \A i \in Sizes : i \in Nat \ {0}
    BY BuddyAssumption
  <2>2. Width(h, n) \in Nat
    BY <1>2, NodeNumbers
  <2> QED
    BY <1>2, <2>1, <2>2, NodeNumbers, FieldTypes
<1>4. /\ A \in SUBSET Pages
      /\ \A b \in H : PagesOf(b) \subseteq Pages /\ PagesOf(b) \subseteq A
  BY <1>1, CoverIsPages DEF Cover
<1> HIDE DEF n, A
<1>5. /\ t \in Heaps /\ t.relinked = h.relinked /\ StatusSet(h, t, n, "allocated")
      /\ SplitPre(t, L, B, n, size)
  BY <1>1, <1>2, <1>3, <1>4, TakenState
<1>6. PICK M : SplitPost(t, L, B, n, size, g, M)
  <2>1. B \in SUBSET Pages
    BY <1>4 DEF NodePages
  <2>2. Order(t, n) = Order(h, n) /\ size \in Nat
    BY <1>3, <1>5 DEF StatusSet
  <2> HIDE DEF t, B
  <2> QED
    BY <1>2, <1>5, <2>1, <2>2, SplitDoes
<1> HIDE DEF t, g
<1>7. /\ g \in Heaps /\ g.relinked = h.relinked /\ TreeOK(g, M) /\ ListsOK(g, M)
      /\ PagesOK(g, M, B \ Rest(t, n, size)) /\ L \subseteq M /\ M \subseteq Nodes
  BY <1>5, <1>6 DEF SplitPost, TreeOK, TopsOK
<1>8. /\ \A k \in L : /\ Order(g, k) = Order(h, k) /\ At(g, k) = At(h, k)
                      /\ Status(g, k) = IF k = n THEN "allocated" ELSE Status(h, k)
      /\ \A k \in M : ~IsUnder(g, k, n) => /\ k \in L /\ k # n
                                           /\ Left(g, k) = Left(h, k) /\ Right(g, k) = Right(h, k)
      /\ \A k \in M : IsUnder(g, k, n) /\ Inner(g, k) => Status(g, Left(g, k)) = "allocated"
      /\ \A p \in Pages : HasPage(g, n, p) <=> HasPage(h, n, p)
  <2> HIDE DEF B
  <2> QED
    BY <1>1, <1>2, <1>5, <1>6, SplitKeeps
<1>9. /\ \A p \in PagesOf(new) : p \in Pages /\ HasPage(h, n, p)
      /\ \A p \in Pages : HasPage(h, n, p) => (p \in PagesOf(new) <=> p \notin Rest(t, n, size))
      /\ \A p \in Rest(t, n, size) : HasPage(h, n, p)
      /\ \A p \in Pages : HasPage(h, n, p) => p \notin A
  <2>1. PageBehind(h, n) = At(h, n) + Width(h, n) /\ PageBehind(h, n) <= PageCount /\ PageBehind(h, n) \in Nat
        /\ Width(h, n) \in Nat
    BY <1>1, <1>2, NodeNumbers DEF TreeOK, NodeOK, PageBehind
  <2>2. Rest(t, n, size) = At(h, n) + size .. PageBehind(h, n) - 1
    BY <1>5 DEF Rest, StatusSet, PageBehind, Width
  <2>3. PagesOf(new) = At(h, n) .. At(h, n) + size - 1
    BY DEF PagesOf
  <2>4. \A p \in Pages : p \in Nat
    BY Numbers
  <2>5. \A p \in Pages : HasPage(h, n, p) => p \notin A
    BY <1>1, <1>2 DEF PagesOK
  <2> HIDE DEF new
  <2>6. PageCount \in Nat /\ Pages = 0 .. PageCount - 1
    BY Counts
  <2>7. \A p \in PagesOf(new) : p \in Pages /\ HasPage(h, n, p)
    BY <1>2, <1>3, <2>1, <2>3, <2>6 DEF HasPage
  <2>8. \A p \in Pages : HasPage(h, n, p) => (p \in PagesOf(new) <=> p \notin Rest(t, n, size))
    BY <1>2, <1>3, <2>1, <2>2, <2>3, <2>4 DEF HasPage
  <2>9. \A p \in Rest(t, n, size) : HasPage(h, n, p)
    BY <1>2, <1>3, <2>1, <2>2 DEF HasPage
  <2> QED
    BY <2>5, <2>7, <2>8, <2>9
<1>10. B \ Rest(t, n, size) = Cover(H \cup {new})
  <2>1. Cover(H \cup {new}) = A \cup PagesOf(new)
    BY DEF Cover, A
  <2>2. A \subseteq Pages
    BY <1>4
  <2> HIDE DEF new
  <2> QED
    BY <1>9, <2>1, <2>2 DEF NodePages
<1>11. HeldOK(g, M, H \cup {new})
  <2>1. ASSUME NEW b \in H \cup {new} PROVE \E r \in M : At(g, r) = b.page /\ b.size <= Width(g, r)
    <3>1. CASE b \in H
      <4>1. PICK r \in L : At(h, r) = b.page /\ b.size <= Width(h, r)
        BY <1>1, <3>1 DEF HeldOK
      <4> QED
        BY <1>7, <1>8, <4>1 DEF Width
    <3>2. CASE b = new
      <4>1. At(g, n) = new.page /\ new.size <= Width(g, n) /\ n \in M
        BY <1>2, <1>7, <1>8 DEF Width
      <4> QED
        BY <3>2, <4>1
    <3> QED
      BY <3>1, <3>2
  <2>2. ASSUME NEW b \in H PROVE PagesOf(b) \cap PagesOf(new) = {}
    BY <1>4, <1>9
  <2>3. \A b, c \in H : b # c => PagesOf(b) \cap PagesOf(c) = {}
    BY <1>1 DEF HeldOK
  <2>4. ASSUME NEW b \in H \cup {new}, NEW c \in H \cup {new}, b # c PROVE PagesOf(b) \cap PagesOf(c) = {}
    <3> HIDE DEF new
    <3> QED
      BY <2>2, <2>3, <2>4
  <2>5. ASSUME NEW k \in M, Whole(g, k), Status(g, k) = "allocated"
        PROVE  \E b \in H \cup {new} : \A p \in Pages : HasPage(g, k, p) => p \in PagesOf(b)
    <3>1. CASE ~IsUnder(g, k, n)
      <4>1. k \in L /\ k # n /\ Left(g, k) = Left(h, k) /\ Right(g, k) = Right(h, k)
        BY <1>8, <3>1
      <4>2. Whole(h, k) /\ Status(h, k) = "allocated"
        BY <1>8, <2>5, <4>1 DEF Whole, Inner
      <4>3. PICK b \in H : \A p \in Pages : HasPage(h, k, p) => p \in PagesOf(b)
        BY <1>1, <4>1, <4>2 DEF HeldOK
      <4>4. \A p \in Pages : HasPage(g, k, p) <=> HasPage(h, k, p)
        BY <1>8, <4>1 DEF HasPage, PageBehind, Width
      <4> QED
        BY <4>3, <4>4
    <3>2. CASE IsUnder(g, k, n)
      <4>1. n \in M /\ k \in Nodes
        BY <1>2, <1>7
      <4>2. At(g, n) <= At(g, k) /\ PageBehind(g, k) <= PageBehind(g, n)
        BY <1>7, <3>2, <4>1, UnderIsWithin DEF Within
      <4>3. ASSUME NEW p \in Pages, HasPage(g, k, p) PROVE p \in PagesOf(new)
        <5>1. HasPage(g, n, p)
          <6>1. p \in Nat /\ At(g, n) \in Nat /\ At(g, k) \in Nat /\ PageBehind(g, n) \in Nat /\ PageBehind(g, k) \in Nat
            BY <1>2, <1>7, <4>1, Numbers, NodeNumbers
          <6> QED
            BY <4>2, <4>3, <6>1 DEF HasPage
        <5>2. p \in B \ Rest(t, n, size)
          <6> HIDE DEF B
          <6> QED
            BY <1>7, <2>5, <4>3 DEF PagesOK
        <5> QED
          BY <1>8, <1>9, <5>1, <5>2
      <4> QED
        BY <4>3
    <3> QED
      BY <3>1, <3>2
  <2> HIDE DEF new
  <2> QED
    BY <2>1, <2>4, <2>5 DEF HeldOK
<1>12. NoFreePair(g, M)
  <2>1. SUFFICES ASSUME NEW k \in M, Inner(g, k) PROVE ~LeavesFree(g, k)
    BY DEF NoFreePair
  <2>2. CASE IsUnder(g, k, n)
    BY <1>8, <2>1, <2>2 DEF LeavesFree
  <2>3. CASE ~IsUnder(g, k, n)
    <3>1. k \in L /\ k # n /\ Left(g, k) = Left(h, k) /\ Right(g, k) = Right(h, k)
      BY <1>8, <2>3
    <3>2. Inner(h, k)
      BY <2>1, <3>1 DEF Inner
    <3>3. Left(h, k) \in L /\ Right(h, k) \in L
      BY <1>1, <3>1, <3>2, LeafPlaces
    <3>4. ~LeavesFree(h, k)
      BY <1>1, <3>1, <3>2 DEF NoFreePair
    <3> QED
      BY <1>8, <3>1, <3>3, <3>4 DEF LeavesFree
  <2> QED
    BY <2>2, <2>3
<1>13. StateOK(g, M, H \cup {new})
  <2> HIDE DEF new, B
  <2> QED
    BY <1>7, <1>10, <1>11, <1>12 DEF StateOK
<1>14. PagesOf(new) \subseteq Pages /\ \A b \in H : PagesOf(b) \cap PagesOf(new) = {}
  BY <1>4, <1>9
<1> QED
  BY <1>2, <1>7, <1>13, <1>14 DEF n, t, g

-----------------------------------------------------------------------------
(* kfree() keeps the invariant unless it relinks a node.                     *)

\* A node of the highest order lies under no other.
LEMMA TopIsTop ==
    ASSUME NEW h \in Heaps, NEW L, TreeOK(h, L), NEW m \in MaxNodes, NEW n \in L, IsUnder(h, m, n)
    PROVE  m = n
<1>1. m \in L /\ m \in Nodes /\ n \in Nodes /\ Order(h, m) = MaxOrder
  BY Numbers DEF TreeOK, TopsOK, MaxNodes
<1>2. /\ m \in Nat /\ n \in Nat /\ Width(h, m) \in Nat \ {0} /\ Width(h, n) \in Nat \ {0}
      /\ Behind(h, m) = m + 2 * Width(h, m) - 1 /\ Behind(h, n) = n + 2 * Width(h, n) - 1
  BY <1>1, NodeNumbers DEF Behind
<1>3. Width(h, n) <= Width(h, m)
  <2>1. Order(h, n) \in Orders /\ Order(h, n) <= MaxOrder /\ MaxOrder \in Orders
    BY <1>1, FieldTypes, BuddyAssumption DEF Orders
  <2> QED
    BY <1>1, <2>1, TypeGrows DEF Width
<1>4. n <= m /\ Behind(h, m) <= Behind(h, n)
  BY <1>1, UnderIsWithin DEF Within
<1> QED
  BY <1>2, <1>3, <1>4

LEMMA UnderThrough ==
    ASSUME NEW h \in Heaps, NEW L, TreeOK(h, L), NEW n \in L, NEW m \in L, IsUnder(h, m, n), NEW k \in Nodes, IsUnder(h, k, m)
    PROVE  IsUnder(h, k, n)
<1>1. Within(h, m, n) /\ m \in Nodes /\ n \in Nodes
  BY UnderIsWithin DEF TreeOK, TopsOK
<1>2. k \in Nat /\ m \in Nat /\ n \in Nat /\ Behind(h, m) \in Nat /\ Behind(h, n) \in Nat
  BY <1>1, NodeNumbers
<1> QED
  BY <1>1, <1>2 DEF IsUnder, Within

\* The pages of a block that is freed are whole pieces below its root.
LEMMA FreePre ==
    ASSUME NEW h \in Heaps, NEW L \in SUBSET Nodes, NEW H \in SUBSET Held, StateOK(h, L, H),
           NEW b \in H, NEW z \in L, At(h, z) = b.page, b.size <= Width(h, z)
    PROVE  /\ MergePre(h, L, Cover(H), z, At(h, z) + b.size)
           /\ Cover(H) \ Front(h, z, At(h, z) + b.size) = Cover(H \ {b})
<1> DEFINE A == Cover(H)
           c == At(h, z) + b.size
<1>1. /\ TreeOK(h, L) /\ PagesOK(h, L, A) /\ ListsOK(h, L) /\ HeldOK(h, L, H)
  BY DEF StateOK
<1>2. /\ b.page \in Nat /\ b.size \in Nat \ {0}
      /\ \A p \in Pages : p \in PagesOf(b) <=> b.page <= p /\ p < c
      /\ PagesOf(b) \subseteq Pages
  BY <1>1, CoverIsPages
<1>3. /\ z \in Nodes /\ At(h, z) \in Nat /\ Width(h, z) \in Nat \ {0}
      /\ PageBehind(h, z) = At(h, z) + Width(h, z)
  BY NodeNumbers DEF PageBehind
<1>4. \A p \in Pages : p \in Nat
  BY Numbers
<1>5. Front(h, z, c) = PagesOf(b)
  <2>1. ASSUME NEW p \in Pages PROVE p \in Front(h, z, c) <=> p \in PagesOf(b)
    BY <1>2, <1>3, <1>4 DEF Front, HasPage
  <2>2. Front(h, z, c) \subseteq Pages
    BY DEF Front
  <2> QED
    BY <1>2, <2>1, <2>2
<1>6. PagesOf(b) \subseteq A
  BY DEF Cover
<1>7. A \ PagesOf(b) = Cover(H \ {b})
  <2>1. \A d \in H \ {b} : PagesOf(d) \cap PagesOf(b) = {}
    BY <1>1 DEF HeldOK
  <2> QED
    BY <2>1 DEF Cover
<1>8. Clean(h, L, z, c)
  <2>1. SUFFICES ASSUME NEW k \in L, IsUnder(h, k, z), Whole(h, k), At(h, k) < c
                 PROVE  PageBehind(h, k) <= c
    BY DEF Clean
  <2>2. /\ k \in Nodes /\ At(h, k) \in Pages /\ At(h, k) \in Nat /\ Width(h, k) \in Nat \ {0}
        /\ PageBehind(h, k) = At(h, k) + Width(h, k) /\ PageBehind(h, k) <= PageCount
    BY <1>1, NodeNumbers, FieldTypes DEF PageBehind, TreeOK, NodeOK
  <2>3. At(h, z) <= At(h, k)
    BY <1>1, <2>1, UnderIsWithin DEF Within
  <2>4. At(h, k) \in PagesOf(b) /\ HasPage(h, k, At(h, k))
    BY <1>2, <2>1, <2>2, <2>3 DEF HasPage
  <2>5. Status(h, k) = "allocated"
    BY <1>1, <1>6, <2>1, <2>2, <2>4 DEF PagesOK
  <2>6. PICK d \in H : \A p \in Pages : HasPage(h, k, p) => p \in PagesOf(d)
    BY <1>1, <2>1, <2>5 DEF HeldOK
  <2>7. d = b
    <3>1. At(h, k) \in PagesOf(d) \cap PagesOf(b)
      BY <2>2, <2>4, <2>6
    <3> QED
      BY <1>1, <3>1 DEF HeldOK
  <2>8. PageBehind(h, k) - 1 \in Pages /\ HasPage(h, k, PageBehind(h, k) - 1)
    BY <2>2, Counts DEF HasPage
  <2>9. PageBehind(h, k) - 1 < c
    BY <1>2, <2>6, <2>7, <2>8
  <2> QED
    BY <1>2, <1>3, <2>2, <2>9
<1>9. MergePre(h, L, A, z, c)
  BY <1>1, <1>5, <1>6, <1>8 DEF MergePre
<1> QED
  BY <1>5, <1>7, <1>9

\* Both merges of kfree(), one after the other.
FreedOf(h, z, b)    == MergeBnode[Order(h, z)][<<h, z, b.size>>]
MergedOf(f, high)   == MergeBnodeNolimit[MaxOrder][<<f, high>>]
RootOf(h, L, z, b, high) ==
    z \in L /\ IsUnder(h, z, high) /\ At(h, z) = b.page /\ b.size <= Width(h, z)

BothMerged(h, L, H, z, b, high, f, K, e, M) ==
    Merged(h, L, z, Cover(H \ {b}), f, K) /\ MergedAll(f, K, high, Cover(H \ {b}), e, M)

LEMMA MergesDo ==
    ASSUME NEW h \in Heaps, NEW L \in SUBSET Nodes, NEW H \in SUBSET Held, StateOK(h, L, H),
           NEW b \in H, NEW high \in MaxNodes, NEW z \in Nodes, RootOf(h, L, z, b, high)
    PROVE  \E K, M : BothMerged(h, L, H, z, b, high, FreedOf(h, z, b), K, MergedOf(FreedOf(h, z, b), high), M)
<1> DEFINE f == FreedOf(h, z, b)
           e == MergedOf(f, high)
           B == Cover(H \ {b})
           A == Cover(H)
<1>1. TreeOK(h, L) /\ HeldOK(h, L, H)
  BY DEF StateOK
<1>2. A \in SUBSET Pages /\ B \in SUBSET Pages /\ b.size \in Nat \ {0}
  BY <1>1, CoverIsPages DEF Cover
<1>3. PICK K : Merged(h, L, z, B, f, K)
  <2>1. MergePre(h, L, A, z, At(h, z) + b.size) /\ A \ Front(h, z, At(h, z) + b.size) = B
    BY FreePre DEF RootOf
  <2> HIDE DEF A, B
  <2>2. PICK K : Merged(h, L, z, A \ Front(h, z, At(h, z) + b.size), f, K)
    BY <1>2, <2>1, MergeBnodeDoes DEF FreedOf
  <2> QED
    BY <2>1, <2>2
<1> HIDE DEF f, B
<1>4. /\ f \in Heaps /\ K \in SUBSET Nodes /\ TreeOK(f, K) /\ PagesOK(f, K, B)
      /\ (~f.relinked => ListsOK(f, K))
  BY <1>3 DEF Merged
<1>5. high \in K /\ high \in Nodes /\ Order(f, high) = MaxOrder
  BY <1>4, Numbers DEF TreeOK, TopsOK, MaxNodes
<1>6. NolimitPre(f, K, B, high)
  BY <1>4, <1>5 DEF NolimitPre
<1>7. PICK M : MergedAll(f, K, high, B, e, M)
  BY <1>2, <1>4, <1>5, <1>6, NolimitDoes DEF MergedOf
<1> QED
  BY <1>3, <1>7 DEF BothMerged, f, B

\* What the two merges leave is as it should be.
LEMMA MergesKeep ==
    ASSUME NEW h \in Heaps, NEW L \in SUBSET Nodes, NEW H \in SUBSET Held, StateOK(h, L, H),
           NEW b \in H, NEW high \in MaxNodes, NEW z \in Nodes, RootOf(h, L, z, b, high),
           NEW f, NEW K, NEW e, NEW M, BothMerged(h, L, H, z, b, high, f, K, e, M)
    PROVE  HeldOK(e, M, H \ {b}) /\ NoFreePair(e, M)
<1> DEFINE B == Cover(H \ {b})
<1>1. Merged(h, L, z, B, f, K) /\ MergedAll(f, K, high, B, e, M) /\ Merged(f, K, high, B, e, M)
  BY DEF BothMerged, MergedAll
<1>2. TreeOK(h, L) /\ HeldOK(h, L, H) /\ NoFreePair(h, L) /\ high \in L /\ high \in Nodes
  BY Numbers DEF StateOK, TreeOK, TopsOK
<1>3. z \in L /\ IsUnder(h, z, high)
  BY DEF RootOf
<1>4. \A k \in Nodes : /\ Order(f, k) = Order(h, k) /\ At(f, k) = At(h, k)
                       /\ Order(e, k) = Order(h, k) /\ At(e, k) = At(h, k)
  BY <1>1 DEF Merged
<1>5. \A k \in Nodes : /\ \A p : HasPage(f, k, p) <=> HasPage(h, k, p)
                       /\ \A m : IsUnder(f, m, k) <=> IsUnder(h, m, k)
                       /\ Width(f, k) = Width(h, k)
  BY <1>4, SamePlaces
<1>6. \A k \in Nodes : /\ \A p : HasPage(e, k, p) <=> HasPage(h, k, p)
                       /\ \A m : IsUnder(e, m, k) <=> IsUnder(h, m, k)
                       /\ Width(e, k) = Width(h, k)
  BY <1>4, SamePlaces
<1>7. /\ K \subseteq L /\ M \subseteq K /\ TreeOK(e, M) /\ PagesOK(e, M, B) /\ e \in Heaps
      /\ \A k \in L \ K : \A p \in Pages : HasPage(h, k, p) => p \notin B
      /\ \A k \in K \ M : \A p \in Pages : HasPage(f, k, p) => p \notin B
      /\ \A k \in K : Whole(f, k) /\ Status(f, k) = "allocated" => Whole(h, k) /\ Status(h, k) = "allocated"
      /\ \A k \in M : Whole(e, k) /\ Status(e, k) = "allocated" => Whole(f, k) /\ Status(f, k) = "allocated"
  BY <1>1 DEF Merged
<1>8. \A d \in H : /\ d.page \in Pages /\ d.page \in Nat /\ d.page \in PagesOf(d) /\ d.size \in Nat \ {0}
  BY <1>2, CoverIsPages
<1>9. \A k \in Nodes : At(h, k) \in Pages /\ HasPage(h, k, At(h, k))
  <2>1. TAKE k \in Nodes
  <2>2. At(h, k) \in Nat /\ Width(h, k) \in Nat \ {0}
    BY NodeNumbers
  <2> QED
    BY <2>2, FieldTypes DEF HasPage, PageBehind
<1>10. ASSUME NEW d \in H \ {b} PROVE \E r \in M : At(e, r) = d.page /\ d.size <= Width(e, r)
  <2>1. PICK r \in L : At(h, r) = d.page /\ d.size <= Width(h, r)
    BY <1>2 DEF HeldOK
  <2>2. d.page \in B /\ HasPage(h, r, d.page) /\ d.page \in Pages /\ HasPage(f, r, d.page)
    BY <1>5, <1>8, <1>9, <2>1 DEF Cover
  <2>3. r \in M
    <3> HIDE DEF B
    <3> QED
      BY <1>7, <2>1, <2>2
  <2> QED
    BY <1>4, <1>6, <2>1, <2>3
<1>11. ASSUME NEW k \in M, Whole(e, k), Status(e, k) = "allocated"
       PROVE  \E d \in H \ {b} : \A p \in Pages : HasPage(e, k, p) => p \in PagesOf(d)
  <2>1. k \in L /\ k \in Nodes /\ Whole(h, k) /\ Status(h, k) = "allocated"
    BY <1>7, <1>11
  <2>2. PICK d \in H : \A p \in Pages : HasPage(h, k, p) => p \in PagesOf(d)
    BY <1>2, <2>1 DEF HeldOK
  <2>3. At(h, k) \in Pages /\ HasPage(h, k, At(h, k)) /\ HasPage(e, k, At(h, k))
    BY <1>6, <1>9, <2>1
  <2>4. At(h, k) \in B
    <3> HIDE DEF B
    <3> QED
      BY <1>7, <1>11, <2>3 DEF PagesOK
  <2>5. PICK d2 \in H \ {b} : At(h, k) \in PagesOf(d2)
    BY <2>4 DEF Cover
  <2>6. d = d2
    <3>1. At(h, k) \in PagesOf(d) \cap PagesOf(d2)
      BY <2>2, <2>3, <2>5
    <3> QED
      BY <1>2, <3>1 DEF HeldOK
  <2> QED
    BY <1>6, <2>1, <2>2, <2>6
<1>12. HeldOK(e, M, H \ {b})
  <2>1. \A c, d \in H : c # d => PagesOf(c) \cap PagesOf(d) = {}
    BY <1>2 DEF HeldOK
  <2> QED
    BY <1>10, <1>11, <2>1 DEF HeldOK
<1>13. ASSUME NEW k \in M, Inner(e, k) PROVE ~LeavesFree(e, k)
  <2>1. k \in L /\ k \in K /\ k \in Nodes
    BY <1>7
  <2>2. CASE IsUnder(h, k, high)
    BY <1>1, <1>2, <1>5, <1>13, <2>2 DEF MergedAll
  <2>3. CASE ~IsUnder(h, k, high)
    <3>1. \A m \in Nodes : ~IsUnder(h, m, high) => ~IsUnder(h, m, z)
      BY <1>2, <1>3, UnderThrough
    <3>2. \A m \in Nodes : ~IsUnder(h, m, high) =>
             Status(e, m) = Status(h, m) /\ Left(e, m) = Left(h, m) /\ Right(e, m) = Right(h, m)
      BY <1>1, <1>2, <1>5, <3>1 DEF Merged, SameTree
    <3>3. Inner(h, k) /\ Left(e, k) = Left(h, k) /\ Right(e, k) = Right(h, k)
      BY <1>13, <2>1, <2>3, <3>2 DEF Inner
    <3>4. ASSUME NEW c \in {Left(h, k), Right(h, k)} PROVE c \in Nodes /\ ~IsUnder(h, c, high)
      <4>1. c \in Nodes /\ c \in Nat /\ IsUnder(h, c, k)
        BY <1>2, <2>1, <3>3, LeavesApart, Numbers
      <4>2. SUFFICES ASSUME IsUnder(h, c, high) PROVE FALSE
        BY <4>1
      <4>3. IsUnder(h, high, k)
        BY <1>2, <2>1, <2>3, <4>1, <4>2, UnderOrOver
      <4>4. high = k
        BY <1>2, <2>1, <4>3, TopIsTop
      <4> QED
        BY <1>2, <2>3, <4>2, <4>3, <4>4
    <3>5. ~LeavesFree(h, k)
      BY <1>2, <2>1, <3>3 DEF NoFreePair
    <3> QED
      BY <3>2, <3>3, <3>4, <3>5 DEF LeavesFree
  <2> QED
    BY <2>2, <2>3
<1> QED
  BY <1>12, <1>13 DEF NoFreePair

HighOf(b)    == MaxNode(1 + b.page \div Type[MaxOrder])
FoundOf(h, b) == RootFrom[MaxOrder][<<h, HighOf(b), b.page>>]

LEMMA RootIs ==
    ASSUME NEW h \in Heaps, NEW L \in SUBSET Nodes, NEW H \in SUBSET Held, StateOK(h, L, H), NEW b \in H
    PROVE  HighOf(b) \in MaxNodes /\ FoundOf(h, b) \in Nodes /\ RootOf(h, L, FoundOf(h, b), b, HighOf(b))
<1> DEFINE high == HighOf(b)
           z    == FoundOf(h, b)
<1>1. TreeOK(h, L) /\ HeldOK(h, L, H)
  BY DEF StateOK
<1>2. PICK r \in L : At(h, r) = b.page /\ b.size <= Width(h, r)
  BY <1>1 DEF HeldOK
<1>3. /\ high \in MaxNodes /\ high \in L /\ high \in Nodes /\ IsUnder(h, r, high)
      /\ Order(h, high) = MaxOrder
  BY <1>1, <1>2, TopOf DEF HighOf
<1>4. b.page \in Pages /\ r \in Nodes
  BY DEF Held
<1>5. z = RootFrom[Order(h, high)][<<h, high, b.page>>]
  BY <1>3 DEF FoundOf
<1> HIDE DEF high, z
<1>6. RootPre(h, L, high, r, b.page)
  BY <1>1, <1>2, <1>3 DEF RootPre
<1>7. RootPost(h, L, high, r, z)
  BY <1>3, <1>4, <1>5, <1>6, RootDoes
<1>8. z \in L /\ z \in Nodes /\ IsUnder(h, z, high) /\ At(h, z) = b.page /\ Width(h, r) <= Width(h, z)
  BY <1>2, <1>7 DEF RootPost
<1>9. b.size <= Width(h, z)
  <2>1. b.size \in Nat
    BY <1>1, CoverIsPages
  <2>2. Width(h, r) \in Nat /\ Width(h, z) \in Nat
    BY <1>4, <1>8, NodeNumbers
  <2> QED
    BY <1>2, <1>8, <2>1, <2>2
<1> QED
  BY <1>3, <1>8, <1>9 DEF RootOf, high, z

\* The root of the freed block goes to the free list of its order if it is
\* still a node and not one of the highest order.
LEMMA RootPushed ==
    ASSUME NEW h \in Heaps, NEW L \in SUBSET Nodes, NEW H \in SUBSET Held, StateOK(h, L, H),
           NEW b \in H, NEW high \in MaxNodes, NEW z \in Nodes, RootOf(h, L, z, b, high),
           NEW f, NEW K, NEW e, NEW M, BothMerged(h, L, H, z, b, high, f, K, e, M),
           ~e.relinked, z # high, Status(e, z) = "unallocated"
    PROVE  ListsOK(PushFirst(e, z), M)
<1> DEFINE B == Cover(H \ {b})
<1>1. Merged(h, L, z, B, f, K) /\ MergedAll(f, K, high, B, e, M) /\ Merged(f, K, high, B, e, M)
  BY DEF BothMerged, MergedAll
<1>2. TreeOK(h, L) /\ PagesOK(h, L, Cover(H)) /\ ListsOK(h, L) /\ HeldOK(h, L, H) /\ high \in L
  BY DEF StateOK, TreeOK, TopsOK
<1>3. z \in L /\ IsUnder(h, z, high) /\ At(h, z) = b.page
  BY DEF RootOf
<1>4. z \in Low
  BY <1>2, <1>3, TopIsTop DEF Low
<1>5. z \in K
  BY <1>1, <1>3 DEF Merged
<1>6. z \in M
  <2>1. \A k \in K \ M : Status(e, k) = "nonode"
    BY <1>1 DEF MergedAll
  <2>2. Status(e, z) # "nonode"
    OBVIOUS
  <2> QED
    BY <1>5, <2>1, <2>2
<1>7. e \in Heaps /\ TreeOK(e, M) /\ ListsOK(e, M) /\ ~f.relinked /\ (\A k \in Low : Linked(e, k) => Linked(f, k))
  BY <1>1 DEF Merged
<1>8. \A k \in Low : Linked(f, k) => Linked(h, k)
  BY <1>1, <1>7 DEF Merged
<1>9. ~Linked(h, z)
  <2>1. SUFFICES ASSUME Linked(h, z) PROVE FALSE
    OBVIOUS
  <2>2. Whole(h, z) /\ Status(h, z) = "unallocated"
    BY <1>2, <1>4, <2>1 DEF ListsOK
  <2>3. b.page \in Pages /\ HasPage(h, z, b.page)
    <3>1. At(h, z) \in Nat /\ Width(h, z) \in Nat \ {0} /\ At(h, z) \in Pages
      BY NodeNumbers, FieldTypes
    <3> QED
      BY <1>3, <3>1 DEF HasPage, PageBehind
  <2>4. b.page \in Cover(H)
    BY <1>2, CoverIsPages DEF Cover
  <2> HIDE DEF B
  <2> QED
    BY <1>2, <1>3, <2>2, <2>3, <2>4 DEF PagesOK
<1>10. ~Linked(e, z)
  BY <1>4, <1>7, <1>8, <1>9
<1>11. Whole(e, z) /\ Order(e, z) # MaxOrder
  <2>1. Inner(e, z) => Status(e, z) = "allocated"
    BY <1>6, <1>7 DEF TreeOK, NodeOK, LeavesFit
  <2>2. Order(e, z) < MaxOrder /\ Order(e, z) \in Nat
    BY <1>4, <1>6, <1>7, NodeNumbers DEF TreeOK, TopsOK, Low
  <2>3. ~("unallocated" = "allocated")
    OBVIOUS
  <2> QED
    BY <2>1, <2>2, <2>3, BuddyAssumption DEF Whole
<1> QED
  BY <1>4, <1>6, <1>7, <1>10, <1>11, PushFirstLists

\* An equal tree.
LEMMA StateSame ==
    ASSUME NEW e \in Heaps, NEW g \in Heaps, NEW M \in SUBSET Nodes, NEW H,
           TreeOK(e, M), PagesOK(e, M, Cover(H)), HeldOK(e, M, H), NoFreePair(e, M),
           SameTree(e, g, Nodes), ListsOK(g, M)
    PROVE  StateOK(g, M, H)
<1>1. TreeOK(g, M) /\ PagesOK(g, M, Cover(H))
  BY TreeSame, PagesSame
<1>2. \A k \in Nodes : /\ Order(g, k) = Order(e, k) /\ At(g, k) = At(e, k) /\ Status(g, k) = Status(e, k)
                       /\ Left(g, k) = Left(e, k) /\ Right(g, k) = Right(e, k)
                       /\ (Whole(g, k) <=> Whole(e, k)) /\ (Inner(g, k) <=> Inner(e, k))
  BY DEF SameTree, Whole, Inner
<1>3. \A k \in Nodes : Width(g, k) = Width(e, k) /\ \A p : HasPage(g, k, p) <=> HasPage(e, k, p)
  BY <1>2, SamePlaces
<1>4. HeldOK(g, M, H)
  <2>1. \A b \in H : \E r \in M : At(g, r) = b.page /\ b.size <= Width(g, r)
    BY <1>2, <1>3 DEF HeldOK
  <2>2. \A n \in M : Whole(g, n) /\ Status(g, n) = "allocated" =>
           \E b \in H : \A p \in Pages : HasPage(g, n, p) => p \in PagesOf(b)
    BY <1>2, <1>3 DEF HeldOK
  <2> QED
    BY <2>1, <2>2 DEF HeldOK
<1>5. NoFreePair(g, M)
  <2>1. \A n \in M : Inner(e, n) => Left(e, n) \in Nodes /\ Right(e, n) \in Nodes
    BY LeafPlaces
  <2> QED
    BY <1>2, <2>1 DEF NoFreePair, LeavesFree
<1> QED
  BY <1>1, <1>4, <1>5 DEF StateOK

\* The heap kfree() leaves.
KfreeHeap(h, b) ==
    LET z == FoundOf(h, b)
        e == MergedOf(FreedOf(h, z, b), HighOf(b))
    IN  IF z # HighOf(b) /\ Status(e, z) = "unallocated" THEN PushFirst(e, z) ELSE e

LEMMA KfreeWorks ==
    ASSUME NEW h \in Heaps, NEW L \in SUBSET Nodes, NEW H \in SUBSET Held, StateOK(h, L, H), NEW b \in H,
           ~KfreeHeap(h, b).relinked
    PROVE  KfreeHeap(h, b) \in Heaps /\ \E M \in SUBSET Nodes : StateOK(KfreeHeap(h, b), M, H \ {b})
<1> DEFINE z    == FoundOf(h, b)
           high == HighOf(b)
           f    == FreedOf(h, z, b)
           e    == MergedOf(f, high)
           g    == KfreeHeap(h, b)
<1>1. high \in MaxNodes /\ z \in Nodes /\ RootOf(h, L, z, b, high)
  BY RootIs
<1>2. g = IF z # high /\ Status(e, z) = "unallocated" THEN PushFirst(e, z) ELSE e
  BY DEF KfreeHeap
<1>3. ~g.relinked
  OBVIOUS
<1> HIDE DEF z, high, g
<1>4. PICK K, M : BothMerged(h, L, H, z, b, high, f, K, e, M)
  BY <1>1, MergesDo
<1> HIDE DEF f, e
<1>5. HeldOK(e, M, H \ {b}) /\ NoFreePair(e, M)
  BY <1>1, <1>4, MergesKeep
<1>6. /\ e \in Heaps /\ TreeOK(e, M) /\ PagesOK(e, M, Cover(H \ {b})) /\ M \in SUBSET Nodes
      /\ (~e.relinked => ListsOK(e, M))
  BY <1>4 DEF BothMerged, MergedAll, Merged, TreeOK, TopsOK
<1>7. g \in Heaps /\ SameTree(e, g, Nodes) /\ g.relinked = e.relinked
  <2>1. PushFirst(e, z) \in Heaps /\ SameTree(e, PushFirst(e, z), Nodes) /\ PushFirst(e, z).relinked = e.relinked
    BY <1>1, <1>6, PushFirstDoes
  <2>2. SameTree(e, e, Nodes)
    BY DEF SameTree
  <2> QED
    BY <1>2, <1>6, <2>1, <2>2
<1>8. ListsOK(g, M)
  <2>1. ~e.relinked
    BY <1>3, <1>7
  <2>2. CASE z # high /\ Status(e, z) = "unallocated"
    <3>1. ListsOK(PushFirst(e, z), M)
      BY <1>1, <1>4, <2>1, <2>2, RootPushed
    <3> QED
      BY <1>2, <2>2, <3>1
  <2>3. CASE ~(z # high /\ Status(e, z) = "unallocated")
    BY <1>2, <1>6, <2>1, <2>3
  <2> QED
    BY <2>2, <2>3
<1>9. StateOK(g, M, H \ {b})
  BY <1>5, <1>6, <1>7, <1>8, StateSame
<1> QED
  BY <1>6, <1>7, <1>9 DEF g

-----------------------------------------------------------------------------
(* The initial state: whole blocks of the highest order.                     *)

\* Products of numbers, and intervals of k numbers that follow one another.
LEMMA Intervals ==
    ASSUME NEW k \in Nat \ {0}, NEW c \in Nat, NEW d \in Nat, c < d
    PROVE  c * k \in Nat /\ d * k \in Nat /\ c * k + k <= d * k
<1>1. PICK e \in Nat : d = c + 1 + e
  <2>1. d - c - 1 \in Nat /\ d = c + 1 + (d - c - 1)
    OBVIOUS
  <2> QED
    BY <2>1
<1>2. d * k = c * k + k + e * k /\ e * k \in Nat /\ c * k \in Nat
  BY <1>1, SMT
<1> QED
  BY <1>2

\* The nodes of the highest order.
LEMMA MaxNodeFacts ==
    ASSUME NEW b \in 1 .. Blocks
    PROVE  LET n == MaxNode(b)
               c == b - 1
               k == NodesPerBlock
               w == Type[MaxOrder]
           IN  /\ c \in Nat /\ k \in Nat \ {0} /\ w \in Nat \ {0} /\ k = 2 * w - 1
               /\ c * k \in Nat /\ c * w \in Nat
               /\ n \in MaxNodes /\ n = 1 + c * k /\ c * k + k <= NodeCount
               /\ MaxAddress(n) = c * w /\ c * w + w <= PageCount /\ c * w \in Pages
<1> DEFINE c == b - 1
           k == NodesPerBlock
           w == Type[MaxOrder]
<1>1. c \in Nat /\ c < Blocks /\ Blocks \in Nat /\ k \in Nat \ {0} /\ w \in Nat \ {0}
  BY Numbers, TypeOfOrder, BuddyAssumption DEF Orders
<1>2. k = 2 * w - 1
  BY DEF NodesPerBlock
<1>3. MaxNode(b) = 1 + c * k /\ MaxNode(b) \in MaxNodes
  BY DEF MaxNode, MaxNodes
<1>4. MaxAddress(MaxNode(b)) = ((MaxNode(b) - 1) \div k) * w
  BY DEF MaxAddress
<1>5. NodeCount = Blocks * k /\ PageCount = Blocks * w
  BY DEF NodeCount, PageCount
<1> HIDE DEF c, k, w
<1>6. c * k \in Nat /\ c * k + k <= NodeCount
  BY <1>1, <1>5, Intervals
<1>7. c * w \in Nat /\ c * w + w <= PageCount
  BY <1>1, <1>5, Intervals
<1>8. (c * k) \div k = c
  <2> DEFINE a == c * k
  <2>1. a \in Nat /\ c * k <= a /\ a < c * k + k
    BY <1>1, <1>6
  <2> HIDE DEF a
  <2>2. a \div k = c
    BY <1>1, <2>1, Quotient
  <2> QED
    BY <2>2 DEF a
<1>9. MaxNode(b) - 1 = c * k
  BY <1>3, <1>6
<1>10. MaxAddress(MaxNode(b)) = c * w
  BY <1>4, <1>8, <1>9
<1>11. c * w \in Pages
  BY <1>1, <1>7, Counts
<1> QED
  BY <1>1, <1>2, <1>3, <1>6, <1>7, <1>10, <1>11 DEF c, k, w

\* The heap of the initial state.
LEMMA InitHeap ==
    ASSUME Init
    PROVE  /\ TypeOK /\ Heap \in Heaps /\ held = {}
           /\ \A n \in MaxNodes : /\ Status(Heap, n) = "unallocated" /\ Order(Heap, n) = MaxOrder
                                  /\ At(Heap, n) = MaxAddress(n)
           /\ \A n \in Nodes : Left(Heap, n) = Null /\ Right(Heap, n) = Null
           /\ \A n \in Low : Order(Heap, n) = 0 /\ NextOf(Heap, n) = Null /\ PrevOf(Heap, n) = Null
           /\ \A o \in Orders : First(Heap, o) = IF o = MaxOrder THEN MaxNode(1) ELSE Null
<1> DEFINE Next1(n) == IF n + NodesPerBlock \in Nodes THEN n + NodesPerBlock ELSE Null
           Prev1(n) == IF n > NodesPerBlock THEN n - NodesPerBlock ELSE Null
           Rec(n)   == IF n \in MaxNodes
                       THEN [InitBnode("unallocated", MaxOrder, MaxAddress(n))
                               EXCEPT !.next = Next1(n), !.prev = Prev1(n)]
                       ELSE InitBnode("nonode", 0, 0)
<1>1. node = [n \in Nodes |-> Rec(n)]
  BY DEF Init
<1>2. ASSUME NEW n \in Nodes PROVE Next1(n) \in Links /\ Prev1(n) \in Links
  <2>1. n \in Nat /\ n <= NodeCount /\ NodeCount \in Nat /\ Nodes = 1 .. NodeCount
    BY Counts
  <2> QED
    BY <2>1, Numbers DEF Links
<1> HIDE DEF Next1, Prev1
<1>3. 0 \in Orders /\ MaxOrder \in Orders /\ 0 \in Pages
  <2>1. 1 \in 1 .. Blocks
    BY BuddyAssumption
  <2>2. PageCount \in Nat \ {0}
    BY <2>1, MaxNodeFacts, Counts
  <2> QED
    BY <2>2, Counts, BuddyAssumption DEF Orders
<1>4. ASSUME NEW n \in MaxNodes
      PROVE  /\ Rec(n) \in NodeRecords
             /\ Rec(n).status = "unallocated" /\ Rec(n).order = MaxOrder /\ Rec(n).address = MaxAddress(n)
             /\ Rec(n).left = Null /\ Rec(n).right = Null
  <2>1. n \in Nodes
    BY Numbers
  <2>2. MaxAddress(n) \in Pages
    <3>1. PICK b \in 1 .. Blocks : n = MaxNode(b)
      BY DEF MaxNodes
    <3> QED
      BY <3>1, MaxNodeFacts
  <2>3. Rec(n) = [status |-> "unallocated", order |-> MaxOrder, address |-> MaxAddress(n),
                  next |-> Next1(n), prev |-> Prev1(n), left |-> Null, right |-> Null]
    BY DEF InitBnode
  <2> HIDE DEF Rec
  <2> QED
    BY <1>2, <1>3, <2>1, <2>2, <2>3, Numbers DEF NodeRecords
<1>5. ASSUME NEW n \in Low
      PROVE  /\ Rec(n) \in NodeRecords /\ Rec(n).order = 0
             /\ Rec(n).left = Null /\ Rec(n).right = Null /\ Rec(n).next = Null /\ Rec(n).prev = Null
  <2>1. Rec(n) = [status |-> "nonode", order |-> 0, address |-> 0,
                  next |-> Null, prev |-> Null, left |-> Null, right |-> Null]
    BY DEF InitBnode, Low
  <2> HIDE DEF Rec
  <2> QED
    BY <1>3, <2>1, Numbers DEF NodeRecords
<1> HIDE DEF Rec
<1>6. \A n \in Nodes : n \in MaxNodes \/ n \in Low
  BY DEF Low
<1>7. node \in [Nodes -> NodeRecords] /\ \A n \in Nodes : node[n] = Rec(n)
  BY <1>1, <1>4, <1>5, <1>6
<1>8. /\ first \in [Orders -> Links]
      /\ \A o \in Orders : first[o] = IF o = MaxOrder THEN MaxNode(1) ELSE Null
  <2>1. MaxNode(1) \in Links
    <3>1. 1 \in 1 .. Blocks
      BY BuddyAssumption
    <3>2. MaxNode(1) \in MaxNodes
      BY <3>1, MaxNodeFacts
    <3> QED
      BY <3>2, Numbers
  <2> QED
    BY <2>1, Numbers DEF Init
<1>9. held = {} /\ relinked = FALSE
  BY DEF Init
<1>10. TypeOK /\ Heap \in Heaps /\ Heap.node = node /\ Heap.first = first
  BY <1>7, <1>8, <1>9 DEF TypeOK, Heap, Heaps
<1> QED
  BY <1>4, <1>5, <1>6, <1>7, <1>8, <1>9, <1>10, Numbers
     DEF Status, Order, At, Left, Right, NextOf, PrevOf, First, Low

LEMMA InitState ==
    ASSUME Init
    PROVE  TypeOK /\ \E L \in SUBSET Nodes : StateOK(Heap, L, held)
<1> DEFINE h == Heap
           L == MaxNodes
           k == NodesPerBlock
           w == Type[MaxOrder]
<1>1. /\ TypeOK /\ h \in Heaps /\ held = {}
      /\ \A n \in L : /\ Status(h, n) = "unallocated" /\ Order(h, n) = MaxOrder
                      /\ At(h, n) = MaxAddress(n)
      /\ \A n \in Nodes : Left(h, n) = Null /\ Right(h, n) = Null
      /\ \A n \in Low : Order(h, n) = 0 /\ NextOf(h, n) = Null /\ PrevOf(h, n) = Null
      /\ \A o \in Orders : First(h, o) = IF o = MaxOrder THEN MaxNode(1) ELSE Null
  BY InitHeap
<1>2. L \subseteq Nodes /\ Null \notin Nodes
  BY Numbers
<1> HIDE DEF h
<1>3. ASSUME NEW b \in 1 .. Blocks
      PROVE  LET n == MaxNode(b)
                 c == b - 1
             IN  /\ n \in L /\ n \in Nodes /\ c \in Nat /\ k \in Nat \ {0} /\ w \in Nat \ {0}
                 /\ c * k \in Nat /\ c * w \in Nat
                 /\ n = 1 + c * k /\ At(h, n) = c * w
                 /\ Behind(h, n) = 1 + c * k + k /\ Behind(h, n) <= NodeCount + 1
                 /\ PageBehind(h, n) = c * w + w /\ PageBehind(h, n) <= PageCount
  <2> DEFINE n == MaxNode(b)
             c == b - 1
             e == c * k
             d == c * w
  <2>1. /\ c \in Nat /\ k \in Nat \ {0} /\ w \in Nat \ {0} /\ k = 2 * w - 1
        /\ e \in Nat /\ d \in Nat
        /\ n \in MaxNodes /\ n = 1 + e /\ e + k <= NodeCount
        /\ MaxAddress(n) = d /\ d + w <= PageCount
    BY MaxNodeFacts
  <2> HIDE DEF n
  <2>2. n \in Nodes /\ Order(h, n) = MaxOrder /\ At(h, n) = d
    BY <1>1, <1>2, <2>1
  <2>3. Width(h, n) = w /\ Behind(h, n) = n + 2 * Width(h, n) - 1 /\ PageBehind(h, n) = At(h, n) + Width(h, n)
    BY <2>2 DEF Width, Behind, PageBehind
  <2> HIDE DEF e, d, c, k, w
  <2>4. Behind(h, n) = 1 + e + k /\ PageBehind(h, n) = d + w /\ NodeCount \in Nat
    BY <2>1, <2>2, <2>3, Counts
  <2>5. Behind(h, n) <= NodeCount + 1 /\ PageBehind(h, n) <= PageCount
    BY <2>1, <2>4
  <2> QED
    BY <2>1, <2>2, <2>4, <2>5 DEF n, e, d, c, k, w
<1>4. \A n \in L : \E b \in 1 .. Blocks : n = MaxNode(b)
  BY DEF MaxNodes
<1>5. \A n \in Nodes : ~Inner(h, n) /\ Whole(h, n)
  BY <1>1 DEF Whole, Inner
<1>6. TreeOK(h, L)
  <2>1. TopsOK(h, L)
    BY <1>1, <1>2, <1>3 DEF TopsOK
  <2>2. \A n \in L : NodeOK(h, L, n)
    BY <1>1, <1>2, <1>3, <1>4, <1>5 DEF NodeOK
  <2>3. Nested(h, L)
    <3>1. SUFFICES ASSUME NEW m \in L, NEW n \in L, m # n, IsUnder(h, m, n) PROVE FALSE
      BY DEF Nested
    <3>2. PICK b1 \in 1 .. Blocks : m = MaxNode(b1)
      BY <1>4
    <3>3. PICK b2 \in 1 .. Blocks : n = MaxNode(b2)
      BY <1>4
    <3> DEFINE c1 == b1 - 1
               c2 == b2 - 1
    <3>4. /\ c1 \in Nat /\ c2 \in Nat /\ k \in Nat \ {0}
          /\ m = 1 + c1 * k /\ n = 1 + c2 * k /\ Behind(h, n) = 1 + c2 * k + k
      BY <1>3, <3>2, <3>3
    <3> HIDE DEF c1, c2, k
    <3>5. c1 * k \in Nat /\ c2 * k \in Nat
      BY <3>4, SMT
    <3>6. n <= m /\ m < Behind(h, n)
      BY <3>1 DEF IsUnder
    <3>7. CASE c1 < c2
      BY <3>4, <3>5, <3>6, <3>7, Intervals
    <3>8. CASE c2 < c1
      BY <3>4, <3>5, <3>6, <3>8, Intervals
    <3>9. CASE c1 = c2
      BY <3>1, <3>4, <3>9
    <3> QED
      BY <3>4, <3>7, <3>8, <3>9
  <2> QED
    BY <2>1, <2>2, <2>3 DEF TreeOK
<1>7. Cover(held) = {}
  BY <1>1 DEF Cover
<1>8. PagesOK(h, L, {})
  <2>1. ASSUME NEW p \in Pages PROVE \E n \in L : HasPage(h, n, p)
    <3> DEFINE c == p \div w
    <3>1. 1 \in 1 .. Blocks /\ Blocks \in Nat
      BY BuddyAssumption
    <3>2. w \in Nat \ {0} /\ p \in Nat /\ p < PageCount /\ PageCount = Blocks * w
      <4>1. p \in Nat /\ p < PageCount
        BY Counts
      <4> QED
        BY <1>3, <3>1, <4>1 DEF PageCount
    <3>3. c \in Nat /\ c * w <= p /\ p < c * w + w /\ c * w \in Nat
      <4> HIDE DEF w
      <4> QED
        BY <3>2, SMT
    <3> HIDE DEF c
    <3>4. c < Blocks
      <4>1. SUFFICES ASSUME ~(c < Blocks) PROVE FALSE
        OBVIOUS
      <4> HIDE DEF w
      <4>2. Blocks * w <= c * w /\ Blocks * w \in Nat
        <5>1. CASE Blocks = c
          BY <3>1, <3>2, <3>3, <5>1
        <5>2. CASE Blocks # c
          <6>1. Blocks < c
            BY <3>1, <3>3, <4>1, <5>2
          <6> QED
            BY <3>1, <3>2, <3>3, <6>1, Intervals
        <5> QED
          BY <5>1, <5>2
      <4> QED
        BY <3>2, <3>3, <4>2
    <3>5. c + 1 \in 1 .. Blocks /\ (c + 1) - 1 = c
      BY <3>1, <3>3, <3>4
    <3>6. /\ MaxNode(c + 1) \in L /\ At(h, MaxNode(c + 1)) = c * w
          /\ PageBehind(h, MaxNode(c + 1)) = c * w + w
      BY <1>3, <3>5
    <3> QED
      BY <3>3, <3>6 DEF HasPage
  <2>2. ASSUME NEW m \in L, NEW n \in L, NEW p \in Pages, HasPage(h, m, p), HasPage(h, n, p)
        PROVE  m = n
    <3>1. PICK b1 \in 1 .. Blocks : m = MaxNode(b1)
      BY <1>4
    <3>2. PICK b2 \in 1 .. Blocks : n = MaxNode(b2)
      BY <1>4
    <3> DEFINE c1 == b1 - 1
               c2 == b2 - 1
    <3>3. /\ c1 \in Nat /\ c2 \in Nat /\ w \in Nat \ {0}
          /\ At(h, m) = c1 * w /\ At(h, n) = c2 * w
          /\ PageBehind(h, m) = c1 * w + w /\ PageBehind(h, n) = c2 * w + w
      BY <1>3, <3>1, <3>2
    <3>4. p \in Nat /\ b1 = c1 + 1 /\ b2 = c2 + 1
      BY Numbers
    <3> HIDE DEF c1, c2, w
    <3>5. c1 * w \in Nat /\ c2 * w \in Nat
      BY <3>3, SMT
    <3>6. c1 * w <= p /\ p < c1 * w + w /\ c2 * w <= p /\ p < c2 * w + w
      BY <2>2, <3>3 DEF HasPage
    <3>7. ~(c1 < c2)
      BY <3>3, <3>4, <3>5, <3>6, Intervals
    <3>8. ~(c2 < c1)
      BY <3>3, <3>4, <3>5, <3>6, Intervals
    <3>9. c1 = c2
      BY <3>3, <3>7, <3>8
    <3> QED
      BY <3>1, <3>2, <3>4, <3>9
  <2>3. \A n \in L : Whole(h, n) /\ ~(Status(h, n) = "allocated")
    BY <1>1, <1>2, <1>5
  <2> QED
    BY <2>1, <2>2, <2>3 DEF PagesOK
<1>9. ListsOK(h, L)
  <2>1. ASSUME NEW n \in Low PROVE ~Linked(h, n) /\ NextOf(h, n) = Null /\ PrevOf(h, n) = Null
    <3>1. NextOf(h, n) = Null /\ PrevOf(h, n) = Null /\ Order(h, n) = 0
      BY <1>1
    <3>2. First(h, 0) # n
      <4>1. n \in Nodes /\ n \notin MaxNodes /\ 0 \in Orders /\ 1 \in 1 .. Blocks
        BY BuddyAssumption DEF Low, Orders
      <4>2. First(h, 0) \in {MaxNode(1), Null} /\ MaxNode(1) \in MaxNodes
        BY <1>1, <1>3, <4>1
      <4> QED
        BY <1>2, <4>1, <4>2
    <3> QED
      BY <3>1, <3>2 DEF Linked
  <2>2. \A o \in Orders \ {MaxOrder} : First(h, o) = Null
    BY <1>1
  <2>3. First(h, MaxOrder) = MaxNode(1)
    BY <1>1, BuddyAssumption DEF Orders
  <2> QED
    BY <2>1, <2>2, <2>3 DEF ListsOK
<1>10. HeldOK(h, L, held) /\ NoFreePair(h, L)
  <2>1. \A n \in L : ~(Status(h, n) = "allocated")
    BY <1>1
  <2> QED
    BY <1>1, <1>2, <1>5, <2>1 DEF HeldOK, NoFreePair
<1>11. StateOK(h, L, held)
  BY <1>6, <1>7, <1>8, <1>9, <1>10 DEF StateOK
<1> QED
  BY <1>1, <1>2, <1>11 DEF h

-----------------------------------------------------------------------------
(* The invariant of the calls.                                               *)

\* Until the first relink a tree describes the heap and the blocks held.
BuddyInv == ~relinked => TypeOK /\ \E L \in SUBSET Nodes : StateOK(Heap, L, held)

LEMMA HeapIsHeap ==
    ASSUME TypeOK
    PROVE  /\ Heap \in Heaps /\ Heap.node = node /\ Heap.first = first /\ Heap.relinked = relinked
           /\ held \in SUBSET Held
  BY DEF TypeOK, Heap, Heaps, Held

\* A heap that is stored is the heap of the next state.
LEMMA NextHeap ==
    ASSUME NEW g \in Heaps, node' = g.node, first' = g.first, relinked' = g.relinked, held' \in SUBSET Held
    PROVE  TypeOK' /\ Heap' = g
<1>1. TypeOK'
  BY DEF TypeOK, Heaps, Held
<1>2. Heap' = g
  BY DEF Heap, Heaps
<1> QED
  BY <1>1, <1>2

LEMMA KallocStep ==
    ASSUME TypeOK, NEW L \in SUBSET Nodes, StateOK(Heap, L, held), NEW size \in Sizes, Kalloc(size)
    PROVE  /\ TypeOK' /\ \E M \in SUBSET Nodes : StateOK(Heap', M, held')
           /\ \E page \in Pages : Service!Allocate(page, size)
<1> DEFINE n   == ChosenNode(Heap, size)
           g   == Split[node[n].order][<<Taken(Heap, n), n, size>>]
           new == [page |-> node[n].address, size |-> size]
<1>1. Heap \in Heaps /\ Heap.node = node /\ Heap.relinked = relinked /\ held \in SUBSET Held
  BY HeapIsHeap
<1>2. /\ CanServe(Heap, size) /\ node' = g.node /\ first' = g.first
      /\ held' = held \cup {new} /\ relinked' = relinked
  BY DEF Kalloc
<1>3. Order(Heap, n) = node[n].order /\ At(Heap, n) = node[n].address
  BY <1>1 DEF Order, At
<1>4. /\ n \in Nodes /\ g \in Heaps /\ g.relinked = Heap.relinked
      /\ \E M \in SUBSET Nodes : StateOK(g, M, held \cup {new})
      /\ PagesOf(new) \subseteq Pages /\ \A b \in held : PagesOf(b) \cap PagesOf(new) = {}
  <2>1. LET m == ChosenNode(Heap, size)
            k == Split[Order(Heap, m)][<<Taken(Heap, m), m, size>>]
            b == [page |-> At(Heap, m), size |-> size]
        IN  /\ m \in Nodes /\ k \in Heaps /\ k.relinked = Heap.relinked
            /\ \E M \in SUBSET Nodes : StateOK(k, M, held \cup {b})
            /\ PagesOf(b) \subseteq Pages /\ \A c \in held : PagesOf(c) \cap PagesOf(b) = {}
    BY <1>1, <1>2, KallocWorks
  <2> QED
    BY <1>3, <2>1
<1>5. new \in Held
  <2>1. At(Heap, n) \in Pages
    BY <1>1, <1>4, FieldTypes
  <2> QED
    BY <1>3, <2>1 DEF Held
<1>6. new.page \in Pages /\ Service!Allocate(new.page, size)
  <2>1. new = [page |-> new.page, size |-> size] /\ new.page \in Pages
    BY <1>5 DEF Held
  <2>2. \A b : Service!PagesOf(b) = PagesOf(b)
    BY DEF Service!PagesOf, PagesOf
  <2> HIDE DEF n, g, new
  <2> QED
    BY <1>2, <1>4, <2>1, <2>2 DEF Service!Allocate
<1> HIDE DEF n, g, new
<1>7. TypeOK' /\ Heap' = g
  BY <1>1, <1>2, <1>4, <1>5, NextHeap
<1> QED
  BY <1>2, <1>4, <1>6, <1>7

LEMMA KfreeStep ==
    ASSUME TypeOK, ~relinked, NEW L \in SUBSET Nodes, StateOK(Heap, L, held), NEW b \in held,
           Kfree(b.page, b.size), ~relinked'
    PROVE  TypeOK' /\ (\E M \in SUBSET Nodes : StateOK(Heap', M, held')) /\ Service!Free(b)
<1> DEFINE g == KfreeHeap(Heap, b)
<1>1. Heap \in Heaps /\ Heap.node = node /\ held \in SUBSET Held
  BY HeapIsHeap
<1>2. [page |-> b.page, size |-> b.size] = b
  BY <1>1 DEF Held
<1>3. /\ node' = g.node /\ first' = g.first /\ relinked' = (relinked \/ g.relinked)
      /\ held' = held \ {b}
  <2> DEFINE high   == MaxNode(1 + b.page \div Type[MaxOrder])
             root   == RootFrom[MaxOrder][<<Heap, high, b.page>>]
             freed  == MergeBnode[node[root].order][<<Heap, root, b.size>>]
             merged == MergeBnodeNolimit[MaxOrder][<<freed, high>>]
             h      == IF root # high /\ merged.node[root].status = "unallocated"
                       THEN PushFirst(merged, root) ELSE merged
  <2>1. /\ node' = h.node /\ first' = h.first /\ relinked' = (relinked \/ h.relinked)
        /\ held' = held \ {b}
    BY <1>2 DEF Kfree
  <2>2. high = HighOf(b)
    BY DEF HighOf
  <2>3. root = FoundOf(Heap, b)
    BY DEF FoundOf, HighOf
  <2> HIDE DEF high, root
  <2>4. freed = FreedOf(Heap, root, b)
    BY <1>1 DEF FreedOf, Order
  <2> HIDE DEF freed
  <2>5. merged = MergedOf(freed, high)
    BY DEF MergedOf
  <2> HIDE DEF merged
  <2>6. h = g
    BY <2>2, <2>3, <2>4, <2>5 DEF KfreeHeap, Status
  <2> HIDE DEF h, g
  <2> QED
    BY SMTT(30), <2>1, <2>6
<1> HIDE DEF g
<1>4. ~g.relinked
  BY <1>3
<1>5. g \in Heaps /\ \E M \in SUBSET Nodes : StateOK(g, M, held \ {b})
  BY <1>1, <1>4, KfreeWorks DEF g
<1>6. g.relinked \in BOOLEAN
  BY <1>5 DEF Heaps
<1>7. relinked' = g.relinked
  BY <1>3, <1>4, <1>6
<1>8. TypeOK' /\ Heap' = g
  BY <1>1, <1>3, <1>5, <1>7, NextHeap
<1>9. Service!Free(b)
  BY <1>3 DEF Service!Free
<1> QED
  BY <1>3, <1>5, <1>8, <1>9

\* The invariant holds in the initial state, and every call keeps it.
THEOREM Invariance == Spec => []BuddyInv
<1>1. Init => BuddyInv
  BY InitState DEF BuddyInv
<1>2. BuddyInv /\ [Next]_vars => BuddyInv'
  <2>1. SUFFICES ASSUME BuddyInv, [Next]_vars, ~relinked'
                 PROVE  TypeOK' /\ \E M \in SUBSET Nodes : StateOK(Heap', M, held')
    BY SMTT(30) DEF BuddyInv
  <2>2. ~relinked
    BY <2>1 DEF Next, Kalloc, Kfree, vars
  <2>3. TypeOK
    BY <2>1, <2>2 DEF BuddyInv
  <2>4. PICK L \in SUBSET Nodes : StateOK(Heap, L, held)
    BY <2>1, <2>2 DEF BuddyInv
  <2>5. CASE \E size \in Sizes : Kalloc(size)
    BY <2>3, <2>4, <2>5, KallocStep
  <2>6. CASE \E b \in held : Kfree(b.page, b.size)
    BY <2>1, <2>2, <2>3, <2>4, <2>6, KfreeStep
  <2>7. CASE UNCHANGED vars
    BY <2>3, <2>4, <2>7 DEF TypeOK, Heap, vars
  <2> QED
    BY <2>1, <2>5, <2>6, <2>7 DEF Next
<1> QED
  BY <1>1, <1>2, PTL DEF Spec

\* Every call is one of PageService while nothing is relinked: kalloc() gives
\* pages of the heap that nobody has, kfree() takes back one block.
THEOREM Implements == Spec => ServesPages
<1>1. Init => Service!Init
  BY DEF Init, Service!Init
<1>2. BuddyInv /\ [Next]_vars => [~relinked' => Service!Next]_vars
  <2>1. SUFFICES ASSUME BuddyInv, Next, ~relinked'
                 PROVE  Service!Next
    OBVIOUS
  <2>2. ~relinked
    BY <2>1 DEF Next, Kalloc, Kfree
  <2>3. TypeOK
    BY <2>1, <2>2 DEF BuddyInv
  <2>4. PICK L \in SUBSET Nodes : StateOK(Heap, L, held)
    BY <2>1, <2>2 DEF BuddyInv
  <2>5. CASE \E size \in Sizes : Kalloc(size)
    BY <2>3, <2>4, <2>5, KallocStep DEF Service!Next
  <2>6. CASE \E b \in held : Kfree(b.page, b.size)
    BY <2>1, <2>2, <2>3, <2>4, <2>6, KfreeStep DEF Service!Next
  <2> QED
    BY <2>1, <2>5, <2>6 DEF Next
<1> QED
  BY <1>1, <1>2, Invariance, PTL DEF Spec, ServesPages

-----------------------------------------------------------------------------
(* The properties of the runs.                                               *)

LEMMA InvTree ==
    ASSUME BuddyInv, ~relinked
    PROVE  Heap \in Heaps /\ held \in SUBSET Held /\ LiveNodes \in SUBSET Nodes /\ StateOK(Heap, LiveNodes, held)
<1>1. TypeOK
  BY DEF BuddyInv
<1>2. PICK L \in SUBSET Nodes : StateOK(Heap, L, held)
  BY DEF BuddyInv
<1>3. Heap \in Heaps /\ held \in SUBSET Held
  BY <1>1, HeapIsHeap
<1>4. LiveNodes = L
  BY <1>2, <1>3, LiveIsTree DEF StateOK
<1> QED
  BY <1>2, <1>3, <1>4

LEMMA TreeTells == BuddyInv => TreeTellsHeldPages
<1> SUFFICES ASSUME BuddyInv, ~relinked
             PROVE  /\ BlocksDisjoint
                    /\ \A p \in Pages :
                           node[PieceOf(p)].status = "allocated" <=> \E b \in held : p \in PagesOf(b)
  BY DEF TreeTellsHeldPages
<1> DEFINE L == LiveNodes
           A == Cover(held)
<1>1. /\ Heap \in Heaps /\ L \in SUBSET Nodes /\ HeldOK(Heap, L, held) /\ PagesOK(Heap, L, A)
  BY InvTree DEF StateOK
<1>2. BlocksDisjoint
  BY <1>1 DEF HeldOK, BlocksDisjoint
<1>3. ASSUME NEW p \in Pages
      PROVE  node[PieceOf(p)].status = "allocated" <=> \E b \in held : p \in PagesOf(b)
  <2>1. ASSUME NEW n \in L
        PROVE  HasPage(Heap, n, p) <=> p \in node[n].address .. node[n].address + Type[node[n].order] - 1
    <3>1. /\ n \in Nodes /\ At(Heap, n) \in Nat /\ Width(Heap, n) \in Nat /\ p \in Nat
          /\ PageBehind(Heap, n) = At(Heap, n) + Width(Heap, n)
      BY <1>1, NodeNumbers, Numbers DEF PageBehind
    <3>2. At(Heap, n) = node[n].address /\ Width(Heap, n) = Type[node[n].order]
      BY DEF At, Width, Order, Heap
    <3> QED
      BY <3>1, <3>2 DEF HasPage
  <2>2. \A n \in L : HasLeaves(Heap, n) <=> Inner(Heap, n)
    BY Tests
  <2>3. \E n \in L : ~HasLeaves(Heap, n)
                     /\ p \in node[n].address .. node[n].address + Type[node[n].order] - 1
    BY SMTT(30), <1>1, <2>1, <2>2 DEF PagesOK, Whole
  <2>4. /\ PieceOf(p) \in L /\ ~HasLeaves(Heap, PieceOf(p))
        /\ p \in node[PieceOf(p)].address .. node[PieceOf(p)].address + Type[node[PieceOf(p)].order] - 1
    BY <2>3 DEF PieceOf
  <2>5. PieceOf(p) \in L /\ Whole(Heap, PieceOf(p)) /\ HasPage(Heap, PieceOf(p), p)
    <3> DEFINE n == PieceOf(p)
    <3>1. n \in L
      BY <2>4
    <3>2. HasPage(Heap, n, p) <=> p \in node[n].address .. node[n].address + Type[node[n].order] - 1
      BY <2>1, <3>1
    <3> QED
      BY <2>2, <2>4, <3>2 DEF Whole
  <2>6. Status(Heap, PieceOf(p)) = node[PieceOf(p)].status
    BY DEF Status, Heap
  <2>7. p \in A <=> \E b \in held : p \in PagesOf(b)
    BY DEF Cover
  <2> HIDE DEF A
  <2> QED
    BY <1>1, <2>5, <2>6, <2>7 DEF PagesOK
<1> QED
  BY <1>2, <1>3

\* A node with no page held is a free piece: two free leaves would have been
\* joined.
LEMMA FreeNodes ==
    ASSUME NEW h \in Heaps, NEW L \in SUBSET Nodes, NEW A, TreeOK(h, L), PagesOK(h, L, A), NoFreePair(h, L)
    PROVE  \A n \in L : (\A p \in Pages : HasPage(h, n, p) => p \notin A)
                        => Whole(h, n) /\ Status(h, n) = "unallocated"
<1> DEFINE Empty(n) == \A p \in Pages : HasPage(h, n, p) => p \notin A
           Good == {o \in Orders : \A n \in L : Order(h, n) = o /\ Empty(n)
                                                => Whole(h, n) /\ Status(h, n) = "unallocated"}
<1>1. \A n \in L : Status(h, n) \in {"allocated", "unallocated"}
  BY DEF TreeOK, NodeOK
<1>2. ASSUME NEW n \in L, Empty(n), Whole(h, n) PROVE Status(h, n) = "unallocated"
  <2>1. At(h, n) \in Pages /\ HasPage(h, n, At(h, n))
    <3>1. At(h, n) \in Nat /\ Width(h, n) \in Nat \ {0} /\ At(h, n) \in Pages
      BY NodeNumbers, FieldTypes
    <3> QED
      BY <3>1 DEF HasPage, PageBehind
  <2> QED
    BY <1>1, <1>2, <2>1 DEF PagesOK
<1>3. 0 \in Good
  <2>1. 0 \in Orders
    BY BuddyAssumption DEF Orders
  <2>2. ASSUME NEW n \in L, Order(h, n) = 0 PROVE Whole(h, n)
    BY <2>2, LeafPlaces DEF Whole
  <2> QED
    BY <1>2, <2>1, <2>2
<1>4. ASSUME NEW o \in 1 .. MaxOrder, o - 1 \in Good PROVE o \in Good
  <2>1. o \in Orders
    BY BuddyAssumption DEF Orders
  <2>2. ASSUME NEW n \in L, Order(h, n) = o, Empty(n), Inner(h, n) PROVE FALSE
    <3> DEFINE l == Left(h, n)
               r == Right(h, n)
    <3>1. l \in L /\ r \in L /\ Order(h, l) = o - 1 /\ Order(h, r) = o - 1
      BY <2>2, LeafPlaces
    <3>2. \A p \in Pages : HasPage(h, n, p) <=> HasPage(h, l, p) \/ HasPage(h, r, p)
      BY <2>2, LeavesApart
    <3> HIDE DEF l, r
    <3>3. Empty(l) /\ Empty(r)
      BY <2>2, <3>2
    <3>4. Status(h, l) = "unallocated" /\ Status(h, r) = "unallocated"
      BY <1>4, <3>1, <3>3
    <3> QED
      BY <2>2, <3>4 DEF NoFreePair, LeavesFree, l, r
  <2> HIDE DEF Empty
  <2> QED
    BY <1>2, <2>1, <2>2 DEF Whole
<1>5. \A o \in 0 .. MaxOrder : o \in Good
  <2> HIDE DEF Good
  <2> QED
    BY <1>3, <1>4, UpTo, BuddyAssumption
<1>6. \A n \in L : Order(h, n) \in 0 .. MaxOrder
  BY FieldTypes DEF Orders
<1> QED
  BY <1>5, <1>6

LEMMA EmptyWhole == BuddyInv => EmptyBlocksWhole
<1> SUFFICES ASSUME BuddyInv, ~relinked, NEW b \in 1 .. Blocks,
                    \A c \in held : PagesOf(c) \cap (node[MaxNode(b)].address
                                        .. node[MaxNode(b)].address + Type[MaxOrder] - 1) = {}
             PROVE  MaxNode(b) \in FreeMaxNodes(Heap) /\ ~HasLeaves(Heap, MaxNode(b))
  BY DEF EmptyBlocksWhole
<1> DEFINE L == LiveNodes
           A == Cover(held)
           n == MaxNode(b)
<1>1. /\ Heap \in Heaps /\ L \in SUBSET Nodes /\ TreeOK(Heap, L) /\ PagesOK(Heap, L, A)
      /\ NoFreePair(Heap, L)
  BY InvTree DEF StateOK
<1>2. n \in MaxNodes /\ n \in L /\ n \in Nodes /\ Order(Heap, n) = MaxOrder
  BY <1>1 DEF TreeOK, TopsOK, MaxNodes
<1>3. At(Heap, n) = node[n].address /\ Width(Heap, n) = Type[MaxOrder] /\ PageBehind(Heap, n) = At(Heap, n) + Width(Heap, n)
  BY <1>2 DEF At, Width, PageBehind, Heap
<1>4. ASSUME NEW p \in Pages, HasPage(Heap, n, p) PROVE p \notin A
  <2>1. p \in Nat /\ At(Heap, n) \in Nat /\ Width(Heap, n) \in Nat
    BY <1>1, <1>2, Numbers, NodeNumbers
  <2>2. p \in node[n].address .. node[n].address + Type[MaxOrder] - 1
    BY <1>3, <1>4, <2>1 DEF HasPage
  <2> HIDE DEF n
  <2>3. \A c \in held : PagesOf(c) \cap (node[n].address .. node[n].address + Type[MaxOrder] - 1) = {}
    BY DEF n
  <2> QED
    BY <2>2, <2>3 DEF Cover
<1> HIDE DEF L, A, n
<1>5. Whole(Heap, n) /\ Status(Heap, n) = "unallocated"
  BY <1>1, <1>2, <1>4, FreeNodes
<1>6. ~HasLeaves(Heap, n)
  BY <1>5, Tests DEF Whole
<1>7. n \in FreeMaxNodes(Heap)
  BY <1>2, <1>5 DEF FreeMaxNodes, Status
<1> QED
  BY <1>6, <1>7 DEF n

LEMMA ListUnfolds ==
    ASSUME NEW o
    PROVE  LET at == ListNode(o)
           IN  /\ Cardinality(Nodes) = NodeCount /\ NodeCount \in Nat
               /\ at[0] = first[o]
               /\ \A i \in 1 .. NodeCount : at[i] = IF at[i - 1] = Null THEN Null ELSE node[at[i - 1]].next
<1> DEFINE h  == <<Heap, o>>
           at == ListNode(o)
           N  == NodeCount
<1>1. Cardinality(Nodes) = N /\ N \in Nat
  <2>1. Nodes = 1 .. N /\ N \in Nat
    BY Counts
  <2> HIDE DEF N
  <2>2. Cardinality(1 .. N) = IF 1 > N THEN 0 ELSE N - 1 + 1
    BY <2>1, FS_Interval
  <2> QED
    BY <2>1, <2>2
<1> HIDE DEF N
<1>2. PICK f : Recurses(f, "ListNode", h, N)
  BY <1>1, Recursion
<1>3. f = [i \in 0 .. N |-> IF i = 0 THEN first[o] ELSE IF f[i - 1] = Null THEN Null ELSE node[f[i - 1]].next]
  <2>1. h[1].first = first /\ h[1].node = node /\ h[2] = o
    BY DEF Heap
  <2> HIDE DEF h
  <2>2. ASSUME NEW i \in 0 .. N
        PROVE  Turn("ListNode", h, i, Before(f, i)) =
                 IF i = 0 THEN first[o] ELSE IF f[i - 1] = Null THEN Null ELSE node[f[i - 1]].next
    BY <2>1 DEF Turn, Before
  <2> QED
    BY <1>2, <2>2 DEF Recurses
<1>4. at = [i \in 0 .. N |-> IF i = 0 THEN first[o] ELSE IF at[i - 1] = Null THEN Null ELSE node[at[i - 1]].next]
  BY <1>1, <1>3 DEF ListNode
<1> HIDE DEF at
<1>5. 0 \in 0 .. N /\ \A i \in 1 .. N : i \in 0 .. N /\ i # 0
  BY <1>1
<1>6. at[0] = first[o]
  BY <1>4, <1>5
<1>7. \A i \in 1 .. N : at[i] = IF at[i - 1] = Null THEN Null ELSE node[at[i - 1]].next
  BY <1>4, <1>5
<1> QED
  BY <1>1, <1>6, <1>7 DEF at, N

\* The i-th node of a list is a listed node of the order whose prev link is
\* the node before it.
LEMMA Chain ==
    ASSUME Heap \in Heaps, NEW L \in SUBSET Nodes, ListsOK(Heap, L), NEW o \in Orders \ {MaxOrder}
    PROVE  LET at == ListNode(o)
           IN  \A i \in 0 .. NodeCount :
                   at[i] # Null => /\ at[i] \in Low /\ Order(Heap, at[i]) = o /\ Linked(Heap, at[i])
                                   /\ PrevOf(Heap, at[i]) = IF i = 0 THEN Null ELSE at[i - 1]
                                   /\ i # 0 => at[i - 1] # Null
<1> DEFINE at == ListNode(o)
           N  == NodeCount
           Good == {i \in 0 .. N :
                      at[i] # Null => /\ at[i] \in Low /\ Order(Heap, at[i]) = o /\ Linked(Heap, at[i])
                                      /\ PrevOf(Heap, at[i]) = IF i = 0 THEN Null ELSE at[i - 1]
                                      /\ i # 0 => at[i - 1] # Null}
<1>1. /\ N \in Nat /\ at[0] = First(Heap, o)
      /\ \A i \in 1 .. N : at[i] = IF at[i - 1] = Null THEN Null ELSE NextOf(Heap, at[i - 1])
  BY ListUnfolds DEF First, NextOf, Heap
<1> HIDE DEF at, N
<1>2. 0 \in Good
  BY <1>1 DEF ListsOK, Linked
<1>3. ASSUME NEW i \in 1 .. N, i - 1 \in Good PROVE i \in Good
  <2>1. i \in 0 .. N /\ i # 0
    BY <1>1
  <2>2. ASSUME at[i] # Null
        PROVE  /\ at[i] \in Low /\ Order(Heap, at[i]) = o /\ Linked(Heap, at[i])
               /\ PrevOf(Heap, at[i]) = at[i - 1] /\ at[i - 1] # Null
    <3>1. at[i - 1] # Null /\ at[i] = NextOf(Heap, at[i - 1])
      BY <1>1, <2>2
    <3>2. at[i - 1] \in Low /\ Order(Heap, at[i - 1]) = o
      BY <1>3, <3>1
    <3>3. at[i] \in Low /\ PrevOf(Heap, at[i]) = at[i - 1] /\ Order(Heap, at[i]) = o
      BY <2>2, <3>1, <3>2 DEF ListsOK
    <3> QED
      BY <3>1, <3>3 DEF Linked
  <2> QED
    BY <2>1, <2>2
<1>4. \A i \in 0 .. N : i \in Good
  <2> HIDE DEF Good
  <2> QED
    BY <1>1, <1>2, <1>3, UpTo
<1> QED
  BY <1>4 DEF at, N

\* No node comes twice, so a list ends.
LEMMA ChainEnds ==
    ASSUME Heap \in Heaps, NEW L \in SUBSET Nodes, ListsOK(Heap, L), NEW o \in Orders \ {MaxOrder}
    PROVE  ListNode(o)[NodeCount] = Null
<1> DEFINE at == ListNode(o)
           N  == NodeCount
<1>1. N \in Nat /\ Nodes = 1 .. N
  BY Counts
<1>2. \A i \in 0 .. N :
         at[i] # Null => /\ at[i] \in Low
                         /\ PrevOf(Heap, at[i]) = IF i = 0 THEN Null ELSE at[i - 1]
                         /\ i # 0 => at[i - 1] # Null
  BY Chain
<1> HIDE DEF at, N
<1>3. SUFFICES ASSUME at[N] # Null PROVE FALSE
  BY DEF at, N
<1>4. \A i \in 0 .. N : at[N - i] # Null
  <2> DEFINE Good == {i \in 0 .. N : at[N - i] # Null}
  <2>1. 0 \in Good
    BY <1>1, <1>3
  <2>2. ASSUME NEW i \in 1 .. N, i - 1 \in Good PROVE i \in Good
    <3>1. N - (i - 1) \in 0 .. N /\ N - (i - 1) # 0 /\ (N - (i - 1)) - 1 = N - i /\ i \in 0 .. N
      BY <1>1
    <3>2. at[N - (i - 1)] # Null
      BY <2>2
    <3>3. at[(N - (i - 1)) - 1] # Null
      BY <1>2, <3>1, <3>2
    <3> QED
      BY <3>1, <3>3
  <2> HIDE DEF Good
  <2>3. \A i \in 0 .. N : i \in Good
    BY <1>1, <2>1, <2>2, UpTo
  <2> QED
    BY <2>3 DEF Good
<1>5. ASSUME NEW i \in 0 .. N PROVE at[i] # Null
  <2>1. N - i \in 0 .. N /\ N - (N - i) = i
    BY <1>1
  <2> QED
    BY <1>4, <2>1
<1>6. \A i \in 0 .. N : \A j \in i + 1 .. N : at[i] # at[j]
  <2> DEFINE Good == {i \in 0 .. N : \A j \in i + 1 .. N : at[i] # at[j]}
  <2>1. 0 \in Good
    <3>1. 0 \in 0 .. N
      BY <1>1
    <3>2. ASSUME NEW j \in 1 .. N PROVE at[0] # at[j]
      <4>1. j \in 0 .. N /\ j # 0
        BY <1>1
      <4>2. PrevOf(Heap, at[j]) # Null /\ PrevOf(Heap, at[0]) = Null
        BY <1>2, <1>5, <3>1, <4>1
      <4> QED
        BY <4>2
    <3> QED
      BY <3>1, <3>2
  <2>2. ASSUME NEW i \in 1 .. N, i - 1 \in Good PROVE i \in Good
    <3>1. i \in 0 .. N /\ i # 0
      BY <1>1
    <3>2. ASSUME NEW j \in i + 1 .. N, at[i] = at[j] PROVE FALSE
      <4>1. j \in 0 .. N /\ j # 0 /\ j - 1 \in (i - 1) + 1 .. N
        BY <1>1, <3>1
      <4>2. PrevOf(Heap, at[i]) = at[i - 1] /\ PrevOf(Heap, at[j]) = at[j - 1]
        BY <1>2, <1>5, <3>1, <4>1
      <4>3. at[i - 1] # at[j - 1]
        BY <2>2, <4>1
      <4> QED
        BY <3>2, <4>2, <4>3
    <3> QED
      BY <3>1, <3>2
  <2> HIDE DEF Good
  <2>3. \A i \in 0 .. N : i \in Good
    BY <1>1, <2>1, <2>2, UpTo
  <2> QED
    BY <2>3 DEF Good
<1> DEFINE f == [i \in 0 .. N |-> at[i]]
<1>7. f \in [0 .. N -> Nodes]
  BY <1>2, <1>5 DEF Low
<1>8. /\ IsFiniteSet(0 .. N) /\ IsFiniteSet(Nodes)
      /\ Cardinality(Nodes) < Cardinality(0 .. N)
  <2>1. IsFiniteSet(0 .. N) /\ Cardinality(0 .. N) = IF 0 > N THEN 0 ELSE N - 0 + 1
    BY <1>1, FS_Interval
  <2>2. IsFiniteSet(1 .. N) /\ Cardinality(1 .. N) = IF 1 > N THEN 0 ELSE N - 1 + 1
    BY <1>1, FS_Interval
  <2> QED
    BY <1>1, <2>1, <2>2
<1>9. PICK i \in 0 .. N, j \in 0 .. N : i # j /\ f[i] = f[j]
  <2> DEFINE S == 0 .. N
  <2>1. f \in [S -> Nodes] /\ IsFiniteSet(S) /\ IsFiniteSet(Nodes) /\ Cardinality(Nodes) < Cardinality(S)
    BY <1>7, <1>8
  <2> HIDE DEF f, S
  <2>2. \E x, y \in S : x # y /\ f[x] = f[y]
    BY <2>1, FS_PigeonHole
  <2> QED
    BY <2>2 DEF S
<1>10. at[i] = at[j]
  BY <1>9
<1>11. j \in i + 1 .. N \/ i \in j + 1 .. N
  BY <1>1, <1>9
<1> QED
  BY <1>6, <1>10, <1>11

LEMMA ListsAreSound == BuddyInv => FreeListsSound
<1> SUFFICES ASSUME BuddyInv, ~relinked, NEW o \in Orders \ {MaxOrder}
             PROVE  LET at == ListNode(o)
                    IN  /\ at[Cardinality(Nodes)] = Null
                        /\ \A n \in Listed(o) :
                               n \in LiveNodes /\ node[n].status = "unallocated"
                                   /\ node[n].order = o /\ ~HasLeaves(Heap, n)
                        /\ \A i \in 0 .. Cardinality(Nodes) :
                               at[i] # Null =>
                                   node[at[i]].prev = IF i = 0 THEN Null ELSE at[i - 1]
  BY DEF FreeListsSound
<1> DEFINE at == ListNode(o)
           N  == NodeCount
<1>1. Heap \in Heaps /\ LiveNodes \in SUBSET Nodes /\ ListsOK(Heap, LiveNodes)
  BY InvTree DEF StateOK
<1>2. Cardinality(Nodes) = N
  BY ListUnfolds
<1>3. at[N] = Null
  BY <1>1, ChainEnds
<1>4. \A i \in 0 .. N :
         at[i] # Null => /\ at[i] \in Low /\ Order(Heap, at[i]) = o /\ Linked(Heap, at[i])
                         /\ PrevOf(Heap, at[i]) = IF i = 0 THEN Null ELSE at[i - 1]
  BY <1>1, Chain
<1>5. Listed(o) = {at[i] : i \in 0 .. N} \ {Null}
  BY <1>2 DEF Listed
<1> HIDE DEF at, N
<1>6. ASSUME NEW n \in Listed(o)
      PROVE  n \in LiveNodes /\ node[n].status = "unallocated" /\ node[n].order = o /\ ~HasLeaves(Heap, n)
  <2>1. n \in Low /\ Order(Heap, n) = o /\ Linked(Heap, n)
    BY <1>4, <1>5
  <2>2. n \in LiveNodes /\ Whole(Heap, n) /\ Status(Heap, n) = "unallocated"
    BY <1>1, <2>1 DEF ListsOK
  <2>3. ~HasLeaves(Heap, n)
    BY <2>2, Tests DEF Whole
  <2> QED
    BY <2>1, <2>2, <2>3 DEF Status, Order, Heap
<1>7. \A i \in 0 .. N : at[i] # Null => node[at[i]].prev = IF i = 0 THEN Null ELSE at[i - 1]
  BY <1>4 DEF PrevOf, Heap
<1> QED
  BY <1>2, <1>3, <1>6, <1>7 DEF at

-----------------------------------------------------------------------------
(* The theorems.                                                             *)

\* Until merge_bnode() pushes a node that is on a list already, every page
\* kalloc() handed out belongs to one caller, and the pages below allocated
\* nodes without leaves are exactly those that callers hold: the splits of
\* kalloc(), the descent of kfree() and both merges agree on the tree.
THEOREM TreeTellsHeldPagesHolds == Spec => []TreeTellsHeldPages
  BY Invariance, TreeTells, PTL

\* As long, every free list of kalloc() is a doubly linked list that ends, of
\* nodes that are reached from the highest order, free, of the list's order
\* and without leaves.
THEOREM FreeListsSoundHolds == Spec => []FreeListsSound
  BY Invariance, ListsAreSound, PTL

\* As long, a block of the highest order is whole again, and can be handed
\* out, as soon as kfree() was called for every page of it.
THEOREM EmptyBlocksWholeHolds == Spec => []EmptyBlocksWhole
  BY Invariance, EmptyWhole, PTL

=============================================================================
