------------------------------- MODULE Buddy --------------------------------
(***************************************************************************)
(* The page allocator of memory.c: kalloc(), kfree() and the merging of    *)
(* buddies, with the nodes and the links of the free lists as they lie in  *)
(* memory.  Callers run both functions with interrupts off, so each is one *)
(* step.                                                                   *)
(*                                                                         *)
(* A block of the highest order has Type[MaxOrder] pages (MaxOrder is 5 in *)
(* the code) and its nodes are numbered in pre-order, as they are laid     *)
(* out.  Pages are counted from the start of the heap body.                *)
(* kfree() rounds absolute addresses to the size of such a block, which    *)
(* agrees with that where the body starts at a multiple of the size.       *)
(*                                                                         *)
(* `held` and `relinked` are history variables: what callers hold, and     *)
(* whether merge_bnode() has pushed a node that was on a list already.     *)
(***************************************************************************)
EXTENDS Naturals, FiniteSets

CONSTANTS
    MaxOrder,   \* bound: the highest order
    Blocks,     \* bound: how many blocks of that order memory_init() made
    Sizes       \* the page counts asked for

Orders == 0 .. MaxOrder

\* The type of a node: how many pages a block of its order has.
Type[o \in Orders] == IF o = 0 THEN 1 ELSE 2 * Type[o - 1]

ASSUME BuddyAssumption ==
    /\ MaxOrder \in Nat /\ Blocks \in Nat \ {0}
    /\ Sizes \subseteq 1 .. Type[MaxOrder]

VARIABLES
    node,       \* BUDDY_NODE of each node
    first,      \* g_buddy_lists: the first node of each order's free list
    held,       \* history: the blocks callers hold, [page, size]
    relinked    \* history: a node was pushed that was on a list

vars == <<node, first, held, relinked>>

Null          == 0
NodesPerBlock == 2 * Type[MaxOrder] - 1
Nodes         == 1 .. Blocks * NodesPerBlock
Pages         == 0 .. Blocks * Type[MaxOrder] - 1
MaxNode(b)    == 1 + (b - 1) * NodesPerBlock
MaxNodes      == {MaxNode(b) : b \in 1 .. Blocks}

Links == Nodes \cup {Null}
NodeRecords ==
    [status : {"allocated", "unallocated", "nonode"}, order : Orders, address : Pages,
     next : Links, prev : Links, left : Links, right : Links]

TypeOK ==
    /\ node \in [Nodes -> NodeRecords]
    /\ first \in [Orders -> Links]
    /\ held \subseteq [page : Pages, size : Sizes]
    /\ relinked \in BOOLEAN

-----------------------------------------------------------------------------
(* The functions work on a heap, one after another.                          *)

Heaps == [node : [Nodes -> NodeRecords], first : [Orders -> Links], relinked : BOOLEAN]
Heap == [node |-> node, first |-> first, relinked |-> relinked]

\* init_bnode(): a node without links and leaves.
InitBnode(status, order, address) ==
    [status |-> status, order |-> order, address |-> address,
     next |-> Null, prev |-> Null, left |-> Null, right |-> Null]

\* The first page of a block of the highest order.
MaxAddress(n) == ((n - 1) \div NodesPerBlock) * Type[MaxOrder]

\* memory_init(): the nodes of the highest order, in a list they never leave.
\* A node below them means nothing before a split writes it.
Init ==
    /\ node = [n \in Nodes |->
                 IF n \in MaxNodes
                 THEN [InitBnode("unallocated", MaxOrder, MaxAddress(n))
                         EXCEPT !.next = IF n + NodesPerBlock \in Nodes THEN n + NodesPerBlock ELSE Null,
                                !.prev = IF n > NodesPerBlock THEN n - NodesPerBlock ELSE Null]
                 ELSE InitBnode("nonode", 0, 0)]
    /\ first = [o \in Orders |-> IF o = MaxOrder THEN MaxNode(1) ELSE Null]
    /\ held = {}
    /\ relinked = FALSE

\* A store through a pointer.  The code also stores through NULL; nothing of
\* the heap lies there.
StoreNext(h, n, m) == IF n = Null THEN h ELSE [h EXCEPT !.node[n].next = m]
StorePrev(h, n, m) == IF n = Null THEN h ELSE [h EXCEPT !.node[n].prev = m]

\* A node becomes the first of its order's list; its prev link is left alone.
PushFirst(h, n) ==
    LET o  == h.node[n].order
        h1 == StoreNext(h, n, h.first[o])
        h2 == StorePrev(h1, h.first[o], n)
    IN  [h2 EXCEPT !.first[o] = n]

\* The test for being on a list: the only node of a list has no links.
OnList(h, n) ==
    h.node[n].next # Null \/ h.node[n].prev # Null \/ h.first[h.node[n].order] = n

\* Mutant: the node behind keeps its prev link.
UnlinkMutant(h, n) ==
    IF ~OnList(h, n) THEN h
    ELSE LET next == h.node[n].next
             prev == h.node[n].prev
             o    == h.node[n].order
             h1   == [h EXCEPT !.first[o] = IF @ = n THEN next ELSE @]
         IN  StorePrev(StoreNext(StoreNext(h1, prev, next), n, Null), n, Null)

\* A node that is merged away leaves its list.
Unlink(h, n) ==
    IF ~OnList(h, n) THEN h
    ELSE LET next == h.node[n].next
             prev == h.node[n].prev
             o    == h.node[n].order
             h1   == [h EXCEPT !.first[o] = IF @ = n THEN next ELSE @]
             h2   == StorePrev(StoreNext(h1, prev, next), next, prev)
         IN  StorePrev(StoreNext(h2, n, Null), n, Null)

-----------------------------------------------------------------------------
(* kalloc().                                                                 *)

\* The order of the rounded-up page count.
OrderOf(size) == CHOOSE o \in Orders : size <= Type[o] /\ \A p \in Orders : size <= Type[p] => o <= p

\* The lowest order from there on whose list is not empty.
ChosenOrder(h, size) ==
    CHOOSE o \in OrderOf(size) .. MaxOrder :
        h.first[o] # Null /\ \A p \in OrderOf(size) .. o - 1 : h.first[p] = Null

\* Mutant: allocated ones are not passed over.
FreeMaxNodesMutant(h) == MaxNodes
\* Blocks of the highest order stay listed, allocated ones are passed over.
FreeMaxNodes(h) == {n \in MaxNodes : h.node[n].status # "allocated"}

ChosenNode(h, size) ==
    LET o == ChosenOrder(h, size)
    IN  IF o = MaxOrder
        THEN CHOOSE n \in FreeMaxNodes(h) : \A m \in FreeMaxNodes(h) : n <= m
        ELSE h.first[o]

\* With no node left the code follows the list beyond its end; the model
\* does not ask then.
CanServe(h, size) ==
    \/ \E o \in OrderOf(size) .. MaxOrder - 1 : h.first[o] # Null
    \/ FreeMaxNodes(h) # {}

Taken(h, n) ==
    LET o  == h.node[n].order
        h1 == [h EXCEPT !.node[n].status = "allocated"]
        h2 == [h1 EXCEPT !.first[o] = h1.node[n].next]
        h3 == StorePrev(h2, h2.first[o], Null)
    IN  IF o = MaxOrder THEN h1 ELSE StorePrev(StoreNext(h3, n, Null), n, Null)

\* Where the leaves of a node lie.
LeafLeft(n)         == n + 1
LeafRight(n, order) == n + Type[order]

\* A node gets its two leaves; the left one is always allocated.
WithLeaves(h, n, rightStatus) ==
    LET rec   == h.node[n]
        half  == Type[rec.order - 1]
        left  == LeafLeft(n)
        right == LeafRight(n, rec.order)
    IN  [h EXCEPT
            !.node[n].left  = left,
            !.node[n].right = right,
            !.node[left]  = InitBnode("allocated", rec.order - 1, rec.address),
            !.node[right] = InitBnode(rightStatus, rec.order - 1, rec.address + half)]

\* The loop that splits node n until its first `size` pages are whole nodes:
\* a turn, then what is `below` for a leaf.
SplitTurn(below, h, n, size) ==
    LET order == h.node[n].order
        half  == Type[order - 1]
        right == LeafRight(n, order)
        freed == PushFirst(WithLeaves(h, n, "unallocated"), right)
    IN  IF size = Type[order] THEN [h EXCEPT !.node[n].left = Null, !.node[n].right = Null]
        ELSE IF size > half   THEN below[<<WithLeaves(h, n, "allocated"), right, size - half>>]
        ELSE IF size = half   THEN freed
        ELSE below[<<freed, LeafLeft(n), size>>]
Split[o \in Orders] ==
    [a \in Heaps \X Nodes \X Nat |->
        SplitTurn(IF o = 0 THEN <<>> ELSE Split[o - 1], a[1], a[2], a[3])]

Kalloc(size) ==
    /\ CanServe(Heap, size)
    /\ LET n == ChosenNode(Heap, size)
           h == Split[node[n].order][<<Taken(Heap, n), n, size>>]
       IN  /\ node' = h.node /\ first' = h.first
           /\ held' = held \cup {[page |-> node[n].address, size |-> size]}
    /\ UNCHANGED relinked

-----------------------------------------------------------------------------
(* kfree() and the two merges.                                               *)

HasLeaves(h, n) == h.node[n].left # Null /\ h.node[n].right # Null

BothLeavesFree(h, n) ==
    /\ h.node[h.node[n].left].status = "unallocated"
    /\ h.node[h.node[n].right].status = "unallocated"

\* Both leaves leave their lists and the node is whole again; leafStatus is
\* what the leaves are left with.
Joined(h, n, leafStatus) ==
    LET l == h.node[n].left
        r == h.node[n].right
        u == Unlink(Unlink(h, l), r)
    IN  [u EXCEPT !.node[l].status = leafStatus, !.node[r].status = leafStatus,
                  !.node[n].left = Null, !.node[n].right = Null,
                  !.node[n].status = "unallocated"]

\* merge_bnode() when one leaf stays allocated: a leaf is pushed if it is
\* free and HAS links, that is, if it is on a list already.
Relink(h, n) ==
    IF /\ h.node[n].status = "unallocated"
       /\ h.node[n].next # Null \/ h.node[n].prev # Null
    THEN [PushFirst(h, n) EXCEPT !.relinked = TRUE]
    ELSE h

\* Mutant: the right leaf is freed too when the left one is all there is.
ReachesRightMutant(limit, half) == limit >= half
\* The freed pages reach into the right leaf.
ReachesRight(limit, half) == limit > half

MergeBnodeTurn(below, h, n, limit) ==
    LET half == Type[h.node[n].order - 1]
        h1   == below[<<h, h.node[n].left, limit>>]
        h2   == IF ReachesRight(limit, half)
                THEN below[<<h1, h1.node[n].right, limit - half>>] ELSE h1
    IN  IF ~HasLeaves(h, n) THEN [h EXCEPT !.node[n].status = "unallocated"]
        ELSE IF BothLeavesFree(h2, n) THEN Joined(h2, n, "unallocated")
        ELSE Relink(Relink(h2, h2.node[n].left), h2.node[n].right)
MergeBnode[o \in Orders] ==
    [a \in Heaps \X Nodes \X Nat |->
        MergeBnodeTurn(IF o = 0 THEN <<>> ELSE MergeBnode[o - 1], a[1], a[2], a[3])]

\* Mutant: the right leaf's own leaves are not merged.
MergedBelowMutant(below, h, n) == below[<<h, h.node[n].left>>]
MergedBelow(below, h, n) ==
    LET h1 == below[<<h, h.node[n].left>>] IN below[<<h1, h1.node[n].right>>]

MergeBnodeNolimitTurn(below, h, n) ==
    LET merged == MergedBelow(below, h, n)
    IN  IF ~HasLeaves(h, n) THEN h
        ELSE IF BothLeavesFree(merged, n) THEN Joined(merged, n, "nonode") ELSE merged
MergeBnodeNolimit[o \in Orders] ==
    [a \in Heaps \X Nodes |->
        MergeBnodeNolimitTurn(IF o = 0 THEN <<>> ELSE MergeBnodeNolimit[o - 1], a[1], a[2])]

\* The highest node of the address, on the way down from node n.
RootTurn(below, h, n, page) ==
    IF h.node[n].address >= page THEN n
    ELSE IF h.node[h.node[n].right].address > page THEN below[<<h, h.node[n].left, page>>]
    ELSE below[<<h, h.node[n].right, page>>]
RootFrom[o \in Orders] ==
    [a \in Heaps \X Nodes \X Pages |->
        RootTurn(IF o = 0 THEN <<>> ELSE RootFrom[o - 1], a[1], a[2], a[3])]

Kfree(page, size) ==
    LET high   == MaxNode(1 + page \div Type[MaxOrder])
        root   == RootFrom[MaxOrder][<<Heap, high, page>>]
        freed  == MergeBnode[node[root].order][<<Heap, root, size>>]
        merged == MergeBnodeNolimit[MaxOrder][<<freed, high>>]
        h      == IF root # high /\ merged.node[root].status = "unallocated"
                  THEN PushFirst(merged, root) ELSE merged
    IN  /\ [page |-> page, size |-> size] \in held
        /\ node' = h.node /\ first' = h.first /\ relinked' = (relinked \/ h.relinked)
        /\ held' = held \ {[page |-> page, size |-> size]}

Next ==
    \/ \E size \in Sizes : Kalloc(size)
    \/ \E b \in held : Kfree(b.page, b.size)

Spec == Init /\ [][Next]_vars

-----------------------------------------------------------------------------
(* Properties.                                                               *)

PagesOf(b) == b.page .. b.page + b.size - 1

\* The nodes that are reached from those of the highest order in d steps.
Leaves(h, S) == UNION {{h.node[n].left, h.node[n].right} : n \in {m \in S : HasLeaves(h, m)}}
LiveAt(h) ==
    LET at[d \in Orders] == IF d = 0 THEN MaxNodes ELSE Leaves(h, at[d - 1])
    IN  at
LiveNodes == UNION {LiveAt(Heap)[d] : d \in Orders}

\* The nodes without leaves cut the heap into pieces, one for each page.
PieceOf(page) ==
    CHOOSE n \in LiveNodes :
        ~HasLeaves(Heap, n) /\ page \in node[n].address .. node[n].address + Type[node[n].order] - 1

\* The nodes on the free list of an order, counted up to one more than there
\* are so that a cycle shows.
ListNode(o) ==
    LET at[i \in 0 .. Cardinality(Nodes)] ==
            IF i = 0 THEN first[o]
            ELSE IF at[i - 1] = Null THEN Null ELSE node[at[i - 1]].next
    IN  at
Listed(o) == {ListNode(o)[i] : i \in 0 .. Cardinality(Nodes)} \ {Null}

\* What kalloc() promises: the pages it hands out belong to one caller.
BlocksDisjoint == \A b, c \in held : b # c => PagesOf(b) \cap PagesOf(c) = {}

\* Until the first relink the tree tells which pages are held: a page lies in
\* an allocated piece if and only if a caller holds it, and one caller only.
\* Splits, both merges and the descent to the root of a freed block agree.
TreeTellsHeldPages ==
    ~relinked =>
        /\ BlocksDisjoint
        /\ \A p \in Pages :
               node[PieceOf(p)].status = "allocated" <=> \E b \in held : p \in PagesOf(b)

\* Until the first relink every free list is a proper doubly linked list of
\* free pieces of its order: no cycle, no node merged away or handed out.
FreeListsSound ==
    ~relinked =>
        \A o \in Orders \ {MaxOrder} :
            LET at == ListNode(o)
            IN  /\ at[Cardinality(Nodes)] = Null
                /\ \A n \in Listed(o) :
                       n \in LiveNodes /\ node[n].status = "unallocated"
                           /\ node[n].order = o /\ ~HasLeaves(Heap, n)
                /\ \A i \in 0 .. Cardinality(Nodes) :
                       at[i] # Null =>
                           node[at[i]].prev = IF i = 0 THEN Null ELSE at[i - 1]

\* Until the first relink, what is lost to the free lists comes back: a block
\* of the highest order with no page held is whole again and can be chosen,
\* and its pages can be had in one piece.
EmptyBlocksWhole ==
    ~relinked =>
        \A b \in 1 .. Blocks :
            LET pages == node[MaxNode(b)].address .. node[MaxNode(b)].address + Type[MaxOrder] - 1
            IN  (\A c \in held : PagesOf(c) \cap pages = {}) =>
                    MaxNode(b) \in FreeMaxNodes(Heap) /\ ~HasLeaves(Heap, MaxNode(b))

\* Until the first relink the allocator implements PageService: splitting,
\* merging and lists never show in who has which pages.  In particular a block
\* that is held is not handed out again, not even as a whole.
Service == INSTANCE PageService WITH HeapPages <- Pages, Sizes <- Sizes, held <- held

ServesPages == Service!Init /\ [][~relinked' => Service!Next]_vars
=============================================================================
