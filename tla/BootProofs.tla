------------------------------ MODULE BootProofs -------------------------------
(***************************************************************************)
(* Theorems about the start of the kernel.  About HeapLayout, for every    *)
(* memory map and every size of blocks and nodes: what memory_init() lays  *)
(* out does not overlap, exceeds its range by less than one block, and     *)
(* lies where the map's low words say.  About PciScan, for buses of every  *)
(* size and every configuration space: the find functions end with the     *)
(* last function that matches, and enum_PCI() lists every function once,   *)
(* in order.  About Boot: the start of the kernel takes that walk and lays *)
(* out that heap whatever interrupts and tasks come in between, handlers   *)
(* are registered and data is made before interrupts, tasks and the card   *)
(* use them, and interrupts are on at the end.                             *)
(***************************************************************************)
EXTENDS Boot, SequenceTheorems, TLAPS

-----------------------------------------------------------------------------
(* The layout of the heap                                                  *)

(* What is known of the constants and of the sizes computed from them       *)
LEMMA Sizes == Records \in Nat \ {0} /\ BlockSize \in Nat \ {0} /\ NodeSize \in Nat \ {0}
  BY LayoutAssumption, SMT DEF Records

(* The quotient and the remainder of a division *)
LEMMA Division ==
  ASSUME NEW a \in Nat, NEW b \in Nat \ {0}
  PROVE  /\ a \div b \in Nat /\ a % b \in Nat
         /\ b * (a \div b) <= a /\ a < b * (a \div b) + b
         /\ a = b * (a \div b) + (a % b)
<1>1. a \div b \in Nat /\ a % b \in Nat
  BY SMT
<1>2. a = b * (a \div b) + (a % b)
  BY SMT
<1>3. b * (a \div b) <= a
  BY SMT
<1>4. a < b * (a \div b) + b
  BY SMT
<1> QED
  BY <1>1, <1>2, <1>3, <1>4

(* Products of numbers are numbers. *)
LEMMA Product ==
  ASSUME NEW a \in Nat, NEW c \in Nat
  PROVE  a * c \in Nat
  BY SMT

(* Products grow with their factors. *)
LEMMA Monotone ==
  ASSUME NEW a \in Nat, NEW b \in Nat, NEW c \in Nat, a <= b
  PROVE  a * c <= b * c
  BY SMT

(* Intervals of size c that begin at multiples of c do not overlap.         *)
LEMMA Intervals ==
  ASSUME NEW m \in Nat, NEW n \in Nat, NEW c \in Nat, m < n
  PROVE  m * c + c <= n * c /\ m * c \in Nat /\ n * c \in Nat
<1>1. (m + 1) * c <= n * c
  BY Monotone
<1>2. (m + 1) * c = m * c + c
  BY SMT
<1> QED
  BY <1>1, <1>2, Product

(* The header holds the records of all blocks and less than a block more.   *)
LEMMA HeaderHolds ==
  ASSUME NEW blocks \in Nat
  PROVE  /\ HeaderSize(blocks) \in Nat
         /\ blocks * Records <= HeaderSize(blocks)
         /\ HeaderSize(blocks) < blocks * Records + BlockSize
<1> DEFINE all == Records * blocks
           quotient == all \div BlockSize
<1>1. all \in Nat /\ all = blocks * Records
  BY Sizes, SMT
<1>2. /\ quotient \in Nat /\ all % BlockSize \in Nat
      /\ BlockSize * quotient <= all /\ all < BlockSize * quotient + BlockSize
      /\ all = BlockSize * quotient + (all % BlockSize)
  BY <1>1, Sizes, Division
<1> HIDE DEF all, quotient
<1>3. (quotient + 1) * BlockSize = BlockSize * quotient + BlockSize /\ quotient * BlockSize = BlockSize * quotient
  BY <1>2, Sizes, SMT
<1>4. HeaderSize(blocks) = IF all % BlockSize # 0 THEN (quotient + 1) * BlockSize ELSE quotient * BlockSize
  BY DEF HeaderSize, all, quotient
<1>5. BlockSize * quotient \in Nat
  BY <1>2, Sizes, SMT
<1>6. CASE all % BlockSize # 0
  <2>1. HeaderSize(blocks) = BlockSize * quotient + BlockSize
    BY <1>3, <1>4, <1>6
  <2> QED
    BY <1>1, <1>2, <1>5, <1>6, <2>1, Sizes
<1>7. CASE all % BlockSize = 0
  <2>1. HeaderSize(blocks) = BlockSize * quotient
    BY <1>3, <1>4, <1>7
  <2> QED
    BY <1>1, <1>2, <1>5, <1>7, <2>1, Sizes
<1> QED
  BY <1>6, <1>7

(* Header and blocks together exceed the range by less than a block.        *)
LEMMA FitsButOne ==
  ASSUME NEW length \in Nat
  PROVE  /\ BlockCount(length) \in Nat
         /\ HeaderSize(BlockCount(length)) + BlockCount(length) * BlockSize < length + BlockSize
<1> DEFINE blocks == BlockCount(length)
           size == Records + BlockSize
<1>1. size \in Nat \ {0}
  BY Sizes, SMT
<1>2. blocks \in Nat /\ size * blocks <= length
  BY <1>1, Division DEF BlockCount
<1> HIDE DEF blocks
<1>3. size * blocks = blocks * Records + blocks * BlockSize
  BY <1>2, Sizes, SMT
<1>4. /\ HeaderSize(blocks) \in Nat /\ HeaderSize(blocks) < blocks * Records + BlockSize
      /\ blocks * Records \in Nat /\ blocks * BlockSize \in Nat
  BY <1>2, HeaderHolds, Product, Sizes
<1>5. HeaderSize(blocks) + blocks * BlockSize < length + BlockSize
  BY <1>2, <1>3, <1>4, Sizes
<1> QED
  BY <1>2, <1>5 DEF blocks

-----------------------------------------------------------------------------
(* The inductive invariant: how far each loop has come and what it has     *)
(* established so far                                                      *)

NothingMade == pc \in {"collect", "scan"} => nodes = <<>> /\ count = 0 /\ body = 0
Collecting == pc = "collect" => maxLen = 0 /\ start = 0
CopiedButLast ==
  /\ \A k \in 1 .. Len(copied) : copied[k] = bios[k]
  /\ IF pc = "collect" THEN i = Len(copied) ELSE Len(copied) = Len(bios) - 1
(* The range that start and maxLen were taken from *)
Chosen(range) == range.baseL = start /\ range.lengthL = maxLen /\ range.type = 1
ScannedTo(bound) ==
  /\ maxLen > 0 => \E k \in 1 .. bound : Chosen(copied[k])
  /\ \A k \in 1 .. bound : copied[k].type = 1 => copied[k].lengthL <= maxLen
ScanningRanges == pc = "scan" => i <= Len(copied) /\ ScannedTo(i)
LaidOut ==
  pc \in {"nodes", "done"} =>
    /\ ScannedTo(Len(copied))
    /\ count = BlockCount(maxLen) /\ body = start + HeaderSize(count)
    /\ i = Len(nodes)
    /\ \A n \in 1 .. Len(nodes) :
         nodes[n] = [at |-> start + (n - 1) * Records, address |-> body + (n - 1) * BlockSize]

LayoutTypes ==
  /\ bios \in Maps /\ bios \in Seq(Ranges) /\ pc \in {"collect", "scan", "nodes", "done"}
  /\ copied \in Seq(Ranges)
  /\ i \in Nat /\ start \in Nat /\ maxLen \in Nat /\ count \in Nat /\ body \in Nat
  /\ nodes \in Seq([at : Nat, address : Nat]) /\ Len(nodes) <= count

LayoutInv == LayoutTypes /\ NothingMade /\ Collecting /\ CopiedButLast /\ ScanningRanges /\ LaidOut

(* The invariant holds before the boot loader asks for the memory map. *)
LEMMA LayoutInitInv == Init => LayoutInv
  BY LayoutAssumption, SMT DEF Init, LayoutInv, LayoutTypes, NothingMade, Collecting, CopiedButLast, ScanningRanges, LaidOut

(* The boot loader's loop copies entries one by one and leaves the last out. *)
LEMMA CollectInv == LayoutInv /\ Collect => LayoutInv'
<1> SUFFICES ASSUME LayoutInv, Collect PROVE LayoutInv'
  OBVIOUS
<1> USE DEF LayoutInv, LayoutTypes, Collect
<1>1. CASE i + 1 = Len(bios)
  <2>1. pc' = "scan" /\ i' = 0 /\ copied' = copied
    BY <1>1
  <2>2. ScanningRanges'
    BY <2>1 DEF ScanningRanges, ScannedTo, Collecting
  <2>3. CopiedButLast'
    BY <1>1, <2>1 DEF CopiedButLast
  <2> QED
    BY <2>1, <2>2, <2>3 DEF NothingMade, Collecting, LaidOut
<1>2. CASE i + 1 # Len(bios)
  <2>1. pc' = "collect" /\ i' = i + 1 /\ copied' = Append(copied, bios[i + 1])
    BY <1>2
  <2>2. copied' \in Seq(Ranges)
    <3>1. bios[i + 1] \in Ranges
      BY SMT
    <3> QED
      BY <2>1, <3>1
  <2>3. CopiedButLast'
    <3>1. Len(copied') = Len(copied) + 1 /\ i = Len(copied)
      BY <2>1 DEF CopiedButLast
    <3>2. \A k \in 1 .. Len(copied') : copied'[k] = bios[k]
      BY <2>1, <3>1 DEF CopiedButLast
    <3> QED
      BY <2>1, <3>1, <3>2 DEF CopiedButLast
  <2> QED
    BY <2>1, <2>2, <2>3 DEF NothingMade, Collecting, ScanningRanges, LaidOut
<1> QED
  BY <1>1, <1>2

(* The scan keeps the usable range with the largest low word of its length. *)
LEMMA ScanRangeInv == LayoutInv /\ Scan => LayoutInv'
<1> SUFFICES ASSUME LayoutInv, Scan PROVE LayoutInv'
  OBVIOUS
<1> USE DEF LayoutInv, LayoutTypes, Scan
<1> DEFINE entry == copied[i + 1]
<1>1. /\ pc = "scan" /\ pc' = "scan" /\ i' = i + 1 /\ i + 1 <= Len(copied) /\ copied' = copied
      /\ entry \in Ranges
  BY SMT
<1>2. CASE LongerUsable(entry)
  <2>1. start' = entry.baseL /\ maxLen' = entry.lengthL /\ entry.type = 1 /\ entry.lengthL > maxLen
    BY <1>2 DEF LongerUsable
  <2>2. start' \in Nat /\ maxLen' \in Nat
    <3>1. entry.baseL \in Nat /\ entry.lengthL \in Nat
      BY <1>1 DEF Ranges
    <3> HIDE DEF entry
    <3> QED
      BY <2>1, <3>1
  <2>3. ScannedTo(i)
    BY <1>1 DEF ScanningRanges
  <2>4. \A k \in 1 .. i + 1 : copied[k].type = 1 => copied[k].lengthL <= maxLen'
    <3> TAKE k \in 1 .. i + 1
    <3>1. copied[k] \in Ranges
      BY <1>1
    <3>2. CASE k = i + 1
      BY <2>1, <2>2, <3>2
    <3>3. CASE k # i + 1
      <4>1. k \in 1 .. i
        BY <1>1, <3>3
      <4>2. copied[k].lengthL \in Nat /\ entry.lengthL \in Nat
        BY <1>1, <3>1 DEF Ranges
      <4>3. copied[k].type = 1 => copied[k].lengthL <= maxLen
        BY <2>3, <4>1 DEF ScannedTo
      <4> HIDE DEF entry
      <4> QED
        BY <2>1, <4>2, <4>3
    <3> QED
      BY <3>2, <3>3
  <2>5. \E k \in 1 .. i' : Chosen(copied[k])'
    <3>1. i' \in 1 .. i' /\ copied'[i'] = entry
      BY <1>1
    <3> HIDE DEF entry
    <3>2. /\ copied'[i'].baseL = start' /\ copied'[i'].lengthL = maxLen'
          /\ copied'[i'].type = 1
      BY <2>1, <3>1
    <3> QED
      BY <3>1, <3>2, Zenon DEF Chosen
  <2>6. \A k \in 1 .. i' : copied'[k].type = 1 => copied'[k].lengthL <= maxLen'
    BY <1>1, <2>4
  <2>7. ScannedTo(i)'
    BY <2>5, <2>6, Zenon DEF ScannedTo
  <2>8. ScanningRanges'
    <3>1. i' <= Len(copied')
      BY <1>1
    <3> QED
      BY <2>7, <3>1, Zenon DEF ScanningRanges
  <2>9. nodes' = nodes /\ count' = count /\ body' = body /\ bios' = bios
    OBVIOUS
  <2>10. NothingMade' /\ Collecting' /\ CopiedButLast' /\ LaidOut'
    BY <1>1, <2>9 DEF NothingMade, Collecting, CopiedButLast, LaidOut
  <2>11. LayoutTypes'
    BY <1>1, <2>2, <2>9
  <2> HIDE DEF LayoutTypes
  <2> QED
    BY <2>8, <2>10, <2>11
<1>3. CASE ~LongerUsable(entry)
  <2>1. start' = start /\ maxLen' = maxLen
    BY <1>3
  <2>2. ScannedTo(i)
    BY <1>1 DEF ScanningRanges
  <2>3. entry.type = 1 => entry.lengthL <= maxLen
    <3>1. entry.lengthL \in Nat
      BY <1>1 DEF Ranges
    <3> HIDE DEF entry
    <3> QED
      BY <1>3, <3>1 DEF LongerUsable
  <2>4. \A k \in 1 .. i + 1 : copied[k].type = 1 => copied[k].lengthL <= maxLen
    <3> TAKE k \in 1 .. i + 1
    <3>1. CASE k = i + 1
      BY <2>3, <3>1
    <3>2. CASE k # i + 1
      <4>1. k \in 1 .. i
        BY <1>1, <3>2
      <4> QED
        BY <2>2, <4>1 DEF ScannedTo
    <3> QED
      BY <3>1, <3>2
  <2>5. maxLen > 0 => \E k \in 1 .. i + 1 : Chosen(copied[k])
    <3> SUFFICES ASSUME maxLen > 0
                 PROVE  \E k \in 1 .. i + 1 : Chosen(copied[k])
      OBVIOUS
    <3>1. PICK k \in 1 .. i : Chosen(copied[k])
      BY <2>2, Zenon DEF ScannedTo
    <3>2. k \in 1 .. i + 1
      BY SMT
    <3> QED
      BY <3>1, <3>2, Zenon
  <2>6. maxLen' > 0 => \E k \in 1 .. i' : Chosen(copied[k])'
    BY <1>1, <2>1, <2>5, Zenon DEF Chosen
  <2>7. \A k \in 1 .. i' : copied'[k].type = 1 => copied'[k].lengthL <= maxLen'
    BY <1>1, <2>1, <2>4, Zenon
  <2>8. ScanningRanges'
    <3>1. i' <= Len(copied')
      BY <1>1
    <3> QED
      BY <2>6, <2>7, <3>1, Zenon DEF ScanningRanges, ScannedTo
  <2> QED
    BY <1>1, <2>1, <2>8 DEF NothingMade, Collecting, CopiedButLast, LaidOut
<1> QED
  BY <1>2, <1>3

(* What memory_init() computes from the range makes the layout. *)
LEMMA LayoutStepInv == LayoutInv /\ Layout => LayoutInv'
<1> SUFFICES ASSUME LayoutInv, Layout PROVE LayoutInv'
  OBVIOUS
<1> USE DEF LayoutInv, LayoutTypes, Layout
<1>1. count' \in Nat /\ body' \in Nat
  <2>1. BlockCount(maxLen) \in Nat
    BY FitsButOne
  <2>2. HeaderSize(BlockCount(maxLen)) \in Nat
    BY <2>1, HeaderHolds
  <2> QED
    BY <2>1, <2>2
<1>2. nodes' = <<>> /\ i' = 0 /\ pc' = "nodes" /\ copied' = copied /\ maxLen' = maxLen /\ start' = start
  BY DEF NothingMade
<1>3. ScannedTo(Len(copied))
  BY DEF ScanningRanges
<1>4. LaidOut'
  <2>1. ScannedTo(Len(copied))'
    BY <1>2, <1>3, Zenon DEF ScannedTo, Chosen
  <2>2. count' = BlockCount(maxLen') /\ body' = start' + HeaderSize(count')
    BY <1>2
  <2>3. i' = Len(nodes') /\ 1 .. Len(nodes') = {}
    BY <1>2
  <2> HIDE DEF Layout, LayoutInv, LayoutTypes
  <2> QED
    BY <2>1, <2>2, <2>3 DEF LaidOut
<1>5. nodes' \in Seq([at : Nat, address : Nat]) /\ Len(nodes') <= count'
  BY <1>1, <1>2
<1> HIDE DEF LayoutInv, LayoutTypes
<1>6. LayoutTypes'
  BY <1>1, <1>2, <1>5 DEF LayoutInv, LayoutTypes
<1> QED
  BY <1>2, <1>4, <1>6 DEF LayoutInv, NothingMade, Collecting, CopiedButLast, ScanningRanges

(* The node loop puts each node behind the one before it. *)
LEMMA MakeNodeInv == LayoutInv /\ MakeNode => LayoutInv'
<1> SUFFICES ASSUME LayoutInv, MakeNode PROVE LayoutInv'
  OBVIOUS
<1> USE DEF LayoutInv, LayoutTypes, MakeNode, MoreNodes
<1> DEFINE node == [at |-> start + i * Records, address |-> AddressOf(i)]
<1>1. i * Records \in Nat /\ i * BlockSize \in Nat
  BY Product, Sizes
<1>2. node \in [at : Nat, address : Nat] /\ node.address = body + i * BlockSize
  BY <1>1 DEF AddressOf
<1>3. nodes' = Append(nodes, node) /\ i' = i + 1 /\ i = Len(nodes) /\ pc' = "nodes" /\ pc = "nodes"
  BY DEF LaidOut
<1>4. nodes' \in Seq([at : Nat, address : Nat]) /\ Len(nodes') = Len(nodes) + 1
  BY <1>2, <1>3
<1>5. \A n \in 1 .. Len(nodes') :
        nodes'[n] = [at |-> start + (n - 1) * Records, address |-> body + (n - 1) * BlockSize]
  <2> TAKE n \in 1 .. Len(nodes')
  <2>1. CASE n = Len(nodes) + 1
    <3>1. nodes'[n] = node /\ n - 1 = i
      BY <1>2, <1>3, <2>1
    <3> QED
      BY <3>1 DEF AddressOf
  <2>2. CASE n # Len(nodes) + 1
    <3>1. n \in 1 .. Len(nodes) /\ nodes'[n] = nodes[n]
      BY <1>2, <1>3, <1>4, <2>2
    <3> QED
      BY <1>3, <3>1 DEF LaidOut
  <2> QED
    BY <2>1, <2>2
<1>6. LaidOut'
  BY <1>3, <1>4, <1>5 DEF LaidOut, ScannedTo, Chosen
<1>7. Len(nodes') <= count'
  BY <1>3, <1>4
<1> HIDE DEF node, LayoutInv, LayoutTypes, MakeNode, MoreNodes
<1>8. LayoutTypes'
  <2>1. i' \in Nat
    BY <1>3 DEF LayoutInv, LayoutTypes
  <2> QED
    BY <1>3, <1>4, <1>7, <2>1, Zenon DEF LayoutInv, LayoutTypes, MakeNode
<1>9. NothingMade' /\ Collecting' /\ CopiedButLast' /\ ScanningRanges'
  BY <1>3, <1>7, <1>8 DEF LayoutInv, MakeNode, NothingMade, Collecting, CopiedButLast, ScanningRanges
<1> QED
  BY <1>6, <1>8, <1>9, Zenon DEF LayoutInv

(* Every step keeps the invariant. *)
LEMMA LayoutNextInv == LayoutInv /\ [Next]_vars => LayoutInv'
<1> SUFFICES ASSUME LayoutInv, [Next]_vars PROVE LayoutInv'
  OBVIOUS
<1>1. CASE Collect
  BY <1>1, CollectInv
<1>2. CASE Scan
  BY <1>2, ScanRangeInv
<1>3. CASE Layout
  BY <1>3, LayoutStepInv
<1>4. CASE MakeNode
  BY <1>4, MakeNodeInv
<1>5. CASE Finish
  BY <1>5 DEF Finish, LayoutInv, LayoutTypes, NothingMade, Collecting, CopiedButLast, ScanningRanges, LaidOut, ScannedTo, Chosen
<1>6. CASE UNCHANGED vars
  BY <1>6 DEF vars, LayoutInv, LayoutTypes, NothingMade, Collecting, CopiedButLast, ScanningRanges, LaidOut, ScannedTo, Chosen
<1> QED
  BY <1>1, <1>2, <1>3, <1>4, <1>5, <1>6 DEF Next

(* The invariant holds in every state of every behaviour of memory_init()   *)
(* and the boot loader's loop.                                              *)
THEOREM LayoutInvariant == Spec => []LayoutInv
<1>1. Init => LayoutInv
  BY LayoutInitInv
<1>2. LayoutInv /\ [Next]_vars => LayoutInv'
  BY LayoutNextInv
<1> QED
  BY <1>1, <1>2, PTL DEF Spec

(* The types of the variables, for all maps and sizes *)
THEOREM TypeCorrect == Spec => []TypeOK
<1>1. LayoutInv => TypeOK
  BY DEF LayoutInv, LayoutTypes, TypeOK, Ranges
<1> QED
  BY <1>1, LayoutInvariant, PTL

(* The heap starts at the low word of the base of the usable range whose    *)
(* length has the largest low word, the last entry of the memory map left   *)
(* out; if all usable ranges lie below 4 GB, none of them is longer         *)
(* (bootloader_ss.asm:37-105, memory.c:123-131).                            *)
THEOREM HeapByLowWords == Spec => []LongestUsable
<1>1. LayoutInv => LongestUsable
  <2> SUFFICES ASSUME LayoutInv, pc \in {"nodes", "done"}
               PROVE  LongestUsable
    BY DEF LongestUsable
  <2>1. ScannedTo(Len(copied)) /\ bios \in Seq(Ranges) /\ maxLen \in Nat
    BY DEF LayoutInv, LayoutTypes, LaidOut
  <2>2. Len(copied) = Len(bios) - 1 /\ \A k \in 1 .. Len(copied) : copied[k] = bios[k]
    BY DEF LayoutInv, CopiedButLast
  <2>3. \A k \in Usable : bios[k] \in Ranges /\ bios[k].lengthL <= maxLen
    BY <2>1, <2>2 DEF Usable, ScannedTo
  <2>4. ASSUME maxLen > 0
        PROVE  \E k \in Usable : Chosen(bios[k])
    BY <2>1, <2>2, <2>4 DEF Usable, ScannedTo, Chosen
  <2>5. ASSUME NEW k \in Usable, Chosen(bios[k]), NEW m \in Usable,
               Below4GB(bios[k]), Below4GB(bios[m])
        PROVE  ~Longer(bios[m], bios[k])
    BY <2>3, <2>5 DEF Chosen, Below4GB, Longer, Ranges
  <2> QED
    BY <2>3, <2>4, <2>5 DEF LongestUsable, Chosen
<1> QED
  BY <1>1, LayoutInvariant, PTL

(* What the invariant says of node n *)
LEMMA NodeAt ==
  ASSUME LayoutInv, NEW n \in DOMAIN nodes
  PROVE  \E k \in Nat :
           /\ n = k + 1 /\ k < count
           /\ nodes[n].at = start + k * Records
           /\ nodes[n].address = body + k * BlockSize
           /\ body = start + HeaderSize(count)
           /\ count = BlockCount(maxLen)
           /\ start \in Nat /\ count \in Nat /\ maxLen \in Nat
<1>1. /\ n \in 1 .. Len(nodes) /\ Len(nodes) <= count /\ nodes # <<>> /\ Len(nodes) \in Nat
      /\ pc \in {"collect", "scan", "nodes", "done"}
      /\ start \in Nat /\ count \in Nat /\ maxLen \in Nat
  BY DEF LayoutInv, LayoutTypes
<1>2. pc \in {"nodes", "done"}
  BY <1>1 DEF LayoutInv, NothingMade
<1>3. /\ nodes[n] = [at |-> start + (n - 1) * Records, address |-> body + (n - 1) * BlockSize]
      /\ count = BlockCount(maxLen) /\ body = start + HeaderSize(count)
  BY <1>1, <1>2 DEF LayoutInv, LaidOut
<1>4. n - 1 \in Nat /\ n = (n - 1) + 1 /\ n - 1 < count
  BY <1>1
<1>5. n - 1 \in Nat
  BY <1>4
<1>6. /\ n = (n - 1) + 1 /\ n - 1 < count
      /\ nodes[n].at = start + (n - 1) * Records
      /\ nodes[n].address = body + (n - 1) * BlockSize
      /\ body = start + HeaderSize(count)
      /\ count = BlockCount(maxLen)
      /\ start \in Nat /\ count \in Nat /\ maxLen \in Nat
  BY <1>1, <1>3, <1>4
<1> QED
  BY <1>5, <1>6

(* Records and blocks do not overlap each other or one another.             *)
THEOREM LayoutDisjoint == Spec => []NothingOverlaps
<1>1. LayoutInv => NothingOverlaps
  <2> SUFFICES ASSUME LayoutInv PROVE NothingOverlaps
    OBVIOUS
  <2>1. ASSUME NEW n \in DOMAIN nodes
        PROVE  start <= nodes[n].at /\ nodes[n].at + Records <= body /\ body <= nodes[n].address
    <3>1. PICK k \in Nat : /\ k < count
                           /\ nodes[n].at = start + k * Records
                           /\ nodes[n].address = body + k * BlockSize
                           /\ body = start + HeaderSize(count)
                           /\ start \in Nat /\ count \in Nat
      BY <2>1, NodeAt
    <3>2. k * Records + Records <= count * Records /\ k * Records \in Nat /\ count * Records \in Nat
      BY <3>1, Sizes, Intervals
    <3>3. count * Records <= HeaderSize(count) /\ HeaderSize(count) \in Nat /\ k * BlockSize \in Nat
      BY <3>1, HeaderHolds, Product, Sizes
    <3> QED
      BY <3>1, <3>2, <3>3, Sizes
  <2>2. ASSUME NEW m \in DOMAIN nodes, NEW n \in DOMAIN nodes, m < n
        PROVE  /\ nodes[m].at + Records <= nodes[n].at
               /\ nodes[m].address + BlockSize <= nodes[n].address
    <3>1. PICK k \in Nat : /\ n = k + 1
                           /\ nodes[n].at = start + k * Records
                           /\ nodes[n].address = body + k * BlockSize
                           /\ body = start + HeaderSize(count)
                           /\ start \in Nat /\ count \in Nat
      BY <2>2, NodeAt
    <3>2. PICK j \in Nat : /\ m = j + 1
                           /\ nodes[m].at = start + j * Records
                           /\ nodes[m].address = body + j * BlockSize
      BY <2>2, NodeAt
    <3>3. j < k
      BY <2>2, <3>1, <3>2
    <3>4. /\ j * Records + Records <= k * Records /\ j * Records \in Nat /\ k * Records \in Nat
          /\ j * BlockSize + BlockSize <= k * BlockSize /\ j * BlockSize \in Nat /\ k * BlockSize \in Nat
      BY <3>3, Sizes, Intervals
    <3>5. body \in Nat
      BY <3>1, HeaderHolds
    <3> QED
      BY <3>1, <3>2, <3>4, <3>5, Sizes
  <2> QED
    BY <2>1, <2>2 DEF NothingOverlaps
<1> QED
  BY <1>1, LayoutInvariant, PTL

(* The blocks exceed the range of the memory map by less than one block.    *)
THEOREM OverrunBounded == Spec => []OverrunBelowBlock
<1>1. LayoutInv => OverrunBelowBlock
  <2> SUFFICES ASSUME LayoutInv, NEW n \in DOMAIN nodes
               PROVE  nodes[n].address + BlockSize < start + maxLen + BlockSize
    BY DEF OverrunBelowBlock
  <2>1. PICK k \in Nat : /\ k < count
                         /\ nodes[n].address = body + k * BlockSize
                         /\ body = start + HeaderSize(count)
                         /\ count = BlockCount(maxLen)
                         /\ start \in Nat /\ count \in Nat /\ maxLen \in Nat
    BY NodeAt
  <2>2. k * BlockSize + BlockSize <= count * BlockSize /\ k * BlockSize \in Nat /\ count * BlockSize \in Nat
    BY <2>1, Sizes, Intervals
  <2>3. HeaderSize(count) \in Nat /\ HeaderSize(count) + count * BlockSize < maxLen + BlockSize
    BY <2>1, FitsButOne, HeaderHolds
  <2> QED
    BY <2>1, <2>2, <2>3, Sizes
<1> QED
  BY <1>1, LayoutInvariant, PTL

-----------------------------------------------------------------------------
(* The walk over the PCI bus                                               *)

-----------------------------------------------------------------------------
(* The inductive invariant.                                                *)

(* The walk ends at the first function of the bus behind the last.          *)
EndsAtStart == bus = BusCount => device = 0 /\ function = 0

(* Functions from 1 on are looked at in devices that have them.             *)
InDevice == function # 0 => config[bus, device, 0].present /\ config[bus, device, 0].multi

Match(p) == Exists(p) /\ Matches(config[p])

(* The token is the last match of the part visited.                         *)
TokenIsLast ==
  /\ token # <<0, 0, 0>> => Match(token)
  /\ \A p \in Places : Match(p) /\ Before(p, Here) => ~Before(token, p)

(* The list is of that part, in order.                                      *)
ListedSoFar ==
  /\ \A k \in DOMAIN listed : Exists(listed[k]) /\ Before(listed[k], Here)
  /\ \A p \in Places : Exists(p) /\ Before(p, Here) => \E k \in DOMAIN listed : listed[k] = p
  /\ \A k, l \in DOMAIN listed : k < l => Before(listed[k], listed[l])

ScanInv == ScanTypeOK /\ EndsAtStart /\ InDevice /\ TokenIsLast /\ ListedSoFar

-----------------------------------------------------------------------------
(* Places are triples of numbers.                                           *)
LEMMA PlaceNumbers ==
  ASSUME NEW p \in Places
  PROVE  /\ p = <<p[1], p[2], p[3]>>
         /\ p[1] \in 0 .. BusCount - 1 /\ p[2] \in 0 .. DeviceCount - 1
         /\ p[3] \in 0 .. FunctionCount - 1
  BY DEF Places

(* The header of a place that can be visited                                *)
LEMMA HeaderOf ==
  ASSUME ScanTypeOK, NEW p \in Places
  PROVE  /\ config[p].present \in BOOLEAN
         /\ <<p[1], p[2], 0>> \in Places /\ config[p[1], p[2], 0].present \in BOOLEAN
         /\ config[p[1], p[2], 0].multi \in BOOLEAN
<1>1. <<p[1], p[2], 0>> \in Places
  BY PlaceNumbers, PciAssumption DEF Places
<1>2. config \in [Places -> Headers]
  BY PciAssumption DEF ScanTypeOK
<1> QED
  BY <1>1, <1>2 DEF Headers

(* While it scans, the walk is at a place.                                  *)
LEMMA HereIsPlace ==
  ASSUME ScanTypeOK, Scanning
  PROVE  Here \in Places /\ Here[1] = bus /\ Here[2] = device /\ Here[3] = function
  BY PciAssumption DEF ScanTypeOK, Scanning, Here, Places

(* The place visited is a function if its vendor ID is not 0xFFFF.          *)
LEMMA HereExists ==
  ASSUME ScanInv, Scanning
  PROVE  Exists(Here) <=> config[Here].present
<1>1. Here \in Places /\ Here[1] = bus /\ Here[2] = device /\ Here[3] = function
  BY HereIsPlace DEF ScanInv
<1>2. CASE function = 0
  BY <1>1, <1>2 DEF Exists, Here
<1>3. CASE function # 0
  BY <1>1, <1>3 DEF Exists, ScanInv, InDevice
<1> QED
  BY <1>2, <1>3

(* What Advance does to the place                                           *)
LEMMA AdvancedTypes ==
  ASSUME ScanInv, Scanning, Advance
  PROVE  /\ bus' \in 0 .. BusCount /\ device' \in 0 .. DeviceCount - 1
         /\ function' \in 0 .. FunctionCount - 1
         /\ bus' = BusCount => device' = 0 /\ function' = 0
<1>1. /\ bus \in 0 .. BusCount - 1 /\ device \in 0 .. DeviceCount - 1
      /\ function \in 0 .. FunctionCount - 1
      /\ BusCount \in Nat /\ DeviceCount \in Nat /\ FunctionCount \in Nat
  BY PciAssumption DEF ScanInv, ScanTypeOK, Scanning
<1>2. CASE MoreFunctions
  <2>1. function + 1 < FunctionCount /\ function' = function + 1 /\ UNCHANGED <<bus, device>>
    BY <1>2 DEF MoreFunctions, Advance
  <2> QED
    BY <1>1, <2>1
<1>3. CASE ~MoreFunctions /\ device + 1 < DeviceCount
  <2>1. function' = 0 /\ device' = device + 1 /\ bus' = bus
    BY <1>3 DEF Advance
  <2> QED
    BY <1>1, <1>3, <2>1
<1>4. CASE ~MoreFunctions /\ ~(device + 1 < DeviceCount)
  <2>1. function' = 0 /\ device' = 0 /\ bus' = bus + 1
    BY <1>4 DEF Advance
  <2> QED
    BY <1>1, <2>1
<1> QED
  BY <1>2, <1>3, <1>4

(* An earlier function is never the place itself, and order is transitive.  *)
LEMMA Order ==
  ASSUME NEW p \in Places, NEW q \in Places
  PROVE  ~Before(p, p) /\ (Before(p, q) => ~Before(q, p))
         /\ (p = q \/ Before(p, q) \/ Before(q, p))
  BY PlaceNumbers DEF Before

(* One step takes the walk past the place it is at and past no function     *)
(* but that.                                                                *)
LEMMA StepPast ==
  ASSUME ScanInv, Scanning, Advance, NEW p \in Places, Exists(p)
  PROVE  Before(p, Here') <=> Before(p, Here) \/ p = Here
<1>1. /\ p = <<p[1], p[2], p[3]>>
      /\ p[1] \in 0 .. BusCount - 1 /\ p[2] \in 0 .. DeviceCount - 1
      /\ p[3] \in 0 .. FunctionCount - 1
  BY PlaceNumbers
<1>2. /\ bus \in 0 .. BusCount - 1 /\ device \in 0 .. DeviceCount - 1
      /\ function \in 0 .. FunctionCount - 1
      /\ BusCount \in Nat /\ DeviceCount \in Nat /\ FunctionCount \in Nat
  BY PciAssumption DEF ScanInv, ScanTypeOK, Scanning
<1>3. p = Here <=> p[1] = bus /\ p[2] = device /\ p[3] = function
  BY <1>1 DEF Here
<1>4. Before(p, Here) <=> \/ p[1] < bus
                          \/ p[1] = bus /\ p[2] < device
                          \/ p[1] = bus /\ p[2] = device /\ p[3] < function
  BY DEF Before, Here
<1>5. Before(p, Here') <=> \/ p[1] < bus'
                           \/ p[1] = bus' /\ p[2] < device'
                           \/ p[1] = bus' /\ p[2] = device' /\ p[3] < function'
  BY DEF Before, Here
<1>6. CASE MoreFunctions
  BY <1>1, <1>2, <1>3, <1>4, <1>5, <1>6 DEF Advance
<1>7. CASE ~MoreFunctions
  <2>1. ASSUME p[1] = bus, p[2] = device PROVE p[3] <= function
    <3> SUFFICES ASSUME ~(p[3] <= function) PROVE FALSE
      OBVIOUS
    <3>1. p[3] # 0 /\ function + 1 < FunctionCount
      BY <1>1, <1>2
    <3>2. config[bus, device, 0].present /\ config[bus, device, 0].multi
      BY <2>1, <3>1 DEF Exists
    <3> QED
      BY <1>7, <3>1, <3>2 DEF MoreFunctions
  <2>2. CASE device + 1 < DeviceCount
    BY <1>1, <1>2, <1>3, <1>4, <1>5, <1>7, <2>1, <2>2 DEF Advance
  <2>3. CASE ~(device + 1 < DeviceCount)
    BY <1>1, <1>2, <1>3, <1>4, <1>5, <1>7, <2>1, <2>3 DEF Advance
  <2> QED
    BY <2>2, <2>3
<1> QED
  BY <1>6, <1>7

(* A device whose further functions are looked at has them.                 *)
LEMMA StepInDevice ==
  ASSUME ScanInv, Scanning, Advance, UNCHANGED scanned
  PROVE  InDevice'
<1>1. CASE MoreFunctions
  BY <1>1 DEF Advance, MoreFunctions, InDevice, scanned
<1>2. CASE ~MoreFunctions
  BY <1>2 DEF Advance, InDevice
<1> QED
  BY <1>1, <1>2

(* Which functions there are and what matches does not change.              *)
LEMMA SameMachine ==
  ASSUME UNCHANGED scanned
  PROVE  \A p : (Exists(p)' <=> Exists(p)) /\ (Match(p)' <=> Match(p))
  BY DEF scanned, Exists, Match, Matches

-----------------------------------------------------------------------------
(* The start: nothing is visited.                                           *)
LEMMA InitScanInv == ScanInit => ScanInv
<1> SUFFICES ASSUME ScanInit PROVE ScanInv
  OBVIOUS
<1> USE PciAssumption
<1>1. ScanTypeOK
  BY DEF ScanInit, ScanTypeOK, Places
<1>2. EndsAtStart /\ InDevice
  BY DEF ScanInit, EndsAtStart, InDevice
<1>3. Here = <<0, 0, 0>> /\ token = <<0, 0, 0>> /\ listed = <<>>
  BY DEF ScanInit, Here
<1>4. \A p \in Places : ~Before(p, <<0, 0, 0>>)
  BY PlaceNumbers DEF Before
<1>5. TokenIsLast /\ ListedSoFar
  BY <1>3, <1>4 DEF TokenIsLast, ListedSoFar
<1> QED
  BY <1>1, <1>2, <1>5 DEF ScanInv

(* A visited place is the last of the part visited, if it matches.          *)
LEMMA VisitKeepsToken ==
  ASSUME ScanInv, Visit
  PROVE  TokenIsLast'
<1>1. /\ Scanning /\ Advance /\ UNCHANGED scanned /\ token' = Found
      /\ config[Here].present
  BY DEF Visit
<1>2. Here \in Places /\ Exists(Here)
  BY <1>1, HereIsPlace, HereExists DEF ScanInv
<1>3. \A p \in Places : Match(p) => (Before(p, Here') <=> Before(p, Here) \/ p = Here)
  BY <1>1, StepPast DEF Match
<1>4. \A p : Match(p)' <=> Match(p)
  BY <1>1, SameMachine
<1>5. token \in Places
  BY DEF ScanInv, ScanTypeOK
<1>6. CASE Matches(config[Here])
  <2>1. token' = Here /\ Match(Here)
    BY <1>1, <1>2, <1>6 DEF Found, Match
  <2>2. \A p \in Places : Match(p) /\ Before(p, Here') => ~Before(Here, p)
    BY <1>2, <1>3, Order
  <2> QED
    BY <1>4, <2>1, <2>2 DEF TokenIsLast
<1>7. CASE ~Matches(config[Here])
  <2>1. token' = token /\ ~Match(Here)
    BY <1>1, <1>7 DEF Found, Match
  <2> QED
    BY <1>3, <1>4, <2>1 DEF TokenIsLast, ScanInv
<1> QED
  BY <1>6, <1>7

(* ... and the last of the list.                                            *)
LEMMA VisitKeepsList ==
  ASSUME ScanInv, Visit
  PROVE  ListedSoFar'
<1>1. /\ Scanning /\ Advance /\ UNCHANGED scanned /\ listed' = Append(listed, Here)
      /\ config[Here].present
  BY DEF Visit
<1>2. Here \in Places /\ Exists(Here)
  BY <1>1, HereIsPlace, HereExists DEF ScanInv
<1>3. \A p \in Places : Exists(p) => (Before(p, Here') <=> Before(p, Here) \/ p = Here)
  BY <1>1, StepPast
<1>4. \A p : Exists(p)' <=> Exists(p)
  BY <1>1, SameMachine
<1>5. listed \in Seq(Places) /\ ListedSoFar
  BY DEF ScanInv, ScanTypeOK
<1> DEFINE n == Len(listed)
<1>6. /\ n \in Nat /\ DOMAIN listed = 1 .. n /\ DOMAIN listed' = 1 .. n + 1
      /\ \A k \in 1 .. n : listed'[k] = listed[k] /\ listed[k] \in Places
      /\ listed'[n + 1] = Here
  BY <1>1, <1>2, <1>5
<1>7. \A k \in DOMAIN listed' : Exists(listed'[k]) /\ Before(listed'[k], Here')
  <2> TAKE k \in DOMAIN listed'
  <2>1. CASE k = n + 1
    BY <1>2, <1>3, <1>6, <2>1
  <2>2. CASE k \in 1 .. n
    BY <1>3, <1>5, <1>6, <2>2 DEF ListedSoFar
  <2> QED
    BY <1>6, <2>1, <2>2
<1>8. \A p \in Places : Exists(p) /\ Before(p, Here') => \E k \in DOMAIN listed' : listed'[k] = p
  <2> TAKE p \in Places
  <2> HAVE Exists(p) /\ Before(p, Here')
  <2>1. CASE p = Here
    <3>1. n + 1 \in DOMAIN listed' /\ listed'[n + 1] = p
      BY <1>6, <2>1
    <3> QED
      BY <3>1
  <2>2. CASE Before(p, Here)
    <3>1. PICK k \in 1 .. n : listed[k] = p
      BY <1>5, <1>6, <2>2 DEF ListedSoFar
    <3>2. k \in DOMAIN listed' /\ listed'[k] = p
      BY <1>6, <3>1
    <3> QED
      BY <3>2
  <2> QED
    BY <1>3, <2>1, <2>2
<1>9. \A k, l \in DOMAIN listed' : k < l => Before(listed'[k], listed'[l])
  <2> TAKE k, l \in DOMAIN listed'
  <2> HAVE k < l
  <2>1. k \in 1 .. n
    BY <1>6
  <2>2. CASE l = n + 1
    BY <1>5, <1>6, <2>1, <2>2 DEF ListedSoFar
  <2>3. CASE l \in 1 .. n
    BY <1>5, <1>6, <2>1, <2>3 DEF ListedSoFar
  <2> QED
    BY <1>6, <2>2, <2>3
<1> QED
  BY <1>4, <1>7, <1>8, <1>9 DEF ListedSoFar

(* A place without a function changes neither.                              *)
LEMMA SkipKeeps ==
  ASSUME ScanInv, Skip
  PROVE  TokenIsLast' /\ ListedSoFar'
<1>1. /\ Scanning /\ Advance /\ UNCHANGED <<scanned, token, listed>>
      /\ ~config[Here].present
  BY DEF Skip
<1>2. ~Exists(Here)
  BY <1>1, HereExists
<1>3. \A p \in Places : Exists(p) => (Before(p, Here') <=> Before(p, Here))
  BY <1>1, <1>2, StepPast
<1>4. \A p : (Exists(p)' <=> Exists(p)) /\ (Match(p)' <=> Match(p))
  BY <1>1, SameMachine
<1>5. \A k \in DOMAIN listed : listed[k] \in Places
  BY DEF ScanInv, ScanTypeOK
<1>6. TokenIsLast'
  BY <1>1, <1>3, <1>4 DEF ScanInv, TokenIsLast, Match
<1>7. ListedSoFar'
  BY <1>1, <1>3, <1>4, <1>5 DEF ScanInv, ListedSoFar
<1> QED
  BY <1>6, <1>7

(* Every step of the walk keeps the invariant.                              *)
LEMMA StepKeepsScanInv ==
  ASSUME ScanInv, [ScanNext]_scanVars
  PROVE  ScanInv'
<1>1. CASE Visit
  <2>1. Scanning /\ Advance /\ UNCHANGED scanned
    BY <1>1 DEF Visit
  <2>2. Here \in Places
    BY <2>1, HereIsPlace DEF ScanInv
  <2>3. token' \in Places /\ listed' \in Seq(Places)
    BY <1>1, <2>2 DEF Visit, Found, ScanInv, ScanTypeOK
  <2>4. ScanTypeOK' /\ EndsAtStart'
    BY <2>1, <2>3, AdvancedTypes DEF ScanInv, ScanTypeOK, EndsAtStart, scanned
  <2> QED
    BY <1>1, <2>1, <2>4, StepInDevice, VisitKeepsToken, VisitKeepsList DEF ScanInv
<1>2. CASE Skip
  <2>1. Scanning /\ Advance /\ UNCHANGED scanned /\ UNCHANGED <<token, listed>>
    BY <1>2 DEF Skip
  <2>2. ScanTypeOK' /\ EndsAtStart'
    BY <2>1, AdvancedTypes DEF ScanInv, ScanTypeOK, EndsAtStart, scanned
  <2> QED
    BY <1>2, <2>1, <2>2, StepInDevice, SkipKeeps DEF ScanInv
<1>3. CASE UNCHANGED scanVars
  BY <1>3 DEF scanVars, ScanInv, ScanTypeOK, EndsAtStart, InDevice, TokenIsLast, ListedSoFar,
              Match, Matches, Exists, Here
<1> QED
  BY <1>1, <1>2, <1>3 DEF ScanNext

-----------------------------------------------------------------------------
(* The inductive invariant holds in every state of the walk                 *)
(* (pci.c:48-216).                                                          *)
THEOREM ScanInvariant == ScanSpec => []ScanInv
<1>1. ScanInit => ScanInv
  BY InitScanInv
<1>2. ScanInv /\ [ScanNext]_scanVars => ScanInv'
  BY StepKeepsScanInv
<1> QED
  BY <1>1, <1>2, PTL DEF ScanSpec

(* At the end every function is in the part visited.                        *)
LEMMA AllVisited ==
  ASSUME ScanInv, ~Scanning, NEW p \in Places
  PROVE  Before(p, Here)
<1>1. bus = BusCount
  BY PciAssumption DEF ScanInv, ScanTypeOK, Scanning
<1> QED
  BY <1>1, PlaceNumbers, PciAssumption DEF Before, Here

(* The find functions leave the last function that matches in the token,    *)
(* on every bus (pci.c:48-136).                                             *)
THEOREM TokenIsLastMatch == ScanSpec => []FindsLast
<1>1. ScanInv => FindsLast
  <2> SUFFICES ASSUME ScanInv, ~Scanning
               PROVE  /\ token # <<0, 0, 0>> => token \in {p \in Places : Exists(p) /\ Matches(config[p])}
                      /\ \A p \in {q \in Places : Exists(q) /\ Matches(config[q])} : ~Before(token, p)
    BY DEF FindsLast
  <2>1. token \in Places
    BY DEF ScanInv, ScanTypeOK
  <2> QED
    BY <2>1, AllVisited DEF ScanInv, TokenIsLast, Match
<1> QED
  BY <1>1, ScanInvariant, PTL

(* enum_PCI() lists every function of the machine once (pci.c:138-216).     *)
THEOREM ListIsComplete == ScanSpec => []EnumListsAll
<1>1. ScanInv => EnumListsAll
  <2> SUFFICES ASSUME ScanInv, ~Scanning
               PROVE  /\ {p \in Places : Exists(p)} = {listed[k] : k \in DOMAIN listed}
                      /\ \A k, l \in DOMAIN listed : k < l => Before(listed[k], listed[l])
    BY DEF EnumListsAll
  <2>1. ListedSoFar /\ \A k \in DOMAIN listed : listed[k] \in Places
    BY DEF ScanInv, ScanTypeOK
  <2>2. \A p \in Places : Exists(p) => p \in {listed[k] : k \in DOMAIN listed}
    BY <2>1, AllVisited DEF ListedSoFar
  <2>3. \A k \in DOMAIN listed : listed[k] \in {p \in Places : Exists(p)}
    BY <2>1 DEF ListedSoFar
  <2> QED
    BY <2>1, <2>2, <2>3 DEF ListedSoFar
<1> QED
  BY <1>1, ScanInvariant, PTL

-----------------------------------------------------------------------------
(* The start of the kernel walks over the bus as PciScan says, or does      *)
(* something else (kernel.c:39-82).                                         *)
THEOREM BootWalks == BootSpec => ScanSpec
<1>1. BootInit => ScanInit
  BY DEF BootInit
<1>2. [BootNext]_bootVars => [ScanNext]_scanVars
  <2> SUFFICES ASSUME [BootNext]_bootVars PROVE [ScanNext]_scanVars
    OBVIOUS
  <2>1. CASE FindCard
    BY <2>1 DEF FindCard
  <2>2. CASE MainStep /\ ~FindCard
    BY <2>2 DEF MainStep, MemoryInit, WriteData, ProtectedData, Disable, Enable, PIC_init, Register,
                PIC_line_enable, Loopback, SchedulerStart, Push, Check, Command, Sleep,
                Await, Interface, CardVars
  <2>3. CASE Tick
    BY <2>3 DEF Tick, CardVars
  <2>4. CASE CardDone
    BY <2>4 DEF CardDone
  <2>5. CASE UNCHANGED bootVars
    BY <2>5 DEF bootVars
  <2> QED
    BY <2>1, <2>2, <2>3, <2>4, <2>5 DEF BootNext
<1> QED
  BY <1>1, <1>2, PTL DEF BootSpec, ScanSpec

(* ... and lays out the heap as HeapLayout says, whose properties are so    *)
(* proved of the start (memory.c:115-191).                                  *)
THEOREM BootLaysOutHeap == BootSpec => Spec
<1>1. BootInit => Init
  BY DEF BootInit
<1>2. [BootNext]_bootVars => [Next]_vars
  <2> SUFFICES ASSUME [BootNext]_bootVars PROVE [Next]_vars
    OBVIOUS
  <2>1. CASE MemoryInit
    BY <2>1 DEF MemoryInit
  <2>2. CASE MainStep /\ ~MemoryInit
    BY <2>2 DEF MainStep, FindCard, WriteData, ProtectedData, Disable, Enable, PIC_init, Register,
                PIC_line_enable, Loopback, SchedulerStart, Push, Check, Command, Sleep,
                Await, Interface, CardVars
  <2>3. CASE Tick
    BY <2>3 DEF Tick, CardVars
  <2>4. CASE CardDone
    BY <2>4 DEF CardDone
  <2>5. CASE UNCHANGED bootVars
    BY <2>5 DEF bootVars
  <2> QED
    BY <2>1, <2>2, <2>3, <2>4, <2>5 DEF BootNext
<1> QED
  BY <1>1, <1>2, PTL DEF BootSpec, Spec

(* So networking_init_device() is asked about the last Ethernet function,   *)
(* on every machine and however the start is interrupted (kernel.c:61-74),  *)
(* and a list of the functions has each one once.                           *)
THEOREM BootWalkComplete == BootSpec => []WalkComplete
<1>1. FindsLast /\ EnumListsAll => WalkComplete
  BY DEF WalkComplete
<1> QED
  BY <1>1, BootWalks, TokenIsLastMatch, ListIsComplete, PTL

-----------------------------------------------------------------------------
(* The text of the program                                                  *)

(* All instructions there are                                               *)
Ops ==
  {"memory_init", "write", "protected", "PIC_init", "enable", "disable", "register", "unmask",
   "loopback", "scheduler_start", "scan", "push", "check", "command", "sleep", "await",
   "interface"}
Data ==
  {"none", "idtr", "deltaQueue", "tasks", "interfaces", "interfaces.head", "intf",
   "rxBuffers", "RDBAL", "RCTL", "device.rxdl", "txDescriptors", "TDBAL", "TCTL",
   "device.txdl", "device.rar_add", "intf.tx_send", "intf.ip_addr", "listed"}
Instructions == [op : Ops, arg : Data \union Nat \union Tasks]

(* The name keeps concatenations folded in the proofs.                     *)
Then(s, t) == s \o t

(* A part of a program keeps its place when more is put behind it.         *)
Joins(z, s, t) ==
  /\ z \in Seq(Instructions) /\ Len(z) = Len(s) + Len(t)
  /\ \A k \in 1 .. Len(s) : z[k] = s[k]
  /\ \A k \in 1 .. Len(t) : z[Len(s) + k] = t[k]

LEMMA Joined ==
  ASSUME NEW s \in Seq(Instructions), NEW t \in Seq(Instructions)
  PROVE  Joins(Then(s, t), s, t)
<1>1. /\ s \o t \in Seq(Instructions) /\ Len(s \o t) = Len(s) + Len(t)
      /\ \A k \in 1 .. Len(s) + Len(t) : (s \o t)[k] = IF k <= Len(s) THEN s[k] ELSE t[k - Len(s)]
  BY ConcatProperties
<1>2. ASSUME NEW k \in 1 .. Len(t) PROVE (s \o t)[Len(s) + k] = t[k]
  <2>1. Len(s) + k \in 1 .. Len(s) + Len(t) /\ ~(Len(s) + k <= Len(s)) /\ (Len(s) + k) - Len(s) = k
    OBVIOUS
  <2> QED BY <1>1, <2>1
<1> QED BY <1>1, <1>2 DEF Then, Joins

(* The sequences the parts of the program are given as                      *)
LEMMA Tuples ==
  ASSUME NEW S, NEW a \in S, NEW b \in S, NEW c \in S, NEW d \in S
  PROVE  /\ <<a>> \in Seq(S) /\ Len(<<a>>) = 1
         /\ <<a, b>> \in Seq(S) /\ Len(<<a, b>>) = 2
         /\ <<a, b, c>> \in Seq(S) /\ Len(<<a, b, c>>) = 3
         /\ <<a, b, c, d>> \in Seq(S) /\ Len(<<a, b, c, d>>) = 4
  OBVIOUS

(* Each constructor makes instructions.                                     *)
LEMMA InstructionTypes ==
  /\ \A op \in Ops : Do(op) \in Instructions
  /\ \A op \in Ops, n \in Nat : DoWith(op, n) \in Instructions
  /\ \A op \in Ops, task \in Tasks : DoWith(op, task) \in Instructions
  /\ \A what \in Data : Protected(what) \in Instructions /\ Write(what) \in Instructions
  /\ \A task \in Tasks : Protected(task) \in Instructions
<1>1. \A op \in Ops, arg \in Data \union Nat \union Tasks :
         [op |-> op, arg |-> arg] \in Instructions
  BY DEF Instructions
<1>2. "none" \in Data /\ "protected" \in Ops /\ "write" \in Ops
  BY DEF Data, Ops
<1> QED BY <1>1, <1>2 DEF Do, DoWith, Protected, Write

(* How long the parts of the program are                                   *)
LEMMA Parts ==
  /\ InterruptInit \in Seq(Instructions) /\ Len(InterruptInit) = 4
  /\ SerialInit \in Seq(Instructions) /\ Len(SerialInit) = 3
  /\ TimeInit \in Seq(Instructions) /\ Len(TimeInit) = 4
  /\ KeyboardInit \in Seq(Instructions) /\ Len(KeyboardInit) = 2
  /\ SchedulerInit \in Seq(Instructions) /\ Len(SchedulerInit) = 1
  /\ \A task \in Tasks : TaskCreate(task) \in Seq(Instructions) /\ Len(TaskCreate(task)) = 2
  /\ RxInit \in Seq(Instructions) /\ Len(RxInit) = 4
  /\ TxInit \in Seq(Instructions) /\ Len(TxInit) = 4
  /\ EepromRead \in Seq(Instructions) /\ Len(EepromRead) = 2
<1>0. Spurious \in Nat /\ PIT \in Nat /\ Keyboard \in Nat /\ Blocking \in Nat
  BY DEF Spurious, PIT, Keyboard, Blocking
<1>1. InterruptInit \in Seq(Instructions) /\ Len(InterruptInit) = 4
  <2>1. Write("idtr") \in Instructions /\ Do("PIC_init") \in Instructions /\ Do("enable") \in Instructions /\ DoWith("register", Spurious) \in Instructions
    BY <1>0, InstructionTypes DEF Ops, Data
  <2> QED BY <2>1, Tuples DEF InterruptInit
<1>2. SerialInit \in Seq(Instructions) /\ Len(SerialInit) = 3
  <2>1. Do("disable") \in Instructions /\ Do("loopback") \in Instructions /\ Do("enable") \in Instructions
    BY <1>0, InstructionTypes DEF Ops, Data
  <2> QED BY <2>1, Tuples DEF SerialInit
<1>3. TimeInit \in Seq(Instructions) /\ Len(TimeInit) = 4
  <2>1. Protected("deltaQueue") \in Instructions /\ DoWith("register", PIT) \in Instructions /\ DoWith("unmask", PIT) \in Instructions /\ DoWith("register", Blocking) \in Instructions
    BY <1>0, InstructionTypes DEF Ops, Data
  <2> QED BY <2>1, Tuples DEF TimeInit
<1>4. KeyboardInit \in Seq(Instructions) /\ Len(KeyboardInit) = 2
  <2>1. DoWith("register", Keyboard) \in Instructions /\ DoWith("unmask", Keyboard) \in Instructions
    BY <1>0, InstructionTypes DEF Ops, Data
  <2> QED BY <2>1, Tuples DEF KeyboardInit
<1>5. SchedulerInit \in Seq(Instructions) /\ Len(SchedulerInit) = 1
  <2>1. Protected("tasks") \in Instructions
    BY <1>0, InstructionTypes DEF Ops, Data
  <2> QED BY <2>1, Tuples DEF SchedulerInit
<1>6. ASSUME NEW task \in Tasks PROVE TaskCreate(task) \in Seq(Instructions) /\ Len(TaskCreate(task)) = 2
  <2>1. Protected(task) \in Instructions /\ DoWith("push", task) \in Instructions
    BY <1>0, InstructionTypes DEF Ops, Data
  <2> QED BY <2>1, Tuples DEF TaskCreate
<1>7. RxInit \in Seq(Instructions) /\ Len(RxInit) = 4
  <2>1. Protected("rxBuffers") \in Instructions /\ Write("RDBAL") \in Instructions /\ Write("RCTL") \in Instructions /\ Write("device.rxdl") \in Instructions
    BY <1>0, InstructionTypes DEF Ops, Data
  <2> QED BY <2>1, Tuples DEF RxInit
<1>8. TxInit \in Seq(Instructions) /\ Len(TxInit) = 4
  <2>1. Protected("txDescriptors") \in Instructions /\ Write("TDBAL") \in Instructions /\ Write("TCTL") \in Instructions /\ Write("device.txdl") \in Instructions
    BY <1>0, InstructionTypes DEF Ops, Data
  <2> QED BY <2>1, Tuples DEF TxInit
<1>9. EepromRead \in Seq(Instructions) /\ Len(EepromRead) = 2
  <2>1. Do("command") \in Instructions /\ Do("await") \in Instructions
    BY <1>0, InstructionTypes DEF Ops, Data
  <2> QED BY <2>1, Tuples DEF EepromRead
<1> QED BY <1>1, <1>2, <1>3, <1>4, <1>5, <1>6, <1>7, <1>8, <1>9

(* Where the instructions of networking_init() are                          *)
LEMMA NetworkingParts ==
  /\ NetworkingInit \in Seq(Instructions) /\ Len(NetworkingInit) = 4
  /\ NetworkingInit[1] = Protected("interfaces")
  /\ NetworkingInit[2] = Write("interfaces.head")
  /\ \A k \in 1 .. 2 : NetworkingInit[2 + k] = TaskCreate(TxPoll)[k]
<1>0. TxPoll \in Tasks /\ RxPoll \in Tasks
  BY DEF Tasks
<1>a1. <<Protected("interfaces"), Write("interfaces.head")>> \in Seq(Instructions) /\ Len(<<Protected("interfaces"), Write("interfaces.head")>>) = 2
  <2>1. Protected("interfaces") \in Instructions /\ Write("interfaces.head") \in Instructions
    BY InstructionTypes DEF Ops, Data
  <2> QED BY <2>1, Tuples
<1> DEFINE Y1 == <<Protected("interfaces"), Write("interfaces.head")>>
<1>1. Y1 \in Seq(Instructions) /\ Len(Y1) = 2
  BY <1>0, <1>a1
<1> HIDE DEF Y1
<1> DEFINE Y2 == Then(Y1, TaskCreate(TxPoll))
<1>d2. Y2 = Then(Y1, TaskCreate(TxPoll))
  OBVIOUS
<1> HIDE DEF Y2
<1>2. /\ Y2 \in Seq(Instructions) /\ Len(Y2) = 4
      /\ \A k \in 1 .. 2 : Y2[k] = Y1[k]
      /\ \A k \in 1 .. 2 : Y2[2 + k] = TaskCreate(TxPoll)[k]
  <2>1. Len(Y1) = 2 /\ TaskCreate(TxPoll) \in Seq(Instructions) /\ Len(TaskCreate(TxPoll)) = 2
    BY <1>0, <1>1, Parts
  <2>2. Joins(Y2, Y1, TaskCreate(TxPoll))
    BY <1>1, <1>d2, <2>1, Joined
  <2> QED BY <2>1, <2>2 DEF Joins
<1>e. Y2 = NetworkingInit
  BY DEF Y1, Y2, Then, NetworkingInit
<1>f. Y1 = <<Protected("interfaces"), Write("interfaces.head")>>
  BY DEF Y1
<1> QED BY <1>1, <1>2, <1>e, <1>f

(* Where the parts before the card lie                                      *)
LEMMA BeforeCardParts ==
  /\ BeforeCard \in Seq(Instructions) /\ Len(BeforeCard) = 22
  /\ BeforeCard[1] = Do("memory_init")
  /\ \A k \in 1 .. 4 : BeforeCard[1 + k] = InterruptInit[k]
  /\ \A k \in 1 .. 3 : BeforeCard[5 + k] = SerialInit[k]
  /\ \A k \in 1 .. 4 : BeforeCard[8 + k] = TimeInit[k]
  /\ \A k \in 1 .. 2 : BeforeCard[12 + k] = KeyboardInit[k]
  /\ \A k \in 1 .. 1 : BeforeCard[14 + k] = SchedulerInit[k]
  /\ BeforeCard[16] = Do("scheduler_start")
  /\ BeforeCard[17] = Do("scan")
  /\ \A k \in 1 .. 4 : BeforeCard[17 + k] = NetworkingInit[k]
  /\ BeforeCard[22] = Do("check")
<1>0. TxPoll \in Tasks /\ RxPoll \in Tasks
  BY DEF Tasks
<1>a1. <<Do("memory_init")>> \in Seq(Instructions) /\ Len(<<Do("memory_init")>>) = 1
  <2>1. Do("memory_init") \in Instructions
    BY InstructionTypes DEF Ops, Data
  <2> QED BY <2>1, Tuples
<1>a7. <<Do("scheduler_start"), Do("scan")>> \in Seq(Instructions) /\ Len(<<Do("scheduler_start"), Do("scan")>>) = 2
  <2>1. Do("scheduler_start") \in Instructions /\ Do("scan") \in Instructions
    BY InstructionTypes DEF Ops, Data
  <2> QED BY <2>1, Tuples
<1>a9. <<Do("check")>> \in Seq(Instructions) /\ Len(<<Do("check")>>) = 1
  <2>1. Do("check") \in Instructions
    BY InstructionTypes DEF Ops, Data
  <2> QED BY <2>1, Tuples
<1> DEFINE Y1 == <<Do("memory_init")>>
<1>1. Y1 \in Seq(Instructions) /\ Len(Y1) = 1
  BY <1>0, <1>a1
<1> HIDE DEF Y1
<1> DEFINE Y2 == Then(Y1, InterruptInit)
<1>d2. Y2 = Then(Y1, InterruptInit)
  OBVIOUS
<1> HIDE DEF Y2
<1>2. /\ Y2 \in Seq(Instructions) /\ Len(Y2) = 5
      /\ \A k \in 1 .. 1 : Y2[k] = Y1[k]
      /\ \A k \in 1 .. 4 : Y2[1 + k] = InterruptInit[k]
  <2>1. Len(Y1) = 1 /\ InterruptInit \in Seq(Instructions) /\ Len(InterruptInit) = 4
    BY <1>0, <1>1, Parts
  <2>2. Joins(Y2, Y1, InterruptInit)
    BY <1>1, <1>d2, <2>1, Joined
  <2> QED BY <2>1, <2>2 DEF Joins
<1> DEFINE Y3 == Then(Y2, SerialInit)
<1>d3. Y3 = Then(Y2, SerialInit)
  OBVIOUS
<1> HIDE DEF Y3
<1>3. /\ Y3 \in Seq(Instructions) /\ Len(Y3) = 8
      /\ \A k \in 1 .. 5 : Y3[k] = Y2[k]
      /\ \A k \in 1 .. 3 : Y3[5 + k] = SerialInit[k]
  <2>1. Len(Y2) = 5 /\ SerialInit \in Seq(Instructions) /\ Len(SerialInit) = 3
    BY <1>0, <1>2, Parts
  <2>2. Joins(Y3, Y2, SerialInit)
    BY <1>2, <1>d3, <2>1, Joined
  <2> QED BY <2>1, <2>2 DEF Joins
<1> DEFINE Y4 == Then(Y3, TimeInit)
<1>d4. Y4 = Then(Y3, TimeInit)
  OBVIOUS
<1> HIDE DEF Y4
<1>4. /\ Y4 \in Seq(Instructions) /\ Len(Y4) = 12
      /\ \A k \in 1 .. 8 : Y4[k] = Y3[k]
      /\ \A k \in 1 .. 4 : Y4[8 + k] = TimeInit[k]
  <2>1. Len(Y3) = 8 /\ TimeInit \in Seq(Instructions) /\ Len(TimeInit) = 4
    BY <1>0, <1>3, Parts
  <2>2. Joins(Y4, Y3, TimeInit)
    BY <1>3, <1>d4, <2>1, Joined
  <2> QED BY <2>1, <2>2 DEF Joins
<1> DEFINE Y5 == Then(Y4, KeyboardInit)
<1>d5. Y5 = Then(Y4, KeyboardInit)
  OBVIOUS
<1> HIDE DEF Y5
<1>5. /\ Y5 \in Seq(Instructions) /\ Len(Y5) = 14
      /\ \A k \in 1 .. 12 : Y5[k] = Y4[k]
      /\ \A k \in 1 .. 2 : Y5[12 + k] = KeyboardInit[k]
  <2>1. Len(Y4) = 12 /\ KeyboardInit \in Seq(Instructions) /\ Len(KeyboardInit) = 2
    BY <1>0, <1>4, Parts
  <2>2. Joins(Y5, Y4, KeyboardInit)
    BY <1>4, <1>d5, <2>1, Joined
  <2> QED BY <2>1, <2>2 DEF Joins
<1> DEFINE Y6 == Then(Y5, SchedulerInit)
<1>d6. Y6 = Then(Y5, SchedulerInit)
  OBVIOUS
<1> HIDE DEF Y6
<1>6. /\ Y6 \in Seq(Instructions) /\ Len(Y6) = 15
      /\ \A k \in 1 .. 14 : Y6[k] = Y5[k]
      /\ \A k \in 1 .. 1 : Y6[14 + k] = SchedulerInit[k]
  <2>1. Len(Y5) = 14 /\ SchedulerInit \in Seq(Instructions) /\ Len(SchedulerInit) = 1
    BY <1>0, <1>5, Parts
  <2>2. Joins(Y6, Y5, SchedulerInit)
    BY <1>5, <1>d6, <2>1, Joined
  <2> QED BY <2>1, <2>2 DEF Joins
<1> DEFINE Y7 == Then(Y6, <<Do("scheduler_start"), Do("scan")>>)
<1>d7. Y7 = Then(Y6, <<Do("scheduler_start"), Do("scan")>>)
  OBVIOUS
<1> HIDE DEF Y7
<1>7. /\ Y7 \in Seq(Instructions) /\ Len(Y7) = 17
      /\ \A k \in 1 .. 15 : Y7[k] = Y6[k]
      /\ \A k \in 1 .. 2 : Y7[15 + k] = <<Do("scheduler_start"), Do("scan")>>[k]
  <2>1. Len(Y6) = 15 /\ <<Do("scheduler_start"), Do("scan")>> \in Seq(Instructions) /\ Len(<<Do("scheduler_start"), Do("scan")>>) = 2
    BY <1>0, <1>6, <1>a7
  <2>2. Joins(Y7, Y6, <<Do("scheduler_start"), Do("scan")>>)
    BY <1>6, <1>d7, <2>1, Joined
  <2> QED BY <2>1, <2>2 DEF Joins
<1> DEFINE Y8 == Then(Y7, NetworkingInit)
<1>d8. Y8 = Then(Y7, NetworkingInit)
  OBVIOUS
<1> HIDE DEF Y8
<1>8. /\ Y8 \in Seq(Instructions) /\ Len(Y8) = 21
      /\ \A k \in 1 .. 17 : Y8[k] = Y7[k]
      /\ \A k \in 1 .. 4 : Y8[17 + k] = NetworkingInit[k]
  <2>1. Len(Y7) = 17 /\ NetworkingInit \in Seq(Instructions) /\ Len(NetworkingInit) = 4
    BY <1>0, <1>7, NetworkingParts
  <2>2. Joins(Y8, Y7, NetworkingInit)
    BY <1>7, <1>d8, <2>1, Joined
  <2> QED BY <2>1, <2>2 DEF Joins
<1> DEFINE Y9 == Then(Y8, <<Do("check")>>)
<1>d9. Y9 = Then(Y8, <<Do("check")>>)
  OBVIOUS
<1> HIDE DEF Y9
<1>9. /\ Y9 \in Seq(Instructions) /\ Len(Y9) = 22
      /\ \A k \in 1 .. 21 : Y9[k] = Y8[k]
      /\ \A k \in 1 .. 1 : Y9[21 + k] = <<Do("check")>>[k]
  <2>1. Len(Y8) = 21 /\ <<Do("check")>> \in Seq(Instructions) /\ Len(<<Do("check")>>) = 1
    BY <1>0, <1>8, <1>a9
  <2>2. Joins(Y9, Y8, <<Do("check")>>)
    BY <1>8, <1>d9, <2>1, Joined
  <2> QED BY <2>1, <2>2 DEF Joins
<1>e. Y9 = BeforeCard
  BY DEF Y1, Y2, Y3, Y4, Y5, Y6, Y7, Y8, Y9, Then, BeforeCard
<1>f. Y1 = <<Do("memory_init")>>
  BY DEF Y1
<1> QED BY <1>1, <1>2, <1>3, <1>4, <1>5, <1>6, <1>7, <1>8, <1>9, <1>e, <1>f

(* Where the parts for the card lie                                         *)
LEMMA CardParts ==
  /\ CardInit \in Seq(Instructions) /\ Len(CardInit) = 24
  /\ CardInit[1] = Protected("intf")
  /\ CardInit[2] = Do("command")
  /\ CardInit[3] = Do("sleep")
  /\ CardInit[4] = Do("await")
  /\ \A k \in 1 .. 2 : CardInit[4 + k] = EepromRead[k]
  /\ \A k \in 1 .. 2 : CardInit[6 + k] = EepromRead[k]
  /\ \A k \in 1 .. 2 : CardInit[8 + k] = EepromRead[k]
  /\ \A k \in 1 .. 4 : CardInit[10 + k] = RxInit[k]
  /\ \A k \in 1 .. 4 : CardInit[14 + k] = TxInit[k]
  /\ CardInit[19] = Write("device.rar_add")
  /\ \A k \in 1 .. 2 : CardInit[19 + k] = TaskCreate(RxPoll)[k]
  /\ CardInit[22] = Write("intf.tx_send")
  /\ CardInit[23] = Write("intf.ip_addr")
  /\ CardInit[24] = Protected("listed")
<1>0. TxPoll \in Tasks /\ RxPoll \in Tasks
  BY DEF Tasks
<1>a1. <<Protected("intf"), Do("command"), Do("sleep"), Do("await")>> \in Seq(Instructions) /\ Len(<<Protected("intf"), Do("command"), Do("sleep"), Do("await")>>) = 4
  <2>1. Protected("intf") \in Instructions /\ Do("command") \in Instructions /\ Do("sleep") \in Instructions /\ Do("await") \in Instructions
    BY InstructionTypes DEF Ops, Data
  <2> QED BY <2>1, Tuples
<1>a7. <<Write("device.rar_add")>> \in Seq(Instructions) /\ Len(<<Write("device.rar_add")>>) = 1
  <2>1. Write("device.rar_add") \in Instructions
    BY InstructionTypes DEF Ops, Data
  <2> QED BY <2>1, Tuples
<1>a9. <<Write("intf.tx_send"), Write("intf.ip_addr"), Protected("listed")>> \in Seq(Instructions) /\ Len(<<Write("intf.tx_send"), Write("intf.ip_addr"), Protected("listed")>>) = 3
  <2>1. Write("intf.tx_send") \in Instructions /\ Write("intf.ip_addr") \in Instructions /\ Protected("listed") \in Instructions
    BY InstructionTypes DEF Ops, Data
  <2> QED BY <2>1, Tuples
<1> DEFINE Y1 == <<Protected("intf"), Do("command"), Do("sleep"), Do("await")>>
<1>1. Y1 \in Seq(Instructions) /\ Len(Y1) = 4
  BY <1>0, <1>a1
<1> HIDE DEF Y1
<1> DEFINE Y2 == Then(Y1, EepromRead)
<1>d2. Y2 = Then(Y1, EepromRead)
  OBVIOUS
<1> HIDE DEF Y2
<1>2. /\ Y2 \in Seq(Instructions) /\ Len(Y2) = 6
      /\ \A k \in 1 .. 4 : Y2[k] = Y1[k]
      /\ \A k \in 1 .. 2 : Y2[4 + k] = EepromRead[k]
  <2>1. Len(Y1) = 4 /\ EepromRead \in Seq(Instructions) /\ Len(EepromRead) = 2
    BY <1>0, <1>1, Parts
  <2>2. Joins(Y2, Y1, EepromRead)
    BY <1>1, <1>d2, <2>1, Joined
  <2> QED BY <2>1, <2>2 DEF Joins
<1> DEFINE Y3 == Then(Y2, EepromRead)
<1>d3. Y3 = Then(Y2, EepromRead)
  OBVIOUS
<1> HIDE DEF Y3
<1>3. /\ Y3 \in Seq(Instructions) /\ Len(Y3) = 8
      /\ \A k \in 1 .. 6 : Y3[k] = Y2[k]
      /\ \A k \in 1 .. 2 : Y3[6 + k] = EepromRead[k]
  <2>1. Len(Y2) = 6 /\ EepromRead \in Seq(Instructions) /\ Len(EepromRead) = 2
    BY <1>0, <1>2, Parts
  <2>2. Joins(Y3, Y2, EepromRead)
    BY <1>2, <1>d3, <2>1, Joined
  <2> QED BY <2>1, <2>2 DEF Joins
<1> DEFINE Y4 == Then(Y3, EepromRead)
<1>d4. Y4 = Then(Y3, EepromRead)
  OBVIOUS
<1> HIDE DEF Y4
<1>4. /\ Y4 \in Seq(Instructions) /\ Len(Y4) = 10
      /\ \A k \in 1 .. 8 : Y4[k] = Y3[k]
      /\ \A k \in 1 .. 2 : Y4[8 + k] = EepromRead[k]
  <2>1. Len(Y3) = 8 /\ EepromRead \in Seq(Instructions) /\ Len(EepromRead) = 2
    BY <1>0, <1>3, Parts
  <2>2. Joins(Y4, Y3, EepromRead)
    BY <1>3, <1>d4, <2>1, Joined
  <2> QED BY <2>1, <2>2 DEF Joins
<1> DEFINE Y5 == Then(Y4, RxInit)
<1>d5. Y5 = Then(Y4, RxInit)
  OBVIOUS
<1> HIDE DEF Y5
<1>5. /\ Y5 \in Seq(Instructions) /\ Len(Y5) = 14
      /\ \A k \in 1 .. 10 : Y5[k] = Y4[k]
      /\ \A k \in 1 .. 4 : Y5[10 + k] = RxInit[k]
  <2>1. Len(Y4) = 10 /\ RxInit \in Seq(Instructions) /\ Len(RxInit) = 4
    BY <1>0, <1>4, Parts
  <2>2. Joins(Y5, Y4, RxInit)
    BY <1>4, <1>d5, <2>1, Joined
  <2> QED BY <2>1, <2>2 DEF Joins
<1> DEFINE Y6 == Then(Y5, TxInit)
<1>d6. Y6 = Then(Y5, TxInit)
  OBVIOUS
<1> HIDE DEF Y6
<1>6. /\ Y6 \in Seq(Instructions) /\ Len(Y6) = 18
      /\ \A k \in 1 .. 14 : Y6[k] = Y5[k]
      /\ \A k \in 1 .. 4 : Y6[14 + k] = TxInit[k]
  <2>1. Len(Y5) = 14 /\ TxInit \in Seq(Instructions) /\ Len(TxInit) = 4
    BY <1>0, <1>5, Parts
  <2>2. Joins(Y6, Y5, TxInit)
    BY <1>5, <1>d6, <2>1, Joined
  <2> QED BY <2>1, <2>2 DEF Joins
<1> DEFINE Y7 == Then(Y6, <<Write("device.rar_add")>>)
<1>d7. Y7 = Then(Y6, <<Write("device.rar_add")>>)
  OBVIOUS
<1> HIDE DEF Y7
<1>7. /\ Y7 \in Seq(Instructions) /\ Len(Y7) = 19
      /\ \A k \in 1 .. 18 : Y7[k] = Y6[k]
      /\ \A k \in 1 .. 1 : Y7[18 + k] = <<Write("device.rar_add")>>[k]
  <2>1. Len(Y6) = 18 /\ <<Write("device.rar_add")>> \in Seq(Instructions) /\ Len(<<Write("device.rar_add")>>) = 1
    BY <1>0, <1>6, <1>a7
  <2>2. Joins(Y7, Y6, <<Write("device.rar_add")>>)
    BY <1>6, <1>d7, <2>1, Joined
  <2> QED BY <2>1, <2>2 DEF Joins
<1> DEFINE Y8 == Then(Y7, TaskCreate(RxPoll))
<1>d8. Y8 = Then(Y7, TaskCreate(RxPoll))
  OBVIOUS
<1> HIDE DEF Y8
<1>8. /\ Y8 \in Seq(Instructions) /\ Len(Y8) = 21
      /\ \A k \in 1 .. 19 : Y8[k] = Y7[k]
      /\ \A k \in 1 .. 2 : Y8[19 + k] = TaskCreate(RxPoll)[k]
  <2>1. Len(Y7) = 19 /\ TaskCreate(RxPoll) \in Seq(Instructions) /\ Len(TaskCreate(RxPoll)) = 2
    BY <1>0, <1>7, Parts
  <2>2. Joins(Y8, Y7, TaskCreate(RxPoll))
    BY <1>7, <1>d8, <2>1, Joined
  <2> QED BY <2>1, <2>2 DEF Joins
<1> DEFINE Y9 == Then(Y8, <<Write("intf.tx_send"), Write("intf.ip_addr"), Protected("listed")>>)
<1>d9. Y9 = Then(Y8, <<Write("intf.tx_send"), Write("intf.ip_addr"), Protected("listed")>>)
  OBVIOUS
<1> HIDE DEF Y9
<1>9. /\ Y9 \in Seq(Instructions) /\ Len(Y9) = 24
      /\ \A k \in 1 .. 21 : Y9[k] = Y8[k]
      /\ \A k \in 1 .. 3 : Y9[21 + k] = <<Write("intf.tx_send"), Write("intf.ip_addr"), Protected("listed")>>[k]
  <2>1. Len(Y8) = 21 /\ <<Write("intf.tx_send"), Write("intf.ip_addr"), Protected("listed")>> \in Seq(Instructions) /\ Len(<<Write("intf.tx_send"), Write("intf.ip_addr"), Protected("listed")>>) = 3
    BY <1>0, <1>8, <1>a9
  <2>2. Joins(Y9, Y8, <<Write("intf.tx_send"), Write("intf.ip_addr"), Protected("listed")>>)
    BY <1>8, <1>d9, <2>1, Joined
  <2> QED BY <2>1, <2>2 DEF Joins
<1>e. Y9 = CardInit
  BY DEF Y1, Y2, Y3, Y4, Y5, Y6, Y7, Y8, Y9, Then, CardInit
<1>f. Y1 = <<Protected("intf"), Do("command"), Do("sleep"), Do("await")>>
  BY DEF Y1
<1> QED BY <1>1, <1>2, <1>3, <1>4, <1>5, <1>6, <1>7, <1>8, <1>9, <1>e, <1>f

(* Where both lie                                                           *)
LEMMA ProgramParts ==
  /\ Program \in Seq(Instructions) /\ Len(Program) = 47
  /\ \A k \in 1 .. 22 : Program[k] = BeforeCard[k]
  /\ \A k \in 1 .. 24 : Program[22 + k] = CardInit[k]
  /\ Program[47] = Do("interface")
<1>0. TxPoll \in Tasks /\ RxPoll \in Tasks
  BY DEF Tasks
<1>a3. <<Do("interface")>> \in Seq(Instructions) /\ Len(<<Do("interface")>>) = 1
  <2>1. Do("interface") \in Instructions
    BY InstructionTypes DEF Ops, Data
  <2> QED BY <2>1, Tuples
<1> DEFINE Y1 == BeforeCard
<1>1. Y1 \in Seq(Instructions) /\ Len(Y1) = 22
  BY <1>0, BeforeCardParts
<1> HIDE DEF Y1
<1> DEFINE Y2 == Then(Y1, CardInit)
<1>d2. Y2 = Then(Y1, CardInit)
  OBVIOUS
<1> HIDE DEF Y2
<1>2. /\ Y2 \in Seq(Instructions) /\ Len(Y2) = 46
      /\ \A k \in 1 .. 22 : Y2[k] = Y1[k]
      /\ \A k \in 1 .. 24 : Y2[22 + k] = CardInit[k]
  <2>1. Len(Y1) = 22 /\ CardInit \in Seq(Instructions) /\ Len(CardInit) = 24
    BY <1>0, <1>1, CardParts
  <2>2. Joins(Y2, Y1, CardInit)
    BY <1>1, <1>d2, <2>1, Joined
  <2> QED BY <2>1, <2>2 DEF Joins
<1> DEFINE Y3 == Then(Y2, <<Do("interface")>>)
<1>d3. Y3 = Then(Y2, <<Do("interface")>>)
  OBVIOUS
<1> HIDE DEF Y3
<1>3. /\ Y3 \in Seq(Instructions) /\ Len(Y3) = 47
      /\ \A k \in 1 .. 46 : Y3[k] = Y2[k]
      /\ \A k \in 1 .. 1 : Y3[46 + k] = <<Do("interface")>>[k]
  <2>1. Len(Y2) = 46 /\ <<Do("interface")>> \in Seq(Instructions) /\ Len(<<Do("interface")>>) = 1
    BY <1>0, <1>2, <1>a3
  <2>2. Joins(Y3, Y2, <<Do("interface")>>)
    BY <1>2, <1>d3, <2>1, Joined
  <2> QED BY <2>1, <2>2 DEF Joins
<1>e. Y3 = Program
  BY DEF Y1, Y2, Y3, Then, Program
<1>f. Y1 = BeforeCard
  BY DEF Y1
<1> QED BY <1>1, <1>2, <1>3, <1>e, <1>f

(* The program, instruction by instruction                                  *)
LEMMA ProgramText ==
  /\ Len(Program) = 47
  /\ Program[1] = [op |-> "memory_init", arg |-> "none"]
  /\ Program[2] = [op |-> "write", arg |-> "idtr"]
  /\ Program[3] = [op |-> "PIC_init", arg |-> "none"]
  /\ Program[4] = [op |-> "enable", arg |-> "none"]
  /\ Program[5] = [op |-> "register", arg |-> Spurious]
  /\ Program[6] = [op |-> "disable", arg |-> "none"]
  /\ Program[7] = [op |-> "loopback", arg |-> "none"]
  /\ Program[8] = [op |-> "enable", arg |-> "none"]
  /\ Program[9] = [op |-> "protected", arg |-> "deltaQueue"]
  /\ Program[10] = [op |-> "register", arg |-> PIT]
  /\ Program[11] = [op |-> "unmask", arg |-> PIT]
  /\ Program[12] = [op |-> "register", arg |-> Blocking]
  /\ Program[13] = [op |-> "register", arg |-> Keyboard]
  /\ Program[14] = [op |-> "unmask", arg |-> Keyboard]
  /\ Program[15] = [op |-> "protected", arg |-> "tasks"]
  /\ Program[16] = [op |-> "scheduler_start", arg |-> "none"]
  /\ Program[17] = [op |-> "scan", arg |-> "none"]
  /\ Program[18] = [op |-> "protected", arg |-> "interfaces"]
  /\ Program[19] = [op |-> "write", arg |-> "interfaces.head"]
  /\ Program[20] = [op |-> "protected", arg |-> TxPoll]
  /\ Program[21] = [op |-> "push", arg |-> TxPoll]
  /\ Program[22] = [op |-> "check", arg |-> "none"]
  /\ Program[23] = [op |-> "protected", arg |-> "intf"]
  /\ Program[24] = [op |-> "command", arg |-> "none"]
  /\ Program[25] = [op |-> "sleep", arg |-> "none"]
  /\ Program[26] = [op |-> "await", arg |-> "none"]
  /\ Program[27] = [op |-> "command", arg |-> "none"]
  /\ Program[28] = [op |-> "await", arg |-> "none"]
  /\ Program[29] = [op |-> "command", arg |-> "none"]
  /\ Program[30] = [op |-> "await", arg |-> "none"]
  /\ Program[31] = [op |-> "command", arg |-> "none"]
  /\ Program[32] = [op |-> "await", arg |-> "none"]
  /\ Program[33] = [op |-> "protected", arg |-> "rxBuffers"]
  /\ Program[34] = [op |-> "write", arg |-> "RDBAL"]
  /\ Program[35] = [op |-> "write", arg |-> "RCTL"]
  /\ Program[36] = [op |-> "write", arg |-> "device.rxdl"]
  /\ Program[37] = [op |-> "protected", arg |-> "txDescriptors"]
  /\ Program[38] = [op |-> "write", arg |-> "TDBAL"]
  /\ Program[39] = [op |-> "write", arg |-> "TCTL"]
  /\ Program[40] = [op |-> "write", arg |-> "device.txdl"]
  /\ Program[41] = [op |-> "write", arg |-> "device.rar_add"]
  /\ Program[42] = [op |-> "protected", arg |-> RxPoll]
  /\ Program[43] = [op |-> "push", arg |-> RxPoll]
  /\ Program[44] = [op |-> "write", arg |-> "intf.tx_send"]
  /\ Program[45] = [op |-> "write", arg |-> "intf.ip_addr"]
  /\ Program[46] = [op |-> "protected", arg |-> "listed"]
  /\ Program[47] = [op |-> "interface", arg |-> "none"]
<1>1. /\ Len(Program) = 47
      /\ \A k \in 1 .. 22 : Program[k] = BeforeCard[k]
      /\ \A k \in 1 .. 24 : Program[22 + k] = CardInit[k]
      /\ Program[47] = Do("interface")
  BY ProgramParts
<1>2. /\ Program[1] = [op |-> "memory_init", arg |-> "none"]
  <2>1. Program[1] = BeforeCard[1]
    BY <1>1
  <2> QED BY <2>1, BeforeCardParts DEF Do, DoWith, Write, Protected
<1>3. /\ Program[2] = [op |-> "write", arg |-> "idtr"]
      /\ Program[3] = [op |-> "PIC_init", arg |-> "none"]
      /\ Program[4] = [op |-> "enable", arg |-> "none"]
      /\ Program[5] = [op |-> "register", arg |-> Spurious]
  <2>1. Program[2] = BeforeCard[2] /\ Program[3] = BeforeCard[3] /\ Program[4] = BeforeCard[4] /\ Program[5] = BeforeCard[5]
    BY <1>1
  <2>2. BeforeCard[2] = InterruptInit[1] /\ BeforeCard[3] = InterruptInit[2] /\ BeforeCard[4] = InterruptInit[3] /\ BeforeCard[5] = InterruptInit[4]
    BY BeforeCardParts
  <2> QED BY <2>1, <2>2 DEF InterruptInit, Do, DoWith, Write, Protected
<1>4. /\ Program[6] = [op |-> "disable", arg |-> "none"]
      /\ Program[7] = [op |-> "loopback", arg |-> "none"]
      /\ Program[8] = [op |-> "enable", arg |-> "none"]
  <2>1. Program[6] = BeforeCard[6] /\ Program[7] = BeforeCard[7] /\ Program[8] = BeforeCard[8]
    BY <1>1
  <2>2. BeforeCard[6] = SerialInit[1] /\ BeforeCard[7] = SerialInit[2] /\ BeforeCard[8] = SerialInit[3]
    BY BeforeCardParts
  <2> QED BY <2>1, <2>2 DEF SerialInit, Do, DoWith, Write, Protected
<1>5. /\ Program[9] = [op |-> "protected", arg |-> "deltaQueue"]
      /\ Program[10] = [op |-> "register", arg |-> PIT]
      /\ Program[11] = [op |-> "unmask", arg |-> PIT]
      /\ Program[12] = [op |-> "register", arg |-> Blocking]
  <2>1. Program[9] = BeforeCard[9] /\ Program[10] = BeforeCard[10] /\ Program[11] = BeforeCard[11] /\ Program[12] = BeforeCard[12]
    BY <1>1
  <2>2. BeforeCard[9] = TimeInit[1] /\ BeforeCard[10] = TimeInit[2] /\ BeforeCard[11] = TimeInit[3] /\ BeforeCard[12] = TimeInit[4]
    BY BeforeCardParts
  <2> QED BY <2>1, <2>2 DEF TimeInit, Do, DoWith, Write, Protected
<1>6. /\ Program[13] = [op |-> "register", arg |-> Keyboard]
      /\ Program[14] = [op |-> "unmask", arg |-> Keyboard]
  <2>1. Program[13] = BeforeCard[13] /\ Program[14] = BeforeCard[14]
    BY <1>1
  <2>2. BeforeCard[13] = KeyboardInit[1] /\ BeforeCard[14] = KeyboardInit[2]
    BY BeforeCardParts
  <2> QED BY <2>1, <2>2 DEF KeyboardInit, Do, DoWith, Write, Protected
<1>7. /\ Program[15] = [op |-> "protected", arg |-> "tasks"]
  <2>1. Program[15] = BeforeCard[15]
    BY <1>1
  <2>2. BeforeCard[15] = SchedulerInit[1]
    BY BeforeCardParts
  <2> QED BY <2>1, <2>2 DEF SchedulerInit, Do, DoWith, Write, Protected
<1>8. /\ Program[16] = [op |-> "scheduler_start", arg |-> "none"]
      /\ Program[17] = [op |-> "scan", arg |-> "none"]
  <2>1. Program[16] = BeforeCard[16] /\ Program[17] = BeforeCard[17]
    BY <1>1
  <2> QED BY <2>1, BeforeCardParts DEF Do, DoWith, Write, Protected
<1>9. /\ Program[18] = [op |-> "protected", arg |-> "interfaces"]
      /\ Program[19] = [op |-> "write", arg |-> "interfaces.head"]
      /\ Program[20] = [op |-> "protected", arg |-> TxPoll]
      /\ Program[21] = [op |-> "push", arg |-> TxPoll]
  <2>1. Program[18] = BeforeCard[18] /\ Program[19] = BeforeCard[19] /\ Program[20] = BeforeCard[20] /\ Program[21] = BeforeCard[21]
    BY <1>1
  <2>2. BeforeCard[18] = NetworkingInit[1] /\ BeforeCard[19] = NetworkingInit[2] /\ BeforeCard[20] = NetworkingInit[3] /\ BeforeCard[21] = NetworkingInit[4]
    BY BeforeCardParts, NetworkingParts
  <2>3. NetworkingInit[3] = TaskCreate(TxPoll)[1] /\ NetworkingInit[4] = TaskCreate(TxPoll)[2]
    BY NetworkingParts
  <2> QED BY <2>1, <2>2, <2>3, NetworkingParts DEF TaskCreate, Do, DoWith, Write, Protected
<1>10. /\ Program[22] = [op |-> "check", arg |-> "none"]
  <2>1. Program[22] = BeforeCard[22]
    BY <1>1
  <2> QED BY <2>1, BeforeCardParts DEF Do, DoWith, Write, Protected
<1>11. /\ Program[23] = [op |-> "protected", arg |-> "intf"]
      /\ Program[24] = [op |-> "command", arg |-> "none"]
      /\ Program[25] = [op |-> "sleep", arg |-> "none"]
      /\ Program[26] = [op |-> "await", arg |-> "none"]
  <2>1. Program[23] = CardInit[1] /\ Program[24] = CardInit[2] /\ Program[25] = CardInit[3] /\ Program[26] = CardInit[4]
    BY <1>1
  <2> QED BY <2>1, CardParts DEF Do, DoWith, Write, Protected
<1>12. /\ Program[27] = [op |-> "command", arg |-> "none"]
      /\ Program[28] = [op |-> "await", arg |-> "none"]
  <2>1. Program[27] = CardInit[5] /\ Program[28] = CardInit[6]
    BY <1>1
  <2>2. CardInit[5] = EepromRead[1] /\ CardInit[6] = EepromRead[2]
    BY CardParts
  <2> QED BY <2>1, <2>2 DEF EepromRead, Do, DoWith, Write, Protected
<1>13. /\ Program[29] = [op |-> "command", arg |-> "none"]
      /\ Program[30] = [op |-> "await", arg |-> "none"]
  <2>1. Program[29] = CardInit[7] /\ Program[30] = CardInit[8]
    BY <1>1
  <2>2. CardInit[7] = EepromRead[1] /\ CardInit[8] = EepromRead[2]
    BY CardParts
  <2> QED BY <2>1, <2>2 DEF EepromRead, Do, DoWith, Write, Protected
<1>14. /\ Program[31] = [op |-> "command", arg |-> "none"]
      /\ Program[32] = [op |-> "await", arg |-> "none"]
  <2>1. Program[31] = CardInit[9] /\ Program[32] = CardInit[10]
    BY <1>1
  <2>2. CardInit[9] = EepromRead[1] /\ CardInit[10] = EepromRead[2]
    BY CardParts
  <2> QED BY <2>1, <2>2 DEF EepromRead, Do, DoWith, Write, Protected
<1>15. /\ Program[33] = [op |-> "protected", arg |-> "rxBuffers"]
      /\ Program[34] = [op |-> "write", arg |-> "RDBAL"]
      /\ Program[35] = [op |-> "write", arg |-> "RCTL"]
      /\ Program[36] = [op |-> "write", arg |-> "device.rxdl"]
  <2>1. Program[33] = CardInit[11] /\ Program[34] = CardInit[12] /\ Program[35] = CardInit[13] /\ Program[36] = CardInit[14]
    BY <1>1
  <2>2. CardInit[11] = RxInit[1] /\ CardInit[12] = RxInit[2] /\ CardInit[13] = RxInit[3] /\ CardInit[14] = RxInit[4]
    BY CardParts
  <2> QED BY <2>1, <2>2 DEF RxInit, Do, DoWith, Write, Protected
<1>16. /\ Program[37] = [op |-> "protected", arg |-> "txDescriptors"]
      /\ Program[38] = [op |-> "write", arg |-> "TDBAL"]
      /\ Program[39] = [op |-> "write", arg |-> "TCTL"]
      /\ Program[40] = [op |-> "write", arg |-> "device.txdl"]
  <2>1. Program[37] = CardInit[15] /\ Program[38] = CardInit[16] /\ Program[39] = CardInit[17] /\ Program[40] = CardInit[18]
    BY <1>1
  <2>2. CardInit[15] = TxInit[1] /\ CardInit[16] = TxInit[2] /\ CardInit[17] = TxInit[3] /\ CardInit[18] = TxInit[4]
    BY CardParts
  <2> QED BY <2>1, <2>2 DEF TxInit, Do, DoWith, Write, Protected
<1>17. /\ Program[41] = [op |-> "write", arg |-> "device.rar_add"]
  <2>1. Program[41] = CardInit[19]
    BY <1>1
  <2> QED BY <2>1, CardParts DEF Do, DoWith, Write, Protected
<1>18. /\ Program[42] = [op |-> "protected", arg |-> RxPoll]
      /\ Program[43] = [op |-> "push", arg |-> RxPoll]
  <2>1. Program[42] = CardInit[20] /\ Program[43] = CardInit[21]
    BY <1>1
  <2>2. CardInit[20] = TaskCreate(RxPoll)[1] /\ CardInit[21] = TaskCreate(RxPoll)[2]
    BY CardParts
  <2> QED BY <2>1, <2>2 DEF TaskCreate, Do, DoWith, Write, Protected
<1>19. /\ Program[44] = [op |-> "write", arg |-> "intf.tx_send"]
      /\ Program[45] = [op |-> "write", arg |-> "intf.ip_addr"]
      /\ Program[46] = [op |-> "protected", arg |-> "listed"]
  <2>1. Program[44] = CardInit[22] /\ Program[45] = CardInit[23] /\ Program[46] = CardInit[24]
    BY <1>1
  <2> QED BY <2>1, CardParts DEF Do, DoWith, Write, Protected
<1> QED BY <1>1, <1>2, <1>3, <1>4, <1>5, <1>6, <1>7, <1>8, <1>9, <1>10, <1>11, <1>12, <1>13, <1>14, <1>15, <1>16, <1>17, <1>18, <1>19 DEF Do

-----------------------------------------------------------------------------
(* The start of the kernel, instruction by instruction                      *)

(* The places of the program one by one                                     *)
LEMMA ProgramPlaces ==
  1 .. 47 = {1, 2, 3, 4, 5, 6, 7, 8, 9, 10, 11, 12, 13, 14, 15, 16, 17, 18, 19, 20, 21, 22, 23, 24,
             25, 26, 27, 28, 29, 30, 31, 32, 33, 34, 35, 36, 37, 38, 39, 40, 41, 42, 43, 44, 45, 46, 47}
  OBVIOUS

(* Where the instructions are that do more than to write data               *)
LEMMA WhereOps ==
  ASSUME NEW k \in 1 .. 47
  PROVE  /\ Program[k].op = "memory_init" <=> k = 1
         /\ Program[k].op = "PIC_init" <=> k = 3
         /\ Program[k].op = "enable" <=> k \in {4, 8}
         /\ Program[k].op = "register" <=> k \in {5, 10, 12, 13}
         /\ Program[k].op = "disable" <=> k = 6
         /\ Program[k].op = "loopback" <=> k = 7
         /\ Program[k].op = "unmask" <=> k \in {11, 14}
         /\ Program[k].op = "scheduler_start" <=> k = 16
         /\ Program[k].op = "scan" <=> k = 17
         /\ Program[k].op = "push" <=> k \in {21, 43}
         /\ Program[k].op = "check" <=> k = 22
         /\ Program[k].op = "sleep" <=> k = 25
         /\ Program[k].op = "await" <=> k \in {26, 28, 30, 32}
         /\ Program[k].op = "interface" <=> k = 47
         /\ Program[k].op \in {"write", "protected"} <=>
              k \in {2, 9, 15, 18, 19, 20, 23, 33, 34, 35, 36, 37, 38, 39, 40, 41, 42, 44, 45, 46}
<1>1. k \in {1, 2, 3, 4, 5, 6, 7, 8, 9, 10, 11, 12, 13, 14, 15, 16, 17, 18, 19, 20, 21, 22, 23, 24,
             25, 26, 27, 28, 29, 30, 31, 32, 33, 34, 35, 36, 37, 38, 39, 40, 41, 42, 43, 44, 45, 46, 47}
  BY ProgramPlaces
<1> QED BY <1>1, ProgramText

(* What the instructions before the n-th of some kinds were about           *)
Args(n, ops) == {Program[k].arg : k \in {j \in 1 .. n - 1 : Program[j].op \in ops}}

LEMMA ArgsGrow ==
  ASSUME NEW n \in 1 .. 47, NEW ops
  PROVE  Args(n + 1, ops) = Args(n, ops) \union (IF Program[n].op \in ops THEN {Program[n].arg} ELSE {})
<1>1. 1 .. (n + 1) - 1 = (1 .. n - 1) \union {n}
  OBVIOUS
<1> QED BY <1>1 DEF Args

(* What has been registered                                                 *)
LEMMA Registered ==
  ASSUME NEW n \in 1 .. 48
  PROVE  /\ n > 5 => Spurious \in Args(n, {"register"})
         /\ n > 10 => PIT \in Args(n, {"register"})
         /\ n > 12 => Blocking \in Args(n, {"register"})
         /\ n > 13 => Keyboard \in Args(n, {"register"})
<1>1. /\ Program[5].op = "register" /\ Program[5].arg = Spurious
      /\ Program[10].op = "register" /\ Program[10].arg = PIT
      /\ Program[12].op = "register" /\ Program[12].arg = Blocking
      /\ Program[13].op = "register" /\ Program[13].arg = Keyboard
  BY ProgramText
<1>2. /\ n > 5 => 5 \in 1 .. n - 1
      /\ n > 10 => 10 \in 1 .. n - 1
      /\ n > 12 => 12 \in 1 .. n - 1
      /\ n > 13 => 13 \in 1 .. n - 1
  OBVIOUS
<1> QED BY <1>1, <1>2 DEF Args

(* Only two lines are let through, the timer's first.                       *)
LEMMA Unmasked ==
  ASSUME NEW n \in 1 .. 48, NEW line \in Args(n, {"unmask"})
  PROVE  (line = PIT /\ n > 11) \/ (line = Keyboard /\ n > 14)
<1>1. PICK k \in 1 .. n - 1 : Program[k].op = "unmask" /\ line = Program[k].arg
  BY DEF Args
<1>2. k \in 1 .. 47 /\ k < n
  OBVIOUS
<1>3. k = 11 \/ k = 14
  BY SMTT(30), <1>1, <1>2, WhereOps
<1>4. Program[11].arg = PIT /\ Program[14].arg = Keyboard
  BY ProgramText
<1> QED BY <1>1, <1>2, <1>3, <1>4

(* Only the two polling tasks are pushed.                                   *)
LEMMA Pushed ==
  ASSUME NEW n \in 1 .. 48, NEW task \in Args(n, {"push"})
  PROVE  (task = TxPoll /\ n > 21) \/ (task = RxPoll /\ n > 43)
<1>1. PICK k \in 1 .. n - 1 : Program[k].op = "push" /\ task = Program[k].arg
  BY DEF Args
<1>2. k \in 1 .. 47 /\ k < n
  OBVIOUS
<1>3. k = 21 \/ k = 43
  BY <1>1, <1>2, WhereOps
<1>4. Program[21].arg = TxPoll /\ Program[43].arg = RxPoll
  BY ProgramText
<1> QED BY <1>1, <1>2, <1>3, <1>4

(* `made` at the n-th instruction                                           *)
MadeBy(n) == Args(n, {"write", "protected"}) \union (IF n > 1 THEN {"heap"} ELSE {})

(* What has been made                                                       *)
LEMMA Made ==
  ASSUME NEW n \in 1 .. 48
  PROVE  /\ n > 1 => "heap" \in MadeBy(n)
         /\ n > 2 => "idtr" \in MadeBy(n)
         /\ n > 9 => "deltaQueue" \in MadeBy(n)
         /\ n > 15 => "tasks" \in MadeBy(n)
         /\ n > 19 => "interfaces.head" \in MadeBy(n)
         /\ n > 20 => TxPoll \in MadeBy(n)
         /\ n > 33 => "rxBuffers" \in MadeBy(n)
         /\ n > 34 => "RDBAL" \in MadeBy(n)
         /\ n > 36 => "device.rxdl" \in MadeBy(n)
         /\ n > 37 => "txDescriptors" \in MadeBy(n)
         /\ n > 38 => "TDBAL" \in MadeBy(n)
         /\ n > 40 => "device.txdl" \in MadeBy(n)
         /\ n > 41 => "device.rar_add" \in MadeBy(n)
         /\ n > 42 => RxPoll \in MadeBy(n)
         /\ n > 44 => "intf.tx_send" \in MadeBy(n)
         /\ n > 45 => "intf.ip_addr" \in MadeBy(n)
         /\ n > 46 => "listed" \in MadeBy(n)
<1>1. \A k \in 1 .. 47 : n > k /\ Program[k].op \in {"write", "protected"} => Program[k].arg \in MadeBy(n)
  BY DEF Args, MadeBy
<1>2. /\ Program[2].op = "write" /\ Program[9].op = "protected" /\ Program[15].op = "protected"
      /\ Program[19].op = "write" /\ Program[20].op = "protected" /\ Program[33].op = "protected"
      /\ Program[34].op = "write" /\ Program[36].op = "write" /\ Program[37].op = "protected"
      /\ Program[38].op = "write" /\ Program[40].op = "write" /\ Program[41].op = "write"
      /\ Program[42].op = "protected" /\ Program[44].op = "write" /\ Program[45].op = "write"
      /\ Program[46].op = "protected"
  BY ProgramText
<1>3. /\ Program[2].arg = "idtr" /\ Program[9].arg = "deltaQueue" /\ Program[15].arg = "tasks"
      /\ Program[19].arg = "interfaces.head" /\ Program[20].arg = TxPoll /\ Program[33].arg = "rxBuffers"
      /\ Program[34].arg = "RDBAL" /\ Program[36].arg = "device.rxdl" /\ Program[37].arg = "txDescriptors"
      /\ Program[38].arg = "TDBAL" /\ Program[40].arg = "device.txdl" /\ Program[41].arg = "device.rar_add"
      /\ Program[42].arg = RxPoll /\ Program[44].arg = "intf.tx_send" /\ Program[45].arg = "intf.ip_addr"
      /\ Program[46].arg = "listed"
  BY ProgramText
<1>4. n > 1 => "heap" \in MadeBy(n)
  BY DEF MadeBy
<1> QED BY <1>1, <1>2, <1>3, <1>4

(* What is written at one place only is not written before it.              *)
LEMMA MadeOnly ==
  ASSUME NEW n \in 1 .. 48
  PROVE  /\ "RCTL" \in MadeBy(n) => n > 35
         /\ "TCTL" \in MadeBy(n) => n > 39
         /\ "listed" \in MadeBy(n) => n > 46
<1>1. ASSUME NEW what \in {"RCTL", "TCTL", "listed"}, what \in MadeBy(n)
      PROVE  \E k \in 1 .. 47 : k < n /\ Program[k].op \in {"write", "protected"} /\ Program[k].arg = what
  <2>1. what \in Args(n, {"write", "protected"})
    BY <1>1 DEF MadeBy
  <2>2. PICK k \in {j \in 1 .. n - 1 : Program[j].op \in {"write", "protected"}} : Program[k].arg = what
    BY <2>1, Zenon DEF Args
  <2>3. k \in 1 .. 47 /\ k < n
    BY <2>2
  <2> QED
    BY <2>2, <2>3, Zenon
<1>2. TxPoll \notin {"RCTL", "TCTL", "listed"} /\ RxPoll \notin {"RCTL", "TCTL", "listed"}
  BY BootAssumption
<1>3. ASSUME NEW k \in 1 .. 47, Program[k].op \in {"write", "protected"}
      PROVE  /\ Program[k].arg = "RCTL" => k = 35
             /\ Program[k].arg = "TCTL" => k = 39
             /\ Program[k].arg = "listed" => k = 46
  <2>1. k \in {2, 9, 15, 18, 19, 20, 23, 33, 34, 35, 36, 37, 38, 39, 40, 41, 42, 44, 45, 46}
    BY <1>3, WhereOps
  <2> QED BY <1>2, <2>1, ProgramText
<1> QED BY <1>1, <1>3

-----------------------------------------------------------------------------
(* The inductive invariant: what has been written, registered, let through  *)
(* and pushed is what the instructions before the n-th are about, and who   *)
(* runs with which interrupts is known of the parts of the program.         *)
AllTasks == Tasks \union {Idle}

UnmaskedBy(n) == IF n > 3 THEN {Cascade} \union Args(n, {"unmask"}) ELSE 0 .. 15

On == [counter |-> 0, enabled |-> TRUE]

(* Main is at the n-th instruction, or has left the program at the check    *)
(* for a supported card.                                                    *)
Reached(n) ==
  /\ \/ step = n
     \/ n = 23 /\ step \in {47, 48}
  /\ made = MadeBy(n)
  /\ handlers = Args(n, {"register"})
  /\ unmasked = UnmaskedBy(n)
  /\ ready \ {Main} = Args(n, {"push"})
  /\ running => n > 16
  /\ ticksLeft # Awake => n > 25
  /\ net_intf => n > 46

(* Only Main is ever interrupted with IF clear, and it has come back from   *)
(* the first sleep() with the counter at 0.                                 *)
Interrupts(n) ==
  /\ intr \in InterruptState /\ savedIF \in [AllTasks -> BOOLEAN] /\ current \in AllTasks
  /\ \A t \in AllTasks \ {Main} : savedIF[t]
  /\ n < 5 => ~intr.enabled
  /\ current # Main => intr = On
  /\ n > 25 /\ current = Main => intr.counter = 0
  /\ n > 33 /\ current = Main => intr = On
  /\ n > 33 /\ current # Main => savedIF[Main]

BootInv == \E n \in 1 .. 48 : Reached(n) /\ Interrupts(n)

(* The tasks have names of their own.                                       *)
LEMMA TaskNames ==
  /\ Main \in AllTasks /\ Idle \in AllTasks /\ TxPoll \in AllTasks /\ RxPoll \in AllTasks
  /\ Idle # Main /\ TxPoll # Main /\ RxPoll # Main
  BY BootAssumption DEF AllTasks, Tasks

(* Where Main is when it executes an instruction                            *)
LEMMA MainAt ==
  ASSUME NEW n \in 1 .. 48, Reached(n), NEW op, At(op), op # "interface"
  PROVE  step = n /\ n \in 1 .. 47 /\ Program[n].op = op /\ current = Main
<1>1. step \notin {47, 48}
  <2>1. Program[47].op = "interface" /\ Len(Program) = 47
    BY ProgramText
  <2> QED BY <2>1 DEF At, Ended
<1>2. step = n
  BY <1>1 DEF Reached
<1> QED BY <1>1, <1>2 DEF At

(* A protected section with the counter at 0 ends with interrupts on.       *)
LEMMA Protecting ==
  ASSUME intr \in InterruptState
  PROVE  /\ ProtectedSection(intr) \in InterruptState
         /\ intr.counter = 0 => ProtectedSection(intr) = On
<1>1. intr.counter \in Nat /\ intr.enabled \in BOOLEAN
  BY DEF InterruptState
<1> DEFINE d == DisableInterrupts(intr)
<1>2. d.counter = intr.counter + 1 /\ d.enabled = FALSE
  BY DEF DisableInterrupts
<1>3. d.counter > 0 /\ d.counter - 1 = intr.counter
  BY <1>1, <1>2
<1> HIDE DEF d
<1>4. ProtectedSection(intr) = [counter |-> intr.counter, enabled |-> intr.counter = 0]
  <2>1. EnableInterrupts(d) = [counter |-> intr.counter, enabled |-> intr.counter = 0]
    BY <1>2, <1>3 DEF EnableInterrupts
  <2> QED BY <2>1 DEF ProtectedSection, d
<1>5. [counter |-> intr.counter, enabled |-> intr.counter = 0] \in InterruptState
  BY <1>1 DEF InterruptState
<1>6. intr.counter = 0 => [counter |-> intr.counter, enabled |-> intr.counter = 0] = On
  BY DEF On
<1> QED BY <1>4, <1>5, <1>6

(* At the start                                                             *)
LEMMA BootInitInv == BootInit => BootInv
<1> SUFFICES ASSUME BootInit PROVE BootInv
  OBVIOUS
<1>1. \A ops : Args(1, ops) = {}
  BY DEF Args
<1>2. Reached(1)
  BY <1>1 DEF BootInit, Reached, MadeBy, UnmaskedBy
<1>3. Interrupts(1)
  BY TaskNames DEF BootInit, Interrupts, InterruptState, AllTasks
<1> QED BY <1>2, <1>3 DEF BootInv

(* An instruction that only writes, registers, lets through or pushes       *)
LEMMA NextReached ==
  ASSUME NEW n \in 1 .. 47, Reached(n), step = n, step' = n + 1,
         made' = made \union (IF Program[n].op \in {"write", "protected"} THEN {Program[n].arg} ELSE {})
                      \union (IF n = 1 THEN {"heap"} ELSE {}),
         handlers' = handlers \union (IF Program[n].op = "register" THEN {Program[n].arg} ELSE {}),
         unmasked' = IF n = 3 THEN {Cascade}
                     ELSE unmasked \union (IF Program[n].op = "unmask" THEN {Program[n].arg} ELSE {}),
         ready' \ {Main} = (ready \ {Main}) \union (IF Program[n].op = "push" THEN {Program[n].arg} ELSE {}),
         running' => running \/ n = 16,
         ticksLeft' # Awake => ticksLeft # Awake \/ n > 24,
         net_intf' => net_intf \/ n > 45
  PROVE  Reached(n + 1)'
<1>1. \A ops : Args(n + 1, ops) = Args(n, ops) \union (IF Program[n].op \in ops THEN {Program[n].arg} ELSE {})
  BY ArgsGrow
<1>2. made' = MadeBy(n + 1)
  BY <1>1 DEF Reached, MadeBy
<1>3. handlers' = Args(n + 1, {"register"})
  BY <1>1 DEF Reached
<1>4. unmasked' = UnmaskedBy(n + 1)
  <2>1. CASE n < 3
    <3>1. Program[n].op # "unmask"
      BY <2>1, WhereOps
    <3> QED BY <2>1, <3>1 DEF Reached, UnmaskedBy
  <2>2. CASE n = 3
    <3>1. Args(4, {"unmask"}) = {}
      BY Unmasked
    <3> QED BY <2>2, <3>1 DEF UnmaskedBy
  <2>3. CASE n > 3
    BY <1>1, <2>3 DEF Reached, UnmaskedBy
  <2> QED BY <2>1, <2>2, <2>3
<1>5. ready' \ {Main} = Args(n + 1, {"push"})
  BY <1>1 DEF Reached
<1>6. /\ running' => n + 1 > 16
      /\ ticksLeft' # Awake => n + 1 > 25
      /\ net_intf' => n + 1 > 46
  BY DEF Reached
<1>7. step' = n + 1
  OBVIOUS
<1> QED BY <1>2, <1>3, <1>4, <1>5, <1>6, <1>7 DEF Reached

(* ... with the interrupts as they are, or a protected section              *)
LEMMA NextInterrupts ==
  ASSUME NEW n \in 1 .. 47, Interrupts(n), current = Main, UNCHANGED <<current, savedIF>>, n # 25,
         \/ intr' = intr /\ n # 33
         \/ intr' = ProtectedSection(intr) /\ n > 4
         \/ intr' \in InterruptState /\ n > 3 /\ n < 16
  PROVE  Interrupts(n + 1)'
<1>1. intr \in InterruptState /\ ProtectedSection(intr) \in InterruptState
      /\ (intr.counter = 0 => ProtectedSection(intr) = On)
  BY Protecting DEF Interrupts
<1>2. intr' \in InterruptState
  BY <1>1
<1>3. n + 1 < 5 => ~intr'.enabled
  BY DEF Interrupts
<1>4. n + 1 > 25 => intr'.counter = 0
  BY <1>1 DEF Interrupts, On
<1>5. n + 1 > 33 => intr' = On
  BY <1>1 DEF Interrupts, On
<1> QED BY <1>2, <1>3, <1>4, <1>5 DEF Interrupts

(* An instruction that does not give up the CPU                             *)
LEMMA InstructionInv ==
  ASSUME NEW n \in 1 .. 48, Reached(n), Interrupts(n), MainStep, ~Sleep, ~Await
  PROVE  BootInv'
<1> USE DEF At, GoOn, scheduling, CardVars, InitVars, Arg
<1>1. CASE MemoryInit
  <2>1. step = n /\ Program[n].op = "memory_init" /\ n \in 1 .. 47 /\ current = Main
    BY <1>1, MainAt DEF MemoryInit
  <2>2. n = 1
    BY <2>1, WhereOps
  <2>3. CASE pc = "done"
    <3>1. Program[n].op \notin {"write", "protected", "register", "unmask", "push"}
      BY <2>1
    <3>2. Reached(n + 1)'
      BY <1>1, <2>1, <2>2, <2>3, <3>1, NextReached DEF MemoryInit
    <3>3. Interrupts(n + 1)'
      BY <1>1, <2>1, <2>2, <2>3, NextInterrupts DEF MemoryInit
    <3> QED BY <2>1, <3>2, <3>3 DEF BootInv
  <2>4. CASE pc # "done"
    <3>1. UNCHANGED <<step, made, handlers, unmasked, intr, current, ready, ticksLeft, time, running,
                      savedIF, net_intf>>
      BY <1>1, <2>4 DEF MemoryInit
    <3>2. Reached(n)' /\ Interrupts(n)'
      BY <3>1 DEF Reached, Interrupts
    <3> QED BY <3>2 DEF BootInv
  <2> QED BY <2>3, <2>4
<1>2. CASE WriteData
  <2>1. step = n /\ Program[n].op = "write" /\ n \in 1 .. 47 /\ current = Main
    BY <1>2, MainAt DEF WriteData
  <2>2. n # 1 /\ n # 3 /\ n # 25 /\ n # 33 /\ n # 16
    BY SMTT(30), <2>1, ProgramText
  <2>3. Reached(n + 1)'
    BY <1>2, <2>1, <2>2, NextReached DEF WriteData
  <2>4. Interrupts(n + 1)'
    BY <1>2, <2>1, <2>2, NextInterrupts DEF WriteData
  <2> QED BY <2>1, <2>3, <2>4 DEF BootInv
<1>3. CASE ProtectedData
  <2>1. step = n /\ Program[n].op = "protected" /\ n \in 1 .. 47 /\ current = Main
    BY SMTT(30), <1>3, MainAt DEF ProtectedData
  <2>2. n > 4 /\ n # 25 /\ n # 16
    BY SMTT(30), <2>1, ProgramText, WhereOps
  <2>3. Reached(n + 1)'
    BY SMTT(30), <1>3, <2>1, <2>2, NextReached DEF ProtectedData
  <2>4. Interrupts(n + 1)'
    BY <1>3, <2>1, <2>2, NextInterrupts DEF ProtectedData
  <2> QED BY <2>1, <2>3, <2>4 DEF BootInv
<1>4. CASE Disable \/ Enable
  <2>1. step = n /\ Program[n].op \in {"disable", "enable"} /\ n \in 1 .. 47 /\ current = Main
    BY <1>4, MainAt DEF Disable, Enable
  <2>2. n > 3 /\ n < 16
    BY SMTT(30), <2>1, WhereOps
  <2>3. Reached(n + 1)'
    BY SMTT(30), <1>4, <2>1, <2>2, NextReached DEF Disable, Enable
  <2>4. intr' \in InterruptState
    <3>1. intr.counter \in Nat /\ intr.enabled \in BOOLEAN
      BY DEF Interrupts, InterruptState
    <3>2. CASE Disable
      BY <3>1, <3>2 DEF Disable, DisableInterrupts, InterruptState
    <3>3. CASE Enable
      <4> DEFINE left == IF intr.counter > 0 THEN intr.counter - 1 ELSE 0
      <4>1. left \in Nat
        BY <3>1
      <4>2. intr' = [counter |-> left, enabled |-> IF left = 0 THEN TRUE ELSE intr.enabled]
        BY <3>3 DEF Enable, EnableInterrupts
      <4> HIDE DEF left
      <4> QED BY <3>1, <4>1, <4>2 DEF InterruptState
    <3> QED BY <1>4, <3>2, <3>3
  <2>5. UNCHANGED <<current, savedIF>>
    BY <1>4 DEF Disable, Enable
  <2>6. Interrupts(n + 1)'
    BY <2>1, <2>2, <2>4, <2>5, NextInterrupts
  <2>7. step' = n + 1
    BY <1>4, <2>1 DEF Disable, Enable
  <2> QED BY <2>1, <2>3, <2>6 DEF BootInv
<1>5. CASE PIC_init
  <2>1. step = n /\ Program[n].op = "PIC_init" /\ n \in 1 .. 47 /\ current = Main
    BY <1>5, MainAt DEF PIC_init
  <2>2. n = 3
    BY <2>1, WhereOps
  <2>3. Reached(n + 1)'
    BY <1>5, <2>1, <2>2, NextReached DEF PIC_init
  <2>4. Interrupts(n + 1)'
    BY <1>5, <2>1, <2>2, NextInterrupts DEF PIC_init
  <2> QED BY <2>1, <2>3, <2>4 DEF BootInv
<1>6. CASE Register
  <2>1. step = n /\ Program[n].op = "register" /\ n \in 1 .. 47 /\ current = Main
    BY <1>6, MainAt DEF Register
  <2>2. n > 4 /\ n < 16
    BY SMTT(30), <2>1, WhereOps
  <2>3. Reached(n + 1)'
    BY SMTT(30), <1>6, <2>1, <2>2, NextReached DEF Register
  <2>4. Interrupts(n + 1)'
    BY <1>6, <2>1, <2>2, NextInterrupts DEF Register
  <2> QED BY <2>1, <2>3, <2>4 DEF BootInv
<1>7. CASE PIC_line_enable
  <2>1. step = n /\ Program[n].op = "unmask" /\ n \in 1 .. 47 /\ current = Main
    BY <1>7, MainAt DEF PIC_line_enable
  <2>2. n > 4 /\ n < 16
    BY SMTT(30), <2>1, WhereOps
  <2>3. Reached(n + 1)'
    BY SMTT(30), <1>7, <2>1, <2>2, NextReached DEF PIC_line_enable
  <2>4. Interrupts(n + 1)'
    BY <1>7, <2>1, <2>2, NextInterrupts DEF PIC_line_enable
  <2> QED BY <2>1, <2>3, <2>4 DEF BootInv
<1>8. CASE Loopback
  <2>1. step = n /\ Program[n].op = "loopback" /\ n \in 1 .. 47 /\ current = Main
    BY <1>8, MainAt DEF Loopback
  <2>2. n = 7
    BY <2>1, WhereOps
  <2>3. \A ops : Args(8, ops) = Args(7, ops) \union (IF Program[7].op \in ops THEN {Program[7].arg} ELSE {})
    BY ArgsGrow
  <2>4. \A ops : Args(9, ops) = Args(8, ops) \union (IF Program[8].op \in ops THEN {Program[8].arg} ELSE {})
    BY ArgsGrow
  <2>5. Program[7].op = "loopback" /\ Program[8].op = "enable"
    BY ProgramText
  <2>6. \A ops : "loopback" \notin ops /\ "enable" \notin ops => Args(8, ops) = Args(7, ops) /\ Args(9, ops) = Args(7, ops)
    <3> SUFFICES ASSUME NEW ops, "loopback" \notin ops, "enable" \notin ops
                 PROVE  Args(8, ops) = Args(7, ops) /\ Args(9, ops) = Args(7, ops)
      OBVIOUS
    <3>1. Args(8, ops) = Args(7, ops)
      BY <2>3, <2>5
    <3>2. Args(9, ops) = Args(8, ops)
      BY ZenonT(30), <2>4, <2>5
    <3> QED BY <3>1, <3>2
  <2>7. MadeBy(8) = MadeBy(7) /\ MadeBy(9) = MadeBy(7) /\ UnmaskedBy(8) = UnmaskedBy(7) /\ UnmaskedBy(9) = UnmaskedBy(7)
        /\ Args(8, {"register"}) = Args(7, {"register"}) /\ Args(9, {"register"}) = Args(7, {"register"})
        /\ Args(8, {"push"}) = Args(7, {"push"}) /\ Args(9, {"push"}) = Args(7, {"push"})
    BY <2>6 DEF MadeBy, UnmaskedBy
  <2>8. step' \in {8, 9} /\ UNCHANGED <<made, handlers, unmasked, intr, current, ready, ticksLeft, time, running,
                      savedIF, net_intf>>
    BY <1>8, <2>1, <2>2 DEF Loopback
  <2>9. PICK m \in {8, 9} : step' = m
    BY <2>8
  <2>10. Reached(m)'
    BY <2>2, <2>7, <2>8, <2>9 DEF Reached
  <2>11. Interrupts(m)'
    BY <2>2, <2>8, <2>9 DEF Interrupts
  <2> QED BY <2>10, <2>11 DEF BootInv
<1>9. CASE SchedulerStart
  <2>1. step = n /\ Program[n].op = "scheduler_start" /\ n \in 1 .. 47 /\ current = Main
    BY <1>9, MainAt DEF SchedulerStart
  <2>2. n = 16
    BY <2>1, WhereOps
  <2>3. Reached(n + 1)'
    BY <1>9, <2>1, <2>2, NextReached DEF SchedulerStart
  <2>4. Interrupts(n + 1)'
    BY <1>9, <2>1, <2>2, NextInterrupts DEF SchedulerStart
  <2> QED BY <2>1, <2>3, <2>4 DEF BootInv
<1>10. CASE Push
  <2>1. step = n /\ Program[n].op = "push" /\ n \in 1 .. 47 /\ current = Main
    BY <1>10, MainAt DEF Push
  <2>2. n > 4 /\ n # 25 /\ n # 16
    BY <2>1, WhereOps
  <2>3. Program[n].arg # Main
    BY SMTT(30), <2>1, WhereOps, ProgramText, TaskNames
  <2>4. Reached(n + 1)'
    BY SMTT(30), <1>10, <2>1, <2>2, <2>3, NextReached DEF Push
  <2>5. Interrupts(n + 1)'
    BY <1>10, <2>1, <2>2, NextInterrupts DEF Push
  <2> QED BY <2>1, <2>4, <2>5 DEF BootInv
<1>11. CASE FindCard
  <2>1. step = n /\ Program[n].op = "scan" /\ n \in 1 .. 47 /\ current = Main
    BY <1>11, MainAt DEF FindCard
  <2>2. n = 17
    BY <2>1, WhereOps
  <2>3. CASE UNCHANGED <<step, intr>>
    <3>1. Reached(n)' /\ Interrupts(n)'
      BY <1>11, <2>3 DEF FindCard, Reached, Interrupts
    <3> QED BY <3>1 DEF BootInv
  <2>4. CASE step' = step + 1 /\ intr' = ProtectedSection(intr)
    <3>1. Reached(n + 1)'
      BY <1>11, <2>1, <2>2, <2>4, NextReached DEF FindCard
    <3>2. Interrupts(n + 1)'
      BY <1>11, <2>1, <2>2, <2>4, NextInterrupts DEF FindCard
    <3> QED BY <2>1, <3>1, <3>2 DEF BootInv
  <2> QED BY <1>11, <2>3, <2>4 DEF FindCard
<1>12. CASE Check
  <2>1. step = n /\ Program[n].op = "check" /\ n \in 1 .. 47 /\ current = Main
    BY <1>12, MainAt DEF Check
  <2>2. n = 22 /\ Len(Program) = 47
    BY <2>1, WhereOps, ProgramText
  <2>3. \A ops : "check" \notin ops => Args(23, ops) = Args(22, ops)
    <3>1. \A ops : Args(23, ops) = Args(22, ops) \union (IF Program[22].op \in ops THEN {Program[22].arg} ELSE {})
      BY ArgsGrow
    <3>2. Program[22].op = "check"
      BY <2>1, <2>2
    <3> QED BY <3>1, <3>2
  <2>4. MadeBy(23) = MadeBy(22) /\ UnmaskedBy(23) = UnmaskedBy(22)
        /\ Args(23, {"register"}) = Args(22, {"register"}) /\ Args(23, {"push"}) = Args(22, {"push"})
    BY <2>3 DEF MadeBy, UnmaskedBy
  <2>5. step' \in {23, 47}
    BY <1>12, <2>1, <2>2 DEF Check
  <2>6. Reached(23)' /\ Interrupts(23)'
    BY <1>12, <2>2, <2>4, <2>5 DEF Check, Reached, Interrupts
  <2> QED BY <2>6 DEF BootInv
<1>13. CASE Command
  <2>1. step = n /\ Program[n].op = "command" /\ n \in 1 .. 47 /\ current = Main
    BY <1>13, MainAt DEF Command
  <2>2. n # 1 /\ n # 3 /\ n # 25 /\ n # 33 /\ n # 16
    BY SMTT(30), <2>1, ProgramText
  <2>3. Reached(n + 1)'
    BY SMTT(30), <1>13, <2>1, <2>2, NextReached DEF Command
  <2>4. Interrupts(n + 1)'
    BY <1>13, <2>1, <2>2, NextInterrupts DEF Command
  <2> QED BY <2>1, <2>3, <2>4 DEF BootInv
<1>14. CASE Interface
  <2>1. step = 47 /\ step' = 48 /\ current = Main
    <3>1. step \in 1 .. 47 /\ Program[step].op = "interface"
      BY <1>14, ProgramText DEF Interface, Ended, Reached
    <3> QED BY SMTT(30), <1>14, <3>1, WhereOps DEF Interface
  <2>2. Program[47].op = "interface"
    BY ProgramText
  <2>3. CASE n = 47
    <3>1. Reached(n + 1)'
      BY <1>14, <2>1, <2>2, <2>3, NextReached DEF Interface
    <3>2. Interrupts(n + 1)'
      BY <1>14, <2>1, <2>3, NextInterrupts DEF Interface
    <3> QED BY <2>3, <3>1, <3>2 DEF BootInv
  <2>4. CASE n = 23
    <3>1. ~net_intf'
      <4>1. "listed" \notin MadeBy(23)
        BY MadeOnly
      <4> QED BY <1>14, <2>4, <4>1 DEF Interface, Reached
    <3>2. Reached(23)'
      BY <1>14, <2>1, <2>4, <3>1 DEF Interface, Reached
    <3>3. Interrupts(23)'
      BY <1>14, <2>1, <2>4, Protecting DEF Interface, Interrupts
    <3> QED BY <3>2, <3>3 DEF BootInv
  <2> QED BY <2>1, <2>3, <2>4 DEF Reached
<1> QED
  BY <1>1, <1>2, <1>3, <1>4, <1>5, <1>6, <1>7, <1>8, <1>9, <1>10, <1>11, <1>12, <1>13, <1>14 DEF MainStep

(* sleep(1): the CPU goes to another task.                                  *)
LEMMA SleepingInv ==
  ASSUME NEW n \in 1 .. 48, Reached(n), Interrupts(n), Sleep \/ Await
  PROVE  BootInv'
<1> USE DEF At, GoOn, scheduling, CardVars, InitVars
<1>1. /\ step = n /\ n \in 1 .. 47 /\ current = Main
      /\ \/ Sleep /\ Program[n].op = "sleep"
         \/ Await /\ Program[n].op = "await"
  <2>1. CASE Sleep
    BY <2>1, MainAt DEF Sleep
  <2>2. CASE Await
    BY <2>2, MainAt DEF Await
  <2> QED BY <2>1, <2>2
<1>2. n \in {25, 26, 28, 30, 32} /\ (Sleep => n = 25) /\ (Await => n # 25)
  BY <1>1, WhereOps DEF Sleep, Await
<1>3. CASE SleepOne
  <2>1. PICK m \in {n, n + 1} : step' = m /\ m \in 26 .. 33
    BY <1>1, <1>2, <1>3 DEF Sleep, Await
  <2>2. Program[n].op \in {"sleep", "await"}
    BY <1>1
  <2>3. \A ops : "sleep" \notin ops /\ "await" \notin ops => Args(m, ops) = Args(n, ops)
    <3> SUFFICES ASSUME NEW ops, "sleep" \notin ops, "await" \notin ops
                 PROVE  Args(m, ops) = Args(n, ops)
      OBVIOUS
    <3>1. Args(n + 1, ops) = Args(n, ops)
      <4>1. Program[n].op \notin ops
        BY <2>2
      <4>2. Args(n + 1, ops) = Args(n, ops) \union (IF Program[n].op \in ops THEN {Program[n].arg} ELSE {})
        BY <1>1, ArgsGrow
      <4> QED BY <4>1, <4>2
    <3> QED BY <2>1, <3>1
  <2>4. MadeBy(m) = MadeBy(n) /\ UnmaskedBy(m) = UnmaskedBy(n)
        /\ Args(m, {"register"}) = Args(n, {"register"}) /\ Args(m, {"push"}) = Args(n, {"push"})
    BY <1>2, <2>1, <2>3 DEF MadeBy, UnmaskedBy
  <2>5. /\ UNCHANGED <<made, handlers, unmasked, net_intf, running>>
        /\ ready' = ready \ {Main}
        /\ current' \in IF ready \ {Main} = {} THEN {Idle} ELSE ready \ {Main}
        /\ savedIF' = [savedIF EXCEPT ![Main] = ProtectedSection(intr).enabled]
        /\ intr' = ReturnFromInterrupt(savedIF[current'])
    BY <1>1, <1>3 DEF Sleep, Await, SleepOne, Select
  <2>6. current' \in AllTasks \ {Main}
    BY <2>5, Pushed, TaskNames DEF Reached
  <2>7. Reached(m)'
    BY <1>2, <2>1, <2>4, <2>5 DEF Reached
  <2>8. intr' = On
    <3>1. savedIF[current'] = TRUE
      BY <2>6 DEF Interrupts
    <3> QED BY <2>5, <3>1 DEF ReturnFromInterrupt, On
  <2>9. ProtectedSection(intr).enabled \in BOOLEAN
    BY Protecting DEF Interrupts, InterruptState
  <2>10. savedIF' \in [AllTasks -> BOOLEAN] /\ \A t \in AllTasks \ {Main} : savedIF'[t]
    BY <2>5, <2>9 DEF Interrupts
  <2>11. On \in InterruptState
    BY DEF On, InterruptState
  <2>12. Interrupts(m)'
    BY <2>1, <2>6, <2>8, <2>10, <2>11 DEF Interrupts
  <2> QED BY <2>1, <2>7, <2>12 DEF BootInv
<1>4. CASE ~SleepOne
  <2>1. Await /\ step' = n + 1 /\ UNCHANGED <<made, handlers, unmasked, intr, scheduling, net_intf>>
    BY SMTT(30), <1>1, <1>4 DEF Sleep, Await
  <2>2. Reached(n + 1)'
    <3>1. Program[n].op = "await"
      BY <1>1, <1>2, <2>1, WhereOps
    <3> QED BY SMTT(30), <1>1, <1>2, <2>1, <3>1, NextReached
  <2>3. Interrupts(n + 1)'
    BY <1>1, <1>2, <2>1, NextInterrupts
  <2> QED BY <1>1, <2>2, <2>3 DEF BootInv
<1> QED BY <1>3, <1>4

(* A timer tick                                                             *)
LEMMA BootTickInv ==
  ASSUME NEW n \in 1 .. 48, Reached(n), Interrupts(n), Tick
  PROVE  BootInv'
<1> DEFINE now  == IF time > 0 THEN time - 1 ELSE 0
           left == IF ticksLeft \in {0, Awake} THEN ticksLeft ELSE ticksLeft - 1
<1>1. /\ intr.enabled = TRUE /\ UNCHANGED <<step, made, handlers, unmasked, running, net_intf>>
      /\ \/ /\ running /\ Select(ready, left)
            /\ savedIF' = [savedIF EXCEPT ![current] = intr.enabled]
            /\ intr' = ReturnFromInterrupt(savedIF'[current'])
         \/ /\ ticksLeft' = left /\ intr' = ReturnFromInterrupt(intr.enabled)
            /\ UNCHANGED <<current, ready, savedIF>>
  BY DEF Tick, Interrupts, InterruptState, InitVars, CardVars
<1>2. ticksLeft = Awake => left = Awake
  OBVIOUS
<1>3. /\ On \in InterruptState /\ On = ReturnFromInterrupt(TRUE)
      /\ On.counter = 0 /\ On.enabled = TRUE
  BY DEF On, InterruptState, ReturnFromInterrupt
<1> HIDE DEF left
<1>4. CASE running /\ Select(ready, left) /\ savedIF' = [savedIF EXCEPT ![current] = intr.enabled]
           /\ intr' = ReturnFromInterrupt(savedIF'[current'])
  <2>1. /\ ready' = ready \/ ready' = ready \union {Main}
        /\ ticksLeft' = Awake \/ ticksLeft' = left
        /\ current' \in IF ready = {} THEN {Idle} ELSE ready
    BY <1>4 DEF Select
  <2>2. Reached(n)'
    BY <1>1, <1>2, <2>1 DEF Reached
  <2>3. current' \in AllTasks
    BY <2>1, Pushed, TaskNames DEF Reached
  <2>4. savedIF' \in [AllTasks -> BOOLEAN] /\ \A t \in AllTasks \ {Main} : savedIF'[t] = TRUE
    BY <1>1, <1>4 DEF Interrupts
  <2>5. n > 33 => savedIF'[Main] = TRUE
    BY <1>1, <1>4, TaskNames DEF Interrupts
  <2>6. n > 4
    BY <1>1 DEF Interrupts
  <2>7. CASE current' = Main
    <3>1. savedIF'[Main] \in BOOLEAN /\ intr' = [counter |-> 0, enabled |-> savedIF'[Main]]
      BY <1>4, <2>4, <2>7, TaskNames DEF ReturnFromInterrupt
    <3>2. intr' \in InterruptState /\ intr'.counter = 0 /\ (n > 33 => intr' = On)
      BY <2>5, <3>1 DEF InterruptState, On
    <3> QED BY <2>2, <2>3, <2>4, <2>6, <2>7, <3>2 DEF Interrupts, BootInv
  <2>8. CASE current' # Main
    <3>1. intr' = On
      BY <1>3, <1>4, <2>3, <2>4, <2>8
    <3>2. Interrupts(n)'
      <4>1. /\ intr' \in InterruptState /\ savedIF' \in [AllTasks -> BOOLEAN] /\ current' \in AllTasks
            /\ \A t \in AllTasks \ {Main} : savedIF'[t]
        BY <1>3, <2>3, <2>4, <3>1
      <4>2. /\ n < 5 => ~intr'.enabled
            /\ current' # Main => intr' = On
        BY <2>6, <3>1
      <4>3. /\ n > 25 /\ current' = Main => intr'.counter = 0
            /\ n > 33 /\ current' = Main => intr' = On
            /\ n > 33 /\ current' # Main => savedIF'[Main]
        BY <2>5, <2>8
      <4> QED BY <4>1, <4>2, <4>3 DEF Interrupts
    <3> QED BY <2>2, <3>2 DEF BootInv
  <2> QED BY <2>7, <2>8
<1>5. CASE ticksLeft' = left /\ intr' = ReturnFromInterrupt(intr.enabled) /\ UNCHANGED <<current, ready, savedIF>>
  <2>1. Reached(n)'
    BY <1>1, <1>2, <1>5 DEF Reached
  <2>2. intr' = On
    BY <1>1, <1>3, <1>5
  <2>3. n > 4
    BY <1>1 DEF Interrupts
  <2>4. Interrupts(n)'
    <3>1. intr' \in InterruptState /\ intr'.counter = 0
      BY <1>3, <2>2
    <3>2. UNCHANGED <<current, savedIF>>
      BY <1>5
    <3> QED BY <2>2, <2>3, <3>1, <3>2 DEF Interrupts
  <2> QED BY <2>1, <2>4 DEF BootInv
<1> QED BY <1>1, <1>4, <1>5

(* Every step keeps the invariant.                                          *)
LEMMA BootStepInv == BootInv /\ [BootNext]_bootVars => BootInv'
<1> SUFFICES ASSUME BootInv, [BootNext]_bootVars PROVE BootInv'
  OBVIOUS
<1>1. PICK n \in 1 .. 48 : Reached(n) /\ Interrupts(n)
  BY DEF BootInv
<1>2. CASE MainStep
  BY <1>1, <1>2, InstructionInv, SleepingInv
<1>3. CASE Tick
  BY <1>1, <1>3, BootTickInv
<1>4. CASE CardDone \/ UNCHANGED bootVars
  <2>1. UNCHANGED <<step, made, handlers, unmasked, intr, current, ready, ticksLeft, running, savedIF, net_intf>>
    BY <1>4 DEF CardDone, InitVars, scheduling, bootVars
  <2>2. Reached(n)' /\ Interrupts(n)'
    BY <1>1, <2>1 DEF Reached, Interrupts
  <2> QED BY <2>2 DEF BootInv
<1> QED BY <1>2, <1>3, <1>4 DEF BootNext

(* The invariant of the start, on every machine                             *)
THEOREM BootInvariant == BootSpec => []BootInv
<1>1. BootInit => BootInv
  BY BootInitInv
<1>2. BootInv /\ [BootNext]_bootVars => BootInv'
  BY BootStepInv
<1> QED BY <1>1, <1>2, PTL DEF BootSpec

(* Whatever timer ticks, task switches and card delays come between the     *)
(* instructions of kernel_main(), and for every machine: an interrupt that  *)
(* can come finds its handler and its data (interrupt.c:35-44,              *)
(* time.c:109-124, keyboard.c:17-24, kernel.c:43-52).                       *)
THEOREM HandlersComeFirst == BootSpec => []InterruptsFindHandlers
<1>1. ASSUME BootInv PROVE InterruptsFindHandlers
  <2>1. PICK n \in 1 .. 48 : Reached(n) /\ Interrupts(n)
    BY <1>1 DEF BootInv
  <2>2. /\ handlers = Args(n, {"register"}) /\ made = MadeBy(n) /\ unmasked = UnmaskedBy(n)
        /\ running => n > 16
        /\ ticksLeft # Awake => n > 25
        /\ intr.enabled => n > 4
    BY <2>1 DEF Reached, Interrupts
  <2>3. ASSUME n > 4
        PROVE  /\ unmasked \ {Cascade} \subseteq handlers
               /\ unmasked # {Cascade} => Spurious \in handlers
               /\ PIT \in unmasked => "deltaQueue" \in made
    <3>1. unmasked \ {Cascade} \subseteq Args(n, {"unmask"}) /\ unmasked = {Cascade} \union Args(n, {"unmask"})
      BY <2>2, <2>3 DEF UnmaskedBy
    <3>2. PIT # Cascade
      BY DEF PIT, Cascade
    <3> QED BY <2>2, <3>1, <3>2, Unmasked, Registered, Made
  <2>4. n > 4 => "idtr" \in made /\ "heap" \in made
    BY <2>2, Made
  <2>5. running => "tasks" \in made
    BY <2>2, Made
  <2>6. ticksLeft # Awake => Blocking \in handlers
    BY <2>2, Registered
  <2> QED BY <2>2, <2>3, <2>4, <2>5, <2>6 DEF InterruptsFindHandlers, InterruptReads
<1> QED BY <1>1, BootInvariant, PTL

(* The polling tasks and the card find what they use, and an interface is   *)
(* complete when it is listed (networking.c:24-42,                          *)
(* intel_8254xx.c:115-196, 213-296).                                        *)
THEOREM CardIsReadyFirst == BootSpec => []PollersFindCardReady
<1>1. ASSUME BootInv PROVE PollersFindCardReady
  <2>1. PICK n \in 1 .. 48 : Reached(n) /\ Interrupts(n)
    BY <1>1 DEF BootInv
  <2>2. made = MadeBy(n) /\ ready \ {Main} = Args(n, {"push"})
    BY <2>1 DEF Reached
  <2>3. ASSUME NEW task \in ready \ {Main}
        PROVE  TaskReads(task) \subseteq made
    <3>1. CASE task = TxPoll /\ n > 21
      BY <2>2, <3>1, Made, BootAssumption DEF TaskReads
    <3>2. CASE task = RxPoll /\ n > 43
      BY <2>2, <3>2, Made DEF TaskReads
    <3> QED BY <2>2, <3>1, <3>2, Pushed
  <2>4. "RCTL" \in made => {"rxBuffers", "RDBAL"} \subseteq made
    BY <2>2, Made, MadeOnly
  <2>5. "TCTL" \in made => {"txDescriptors", "TDBAL"} \subseteq made
    BY <2>2, Made, MadeOnly
  <2>6. "listed" \in made => {"intf.tx_send", "intf.ip_addr", "device.txdl", "interfaces.head"} \subseteq made
    BY <2>2, Made, MadeOnly
  <2> QED BY <2>3, <2>4, <2>5, <2>6 DEF PollersFindCardReady
<1> QED BY <1>1, BootInvariant, PTL

(* The start with a card ends with interrupts on, also when serial_init()   *)
(* has left a disable_interrupts() open (serial.c:16-42, time.s:132).       *)
THEOREM InterruptsAreOn == BootSpec => []InterruptsComeBack
<1>1. ASSUME BootInv PROVE InterruptsComeBack
  <2>1. PICK n \in 1 .. 48 : Reached(n) /\ Interrupts(n)
    BY <1>1 DEF BootInv
  <2> QED BY <2>1 DEF Reached, Interrupts, InterruptsComeBack, On
<1> QED BY <1>1, BootInvariant, PTL

=============================================================================
