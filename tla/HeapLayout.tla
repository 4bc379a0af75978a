------------------------------ MODULE HeapLayout ------------------------------
(***************************************************************************)
(* Where the heap lies: get_memory_map of the second-stage boot loader     *)
(* collects the BIOS's memory map, memory_init() takes the longest usable  *)
(* range of it (see LongestUsable), computes how many 128K blocks and how  *)
(* much header it holds, and lays the nodes out in the header.             *)
(*                                                                         *)
(* Base and length of a range are two words of 32 bits each in the map, of *)
(* which memory_init() reads the low ones.  A range that passes the end of *)
(* the 32-bit addresses, where its sums would wrap, is not modelled.       *)
(***************************************************************************)
EXTENDS Naturals, Sequences

CONSTANTS
  Maps,            \* the memory maps the BIOS may report
  BlockSize,       \* G_HEAP_MAX_BLOCK_SIZE
  NodeSize,        \* sizeof(BUDDY_NODE)
  NodesPerBlock    \* 0x3F: a block, its halves, and so on down to 4K

(* ADDRESS_RANGE_DESCRIPTOR *)
Ranges == [baseL : Nat, baseH : Nat, lengthL : Nat, lengthH : Nat, type : Nat]

ASSUME LayoutAssumption ==
  /\ \A map \in Maps : map \in Seq(Ranges)
  /\ BlockSize \in Nat \ {0} /\ NodeSize \in Nat \ {0} /\ NodesPerBlock \in Nat \ {0}

VARIABLES
  bios,     \* the map the BIOS reports
  copied,   \* the entries the boot loader has put at 0x6000:0
  pc,       \* "collect", "scan", "nodes" or "done"
  i,        \* the loop variable
  start,    \* g_heapStart_buddy
  maxLen,   \* the largest low word of the length of a usable range so far
  count,    \* max_block_count_re
  body,     \* buddy_body_start
  nodes     \* the nodes made so far: where each lies and its address

vars == <<bios, copied, pc, i, start, maxLen, count, body, nodes>>

Init ==
  /\ bios \in Maps /\ copied = <<>> /\ pc = "collect" /\ i = 0
  /\ start = 0 /\ maxLen = 0 /\ count = 0 /\ body = 0 /\ nodes = <<>>

(* One INT 15h, E820h: EBX = 0 comes with the last entry, and the loop     *)
(* ends on it before it has copied that entry.                             *)
Collect ==
  /\ pc = "collect" /\ i < Len(bios)
  /\ IF i + 1 = Len(bios)
       THEN pc' = "scan" /\ i' = 0 /\ UNCHANGED copied
       ELSE i' = i + 1 /\ copied' = Append(copied, bios[i + 1]) /\ UNCHANGED pc
  /\ UNCHANGED <<bios, start, maxLen, count, body, nodes>>

LongerUsableMutant(entry) == entry.lengthL > maxLen
LongerUsable(entry) == entry.lengthL > maxLen /\ entry.type = 1

Scan ==
  /\ pc = "scan" /\ i < Len(copied) /\ i' = i + 1
  /\ LET entry == copied[i + 1] IN
       IF LongerUsable(entry)
         THEN start' = entry.baseL /\ maxLen' = entry.lengthL
         ELSE UNCHANGED <<start, maxLen>>
  /\ UNCHANGED <<bios, copied, pc, count, body, nodes>>

Records == NodeSize * NodesPerBlock

BlockCount(length) == length \div (Records + BlockSize)

HeaderSizeMutant(blocks) == ((Records * blocks) \div BlockSize) * BlockSize

(* The records of all blocks, rounded up to a multiple of the block size   *)
HeaderSize(blocks) ==
  IF (Records * blocks) % BlockSize # 0
    THEN ((Records * blocks) \div BlockSize + 1) * BlockSize
    ELSE ((Records * blocks) \div BlockSize) * BlockSize

Layout ==
  /\ pc = "scan" /\ i = Len(copied) /\ pc' = "nodes" /\ i' = 0
  /\ count' = BlockCount(maxLen)
  /\ body' = start + HeaderSize(BlockCount(maxLen))
  /\ UNCHANGED <<bios, copied, start, maxLen, nodes>>

AddressOfMutant(n) == start + n * BlockSize
AddressOf(n) == body + n * BlockSize

MoreNodes == i < count

(* The node of block i: at the beginning of the block's records            *)
MakeNode ==
  /\ pc = "nodes" /\ MoreNodes /\ i' = i + 1
  /\ nodes' = Append(nodes, [at |-> start + i * Records, address |-> AddressOf(i)])
  /\ UNCHANGED <<bios, copied, pc, start, maxLen, count, body>>

Finish ==
  /\ pc = "nodes" /\ i = count /\ pc' = "done"
  /\ UNCHANGED <<bios, copied, i, start, maxLen, count, body, nodes>>

Next == Collect \/ Scan \/ Layout \/ MakeNode \/ Finish

Spec == Init /\ [][Next]_vars

-----------------------------------------------------------------------------
(* Properties *)

(* The types of the variables (memory.c:115-191, bootloader_ss.asm:37-105). *)
TypeOK ==
  /\ bios \in Maps /\ pc \in {"collect", "scan", "nodes", "done"}
  /\ copied \in Seq(Ranges)
  /\ {i, start, maxLen, count, body} \subseteq Nat
  /\ nodes \in Seq([at : Nat, address : Nat]) /\ Len(nodes) <= count

(* The records of different blocks do not overlap, all end before the first *)
(* block begins, and blocks do not overlap each other                       *)
(* (memory.c:134-147, 169, 174).                                            *)
NothingOverlaps ==
  /\ \A n \in DOMAIN nodes : start <= nodes[n].at /\ nodes[n].at + Records <= body
  /\ \A m, n \in DOMAIN nodes : m < n =>
       /\ nodes[m].at + Records <= nodes[n].at
       /\ nodes[m].address + BlockSize <= nodes[n].address
  /\ \A n \in DOMAIN nodes : body <= nodes[n].address

(* Rounding the header up pushes the blocks past the end of the range by    *)
(* less than one block (memory.c:134-147).                                  *)
OverrunBelowBlock ==
  \A n \in DOMAIN nodes : nodes[n].address + BlockSize < start + maxLen + BlockSize

(* The usable ranges of the map but for the last entry, which the boot      *)
(* loader does not copy                                                     *)
Usable == {k \in 1 .. Len(bios) - 1 : bios[k].type = 1}

Below4GB(range) == range.baseH = 0 /\ range.lengthH = 0

Longer(range, other) ==
  \/ range.lengthH > other.lengthH
  \/ range.lengthH = other.lengthH /\ range.lengthL > other.lengthL

(* The heap is put at the low word of the base of a usable range, the one   *)
(* whose length has the largest low word; when every usable range lies      *)
(* below 4 GB, that is the longest usable range itself                      *)
(* (bootloader_ss.asm:37-105, memory.c:123-131).                            *)
LongestUsable ==
  pc \in {"nodes", "done"} =>
    /\ \A k \in Usable : bios[k].lengthL <= maxLen
    /\ maxLen > 0 => \E k \in Usable :
         /\ bios[k].baseL = start /\ bios[k].lengthL = maxLen
         /\ (\A m \in Usable : Below4GB(bios[m])) => \A m \in Usable : ~Longer(bios[m], bios[k])
=============================================================================
