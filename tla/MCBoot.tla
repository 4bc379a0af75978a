-------------------------------- MODULE MCBoot --------------------------------
(***************************************************************************)
(* Memory maps with the real sizes of blocks and nodes: usable ranges about *)
(* a whole number of blocks, with and without records, and a usable range  *)
(* from 4 GB on, with a short and a long low word of its length.           *)
(* Machines with two buses of two devices with three functions each: a     *)
(* host bridge first, then network cards, known and unknown, single and    *)
(* with functions, and devices that answer for functions they do not have. *)
(***************************************************************************)
EXTENDS Boot

CONSTANTS Bridge, OtherCard

Lengths == {k * (Records + BlockSize) + rest : k \in 0 .. 2, rest \in {0, BlockSize - 1}}
             \union {2 * BlockSize}
Low(base, length, type) ==
  [baseL |-> base, baseH |-> 0, lengthL |-> length, lengthH |-> 0, type |-> type]
High(lengthL, lengthH) ==
  [baseL |-> 0, baseH |-> 1, lengthL |-> lengthL, lengthH |-> lengthH, type |-> 1]

Reserved == Low(2000000000, 262144, 2)
BelowMaps ==
  {<<Low(0, 654336, t), Low(1048576, length, 1), Reserved>> : t \in {1, 2}, length \in Lengths}
AboveMaps ==
  {<<Low(1048576, Records + BlockSize, 1), high, Reserved>> :
     high \in {High(0, 1), High(2 * (Records + BlockSize), 0)}}
SmallMaps == BelowMaps \union AboveMaps

Header(present, multi, class, card) ==
  [present |-> present, multi |-> multi, class |-> class, progIF |-> 0, card |-> card]

Absent == Header(FALSE, FALSE, Bridge, OtherCard)
HostBridge == Header(TRUE, FALSE, Bridge, OtherCard)

Functions(multi) ==
  {Absent} \union {Header(TRUE, multi, c[1], c[2]) :
     c \in {<<Bridge, OtherCard>>, <<Ethernet, OtherCard>>, <<Ethernet, Intel8254xx>>}}

MCClasses == {Ethernet, Bridge}
MCCards == {Intel8254xx, OtherCard}

Machine(a, b, c) ==
  [p \in Places |->
     CASE p = <<0, 1, 0>> -> a [] p = <<0, 1, 2>> -> b [] p = <<1, 0, 0>> -> c
       [] p[1] = 0 /\ p[2] = 0 -> HostBridge
       [] OTHER -> Absent]

Machines ==
  {Machine(a, b, c) :
     a \in Functions(FALSE) \union Functions(TRUE), b \in Functions(FALSE), c \in Functions(FALSE)}
=============================================================================
