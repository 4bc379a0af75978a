------------------------------ MODULE AhciProofs -------------------------------
(***************************************************************************)
(* Theorems about the AHCI driver.  About AhciPrdt and AhciDisk: the       *)
(* physical region descriptor table covers the caller's buffer exactly for *)
(* every chunk, sector size, buffer and sector count; AHCI_init() lists    *)
(* what the drives have answered, for all drives and any number of ports;  *)
(* and the two together describe 512-byte sectors as they are.             *)
(* About AhciPort, for any number of tasks, ports, slots and calls: a task *)
(* that is alone on its port returns only after its command was executed,  *)
(* and with one task per port every command is executed as it was written  *)
(* and once.                                                               *)
(***************************************************************************)
EXTENDS AhciDisk, AhciPort, TLAPS

-----------------------------------------------------------------------------
(* The table and the disks                                                 *)

(* Where the next entry must begin: behind the last one *)
Reached == IF prdt = <<>> THEN buf ELSE Limit(prdt[Len(prdt)])

(* The inductive invariant: the loop's position is behind the last entry    *)
(* and never behind the buffer, and nothing is written before the loop.     *)
PrdtInv ==
  /\ TypeOK
  /\ \A k \in DOMAIN prdt : prdt[k].DBC < Chunk
  /\ \A k \in DOMAIN prdt : prdt[k].DBA = IF k = 1 THEN buf ELSE Limit(prdt[k - 1])
  /\ pc = "call" => prdt = <<>>
  /\ pc # "call" => buf_u8 = Reached /\ buf_u8 <= End /\ count = CountField(sectors)
  /\ pc = "issued" => buf_u8 = End

(* The end of the buffer is a natural number, not before its beginning. *)
LEMMA EndIsNat ==
  ASSUME TypeOK
  PROVE  End \in Nat /\ buf \in Nat /\ sectors \in Nat /\ buf <= End /\ sectors * lbaSize \in Nat
<1>1. buf \in Nat /\ sectors \in Nat /\ lbaSize \in Nat
  BY PrdtAssumption DEF TypeOK
<1>2. sectors * lbaSize \in Nat
  BY <1>1
<1> QED
  BY <1>1, <1>2 DEF End

(* What one turn of the loop writes is not empty, fits in a chunk and ends  *)
(* in the buffer.                                                           *)
LEMMA LengthBounds ==
  ASSUME TypeOK, More
  PROVE  Length \in 1 .. Chunk /\ buf_u8 + Length <= End /\ ByteCount(Length) \in Nat
         /\ ByteCount(Length) < Chunk /\ ByteCount(Length) + 1 = Length
<1>1. End \in Nat
  BY EndIsNat
<1>2. Chunk \in Nat \ {0} /\ buf_u8 \in Nat /\ buf_u8 < End
  BY PrdtAssumption DEF TypeOK, More
<1> QED
  BY <1>1, <1>2 DEF Length, ByteCount

(* The fields before the loop *)
LEMMA InitInv == Init => PrdtInv
<1> SUFFICES ASSUME Init PROVE PrdtInv
  OBVIOUS
<1>1. prdt \in Entries /\ DOMAIN prdt = {}
  BY DEF Init, Entries
<1>2. TypeOK
  BY <1>1, PrdtAssumption DEF Init, TypeOK
<1> QED
  BY <1>1, <1>2 DEF Init, PrdtInv

(* Begin fills the count field and starts the loop at the buffer. *)
LEMMA BeginInv == ASSUME NEW size \in Nat PROVE PrdtInv /\ Begin(size) => PrdtInv'
<1> SUFFICES ASSUME PrdtInv, Begin(size) PROVE PrdtInv'
  OBVIOUS
<1>1. End \in Nat /\ buf \in Nat /\ sectors \in Nat /\ buf <= End
  BY EndIsNat DEF PrdtInv
<1>2. count' \in 0 .. Counts - 1
  BY <1>1, PrdtAssumption DEF Begin, CountField
<1>3. TypeOK'
  BY <1>1, <1>2 DEF PrdtInv, Begin, TypeOK
<1>4. prdt = <<>> /\ prdt' = <<>>
  BY DEF PrdtInv, Begin
<1> QED
  BY <1>1, <1>3, <1>4 DEF PrdtInv, Begin, Reached, End

(* A turn of the loop appends the entry that begins where the last one ends. *)
LEMMA DescribeInv == PrdtInv /\ Describe => PrdtInv'
<1> SUFFICES ASSUME PrdtInv, Describe PROVE PrdtInv'
  OBVIOUS
<1> DEFINE new == [DBA |-> buf_u8, DBC |-> ByteCount(Length)]
<1>1. /\ Length \in 1 .. Chunk /\ buf_u8 + Length <= End
      /\ ByteCount(Length) \in Nat /\ ByteCount(Length) < Chunk
      /\ ByteCount(Length) + 1 = Length
  BY LengthBounds DEF PrdtInv, Describe
<1>2. buf_u8 \in Nat /\ Chunk \in Nat
  BY PrdtAssumption DEF PrdtInv, TypeOK
<1>3. new \in [DBA : Nat, DBC : Nat] /\ Limit(new) = buf_u8 + Length
  BY <1>1, <1>2 DEF Limit
<1>4. /\ prdt \in Entries /\ prdt' = Append(prdt, new) /\ prdt' \in Entries
      /\ Len(prdt') = Len(prdt) + 1 /\ Len(prdt) \in Nat
      /\ prdt'[Len(prdt) + 1] = new
      /\ \A k \in DOMAIN prdt : prdt'[k] = prdt[k]
      /\ DOMAIN prdt = 1 .. Len(prdt) /\ DOMAIN prdt' = 1 .. (Len(prdt) + 1)
  BY <1>3 DEF PrdtInv, TypeOK, Describe, Entries
<1>5. /\ pc = "fill" /\ pc' = pc /\ buf' = buf /\ sectors' = sectors /\ lbaSize' = lbaSize /\ count' = count
      /\ buf_u8' = buf_u8 + Length
  BY DEF Describe
<1>6. TypeOK'
  BY <1>1, <1>2, <1>4, <1>5 DEF PrdtInv, TypeOK
<1>7. \A k \in DOMAIN prdt' : prdt'[k].DBC < Chunk
  BY <1>1, <1>4 DEF PrdtInv
<1>8. \A k \in DOMAIN prdt' : prdt'[k].DBA = IF k = 1 THEN buf' ELSE Limit(prdt'[k - 1])
  <2> SUFFICES ASSUME NEW k \in 1 .. (Len(prdt) + 1)
               PROVE  prdt'[k].DBA = IF k = 1 THEN buf' ELSE Limit(prdt'[k - 1])
    BY <1>4
  <2>1. CASE k \in DOMAIN prdt
    <3>1. prdt'[k].DBA = prdt[k].DBA
      BY <1>4, <2>1
    <3>2. k # 1 => k - 1 \in DOMAIN prdt
      BY <1>4, <2>1
    <3>3. k # 1 => prdt'[k - 1] = prdt[k - 1]
      BY <1>4, <3>2
    <3> QED
      BY <3>1, <3>3, <2>1, <1>5 DEF PrdtInv
  <2>2. CASE k = Len(prdt) + 1
    <3>1. prdt'[k].DBA = buf_u8 /\ buf_u8 = Reached
      BY <1>4, <1>5, <2>2 DEF PrdtInv
    <3>2. CASE prdt = <<>>
      BY <3>1, <3>2, <2>2, <1>4, <1>5 DEF Reached
    <3>3. CASE prdt # <<>>
      <4>1. k # 1 /\ k - 1 = Len(prdt) /\ Len(prdt) \in DOMAIN prdt
        BY <3>3, <2>2, <1>4 DEF Entries
      <4>2. prdt'[k - 1] = prdt[Len(prdt)]
        BY <4>1, <1>4
      <4> QED
        BY <3>1, <3>3, <4>1, <4>2 DEF Reached
    <3> QED
      BY <3>2, <3>3
  <2> QED
    BY <1>4, <2>1, <2>2
<1>9. buf_u8' = Reached' /\ buf_u8' <= End' /\ count' = CountField(sectors')
  <2>1. prdt' # <<>> /\ prdt'[Len(prdt')] = new
    BY <1>4
  <2>2. Reached' = Limit(new)
    BY <2>1 DEF Reached, Limit
  <2> QED
    BY <1>1, <1>3, <1>5, <2>2 DEF PrdtInv, End
<1> QED
  BY <1>5, <1>6, <1>7, <1>8, <1>9 DEF PrdtInv

(* The loop ends with its position at the end of the buffer. *)
LEMMA IssueInv == PrdtInv /\ Issue => PrdtInv'
<1> SUFFICES ASSUME PrdtInv, Issue PROVE PrdtInv'
  OBVIOUS
<1>1. End \in Nat
  BY EndIsNat DEF PrdtInv
<1>2. TypeOK
  BY DEF PrdtInv
<1>3. buf_u8 = End
  <2>1. buf_u8 \in Nat /\ ~(buf_u8 < End)
    BY <1>2 DEF TypeOK, Issue, More
  <2>2. buf_u8 <= End
    BY DEF PrdtInv, Issue
  <2> QED
    BY <1>1, <2>1, <2>2
<1>4. /\ pc' = "issued" /\ pc = "fill"
      /\ buf' = buf /\ sectors' = sectors /\ lbaSize' = lbaSize /\ count' = count /\ buf_u8' = buf_u8 /\ prdt' = prdt
  BY DEF Issue
<1>5. TypeOK'
  BY <1>2, <1>4 DEF TypeOK
<1>6. End' = End /\ Reached' = Reached
  BY <1>4 DEF End, Reached
<1> QED
  BY <1>3, <1>4, <1>5, <1>6 DEF PrdtInv

(* The invariant holds in every state of a call of AHCI_read() or           *)
(* AHCI_write().                                                            *)
THEOREM PrdtInvariant == Spec => []PrdtInv
<1>1. Init => PrdtInv
  BY InitInv
<1>2. PrdtInv /\ [Next]_prdtVars => PrdtInv'
  <2> SUFFICES ASSUME PrdtInv, [Next]_prdtVars PROVE PrdtInv'
    OBVIOUS
  <2>1. CASE UNCHANGED prdtVars
    <3>1. /\ pc' = pc /\ buf' = buf /\ sectors' = sectors /\ lbaSize' = lbaSize /\ count' = count
          /\ buf_u8' = buf_u8 /\ prdt' = prdt
      BY <2>1 DEF prdtVars
    <3>2. TypeOK' /\ End' = End /\ Reached' = Reached
      BY <3>1 DEF PrdtInv, TypeOK, End, Reached
    <3> QED
      BY <3>1, <3>2 DEF PrdtInv
  <2> QED
    BY <2>1, BeginInv, DescribeInv, IssueInv DEF Next
<1> QED
  BY <1>1, <1>2, PTL DEF Spec

(* The types of the variables, for all sizes *)
THEOREM TypeCorrect == Spec => []TypeOK
<1>1. PrdtInv => TypeOK
  BY DEF PrdtInv
<1> QED
  BY <1>1, PrdtInvariant, PTL

(* The entries follow one another from the beginning of the buffer to its   *)
(* end, whatever its length.                                                *)
THEOREM TableCoversBuffer == Spec => []CoversBuffer
<1>1. PrdtInv => CoversBuffer
  <2> SUFFICES ASSUME PrdtInv PROVE CoversBuffer
    OBVIOUS
  <2>1. End = buf + sectors * lbaSize /\ buf \in Nat /\ sectors * lbaSize \in Nat
    BY EndIsNat DEF PrdtInv, End
  <2>2. pc = "issued" => Reached = End
    BY DEF PrdtInv
  <2> QED
    BY <2>1, <2>2 DEF PrdtInv, CoversBuffer, Reached
<1> QED
  BY <1>1, PrdtInvariant, PTL

(* The adapter transfers sector_count sectors, for all counts from 1 to     *)
(* Counts: the count field loses nothing the device would not put back.      *)
THEOREM CountIsKept == Spec => []CountMatches
<1>1. PrdtInv => CountMatches
  <2> SUFFICES ASSUME PrdtInv, pc = "issued", sectors \in 1 .. Counts PROVE Transferred = sectors
    BY DEF CountMatches
  <2>1. Counts \in Nat \ {0} /\ count = sectors % Counts
    BY PrdtAssumption DEF PrdtInv, CountField
  <2>2. CASE sectors = Counts
    <3>1. Counts % Counts = 0
      BY <2>1
    <3> QED
      BY <3>1, <2>1, <2>2 DEF Transferred
  <2>3. CASE sectors \in 1 .. Counts - 1
    <3>1. sectors % Counts = sectors
      BY <2>1, <2>3
    <3> QED
      BY <3>1, <2>1, <2>3 DEF Transferred
  <2> QED
    BY <2>1, <2>2, <2>3
<1> QED
  BY <1>1, PrdtInvariant, PTL

-----------------------------------------------------------------------------
(* The whole driver                                                        *)

Device == [port : Ports, lba_size : Nat]

(* AHCI_read() and AHCI_write() get a sector size from the list, or one      *)
(* that the memory at the null pointer holds.                                *)
LEMMA LookupIsNat ==
  ASSUME DiskTypeOK, NEW p \in Ports, NEW size \in Lookup(p)
  PROVE  size \in Nat
<1>1. g_ahci_device_list \in Seq(Device)
  BY DEF DiskTypeOK, Device
<1>2. \A k \in DOMAIN g_ahci_device_list : g_ahci_device_list[k] \in Device
  BY <1>1
<1>3. CASE Found(p) = {}
  BY <1>3, DiskAssumption DEF Lookup
<1>4. CASE Found(p) # {}
  BY <1>2, <1>4 DEF Lookup, Found, Device
<1> QED
  BY <1>3, <1>4

(* The ports on the list are ports of the adapter.                           *)
LEMMA ListedPorts ==
  ASSUME DiskTypeOK
  PROVE  \A k \in DOMAIN g_ahci_device_list : g_ahci_device_list[k].port \in Ports
<1>1. g_ahci_device_list \in Seq(Device)
  BY DEF DiskTypeOK, Device
<1>2. \A k \in DOMAIN g_ahci_device_list : g_ahci_device_list[k] \in Device
  BY <1>1
<1> QED
  BY <1>2 DEF Device

(* What register_device() does to the list                                   *)
LEMMA PushedDevice ==
  ASSUME NEW devices \in Seq(Device), NEW device \in Device
  PROVE  /\ <<device>> \o devices \in Seq(Device)
         /\ Len(<<device>> \o devices) = Len(devices) + 1
         /\ (<<device>> \o devices)[1] = device
         /\ \A k \in 2 .. Len(devices) + 1 : (<<device>> \o devices)[k] = devices[k - 1]
  OBVIOUS

(* The inductive invariant of the driver: the ports below i are listed as    *)
(* they are, those from i on are not, and while Main waits for an answer     *)
(* the page holds that of the drive at port i once the slot is free.         *)
ListInv ==
  /\ \A k \in DOMAIN g_ahci_device_list : LET device == g_ahci_device_list[k] IN
       /\ Usable(device.port) /\ device.port < i
       /\ device.lba_size = LbaSizeIn(drives[device.port].answer)
  /\ \A k, l \in DOMAIN g_ahci_device_list :
       k < l => g_ahci_device_list[k].port > g_ahci_device_list[l].port
  /\ \A p \in Ports : p < i /\ Usable(p) => Found(p) # {}

TaskInv ==
  /\ task \in {"fis", "identify"} => i \in Ports /\ Present(i)
  /\ task = "identify" /\ ~port_regs[i].CI => identify_buf = drives[i].answer
  /\ task = "use" => CAP2 \/ i = PortCount
  /\ task # "use" => pc = "call"
  /\ \A p \in Ports : port_regs[p].CI => task = "use" \/ (task = "identify" /\ p = i)

(* A call works with the size it has found.                                  *)
CallInv == pc # "call" => task = "use" /\ port \in Ports /\ lbaSize \in Lookup(port)

DiskInv == DiskTypeOK /\ ListInv /\ TaskInv /\ CallInv

(* The driver before AHCI_init()                                             *)
LEMMA DiskInitInv == DiskInit => DiskInv
<1> SUFFICES ASSUME DiskInit PROVE DiskInv
  OBVIOUS
<1>1. i = 0 /\ PortCount \in Nat /\ \A p \in Ports : ~(p < i)
  BY DiskAssumption DEF DiskInit, Ports
<1>2. DiskTypeOK
  <2>1. drives \in DrivesAtPorts /\ CAP2 \in BOOLEAN /\ HR \in BOOLEAN /\ identify_buf \in Answers
    BY DiskAssumption DEF DiskInit
  <2>2. g_ahci_device_list \in Seq([port : Ports, lba_size : Nat])
    BY DEF DiskInit
  <2>3. i \in 0 .. PortCount
    BY <1>1
  <2>4. port_regs \in [Ports -> [CLB : BOOLEAN, FRE : BOOLEAN, FR : BOOLEAN, ST : BOOLEAN, CI : BOOLEAN]]
    BY DEF DiskInit
  <2> QED
    BY <2>1, <2>2, <2>3, <2>4 DEF DiskInit, DiskTypeOK
<1>3. ListInv
  BY <1>1 DEF DiskInit, ListInv
<1>4. TaskInv
  BY DEF DiskInit, TaskInv, Init
<1> QED
  BY <1>2, <1>3, <1>4 DEF DiskInv, CallInv, DiskInit, Init

(* The invariant is not disturbed by a step that leaves what it is about.    *)
LEMMA ListUnchanged ==
  ASSUME ListInv, drives' = drives, i' = i, g_ahci_device_list' = g_ahci_device_list
  PROVE  ListInv'
  BY DEF ListInv, Usable, Present, Found

(* AHCI_init() behind a port without a device                                *)
LEMMA SkipPortInv == DiskInv /\ SkipPort => DiskInv'
<1> SUFFICES ASSUME DiskInv, SkipPort PROVE DiskInv'
  OBVIOUS
<1>1. PortCount \in Nat /\ i \in Ports /\ i' = i + 1 /\ i' \in 0 .. PortCount
  BY DiskAssumption DEF DiskInv, DiskTypeOK, SkipPort, Ports
<1>2. DiskTypeOK'
  BY <1>1 DEF DiskInv, DiskTypeOK, SkipPort
<1>3. \A p \in Ports : p < i' => p < i \/ p = i
  BY <1>1 DEF Ports
<1>4. \A p \in Ports : p < i => p < i'
  BY <1>1 DEF Ports
<1>5. \A k \in DOMAIN g_ahci_device_list : g_ahci_device_list[k].port \in Ports
  BY ListedPorts DEF DiskInv
<1>6. ListInv'
  BY <1>3, <1>4, <1>5 DEF DiskInv, ListInv, SkipPort, Usable, Present, Found
<1>7. TaskInv'
  BY DEF DiskInv, TaskInv, SkipPort, prdtVars
<1> QED
  BY <1>2, <1>6, <1>7 DEF DiskInv, CallInv, TaskInv, SkipPort, prdtVars

(* AHCI_init() behind a port whose drive has answered                        *)
LEMMA RegisterInv == DiskInv /\ Register => DiskInv'
<1> SUFFICES ASSUME DiskInv, Register PROVE DiskInv'
  OBVIOUS
<1> DEFINE devices == g_ahci_device_list
           new == [port |-> i, lba_size |-> LbaSizeIn(identify_buf)]
<1>1. /\ PortCount \in Nat /\ i \in Ports /\ i \in Nat /\ Present(i)
      /\ i' = i + 1 /\ i' \in 0 .. PortCount /\ drives' = drives
  BY DiskAssumption DEF DiskInv, DiskTypeOK, TaskInv, Register, Ports
<1>2. identify_buf = drives[i].answer /\ identify_buf \in Answers
  BY DEF DiskInv, DiskTypeOK, TaskInv, Register, Identified
<1>3. devices \in Seq(Device) /\ new \in Device
  BY <1>1, <1>2 DEF DiskInv, DiskTypeOK, Device, LbaSizeIn, Answers
<1>4. devices' \in Seq(Device)
  BY <1>3, PushedDevice DEF Register
<1>5. DiskTypeOK'
  BY <1>1, <1>4 DEF DiskInv, DiskTypeOK, Register, Device
<1>6. TaskInv' /\ CallInv'
  BY <1>1 DEF DiskInv, TaskInv, CallInv, Register, Identified, prdtVars
<1>7. \A k \in DOMAIN devices : devices[k].port \in Ports /\ devices[k].port \in Nat /\ devices[k].port < i
  BY <1>1, ListedPorts DEF DiskInv, ListInv, Ports
<1>8. \A p \in Ports : (p < i' <=> p < i \/ p = i) /\ p \in Nat
  BY <1>1 DEF Ports
<1>9. CASE identify_buf.lba48
  <2>1. /\ devices' = <<new>> \o devices /\ Len(devices) \in Nat /\ Len(devices') = Len(devices) + 1
        /\ DOMAIN devices = 1 .. Len(devices) /\ DOMAIN devices' = 1 .. Len(devices) + 1
        /\ devices'[1] = new /\ \A k \in 2 .. Len(devices) + 1 : devices'[k] = devices[k - 1]
    BY <1>3, <1>9, PushedDevice DEF Register
  <2>2. Usable(i) /\ new.port = i /\ new.lba_size = LbaSizeIn(drives[i].answer)
    BY <1>1, <1>2, <1>9 DEF Usable
  <2>3. \A k \in DOMAIN devices' : k = 1 \/ (k \in 2 .. Len(devices) + 1 /\ k - 1 \in DOMAIN devices)
    BY <2>1
  <2>4. ASSUME NEW k \in DOMAIN devices'
        PROVE  /\ Usable(devices[k].port)' /\ devices'[k].port < i'
               /\ devices'[k].lba_size = LbaSizeIn(drives'[devices'[k].port].answer)
    <3>1. CASE k = 1
      BY <1>1, <2>1, <2>2, <3>1 DEF Usable, Present
    <3>2. CASE k # 1
      <4>1. k - 1 \in DOMAIN devices /\ devices'[k] = devices[k - 1]
        BY <2>1, <2>3, <3>2
      <4> QED
        BY <1>1, <1>7, <1>8, <4>1 DEF DiskInv, ListInv, Usable, Present
    <3> QED
      BY <3>1, <3>2
  <2>5. ASSUME NEW k \in DOMAIN devices', NEW l \in DOMAIN devices', k < l
        PROVE  devices'[k].port > devices'[l].port
    <3>1. l # 1 /\ l - 1 \in DOMAIN devices /\ devices'[l] = devices[l - 1]
      BY <2>1, <2>3, <2>5
    <3>2. CASE k = 1
      BY <1>1, <1>7, <2>1, <2>2, <3>1, <3>2
    <3>3. CASE k # 1
      <4>1. k - 1 \in DOMAIN devices /\ devices'[k] = devices[k - 1] /\ k - 1 < l - 1
        BY <2>1, <2>3, <2>5, <3>3
      <4> QED
        BY <3>1, <4>1 DEF DiskInv, ListInv
    <3> QED
      BY <3>2, <3>3
  <2>6. ASSUME NEW p \in Ports, p < i', Usable(p)'
        PROVE  Found(p)' # {}
    <3>1. CASE p = i
      BY <2>1, <2>2, <3>1 DEF Found
    <3>2. CASE p # i
      <4>1. PICK k \in DOMAIN devices : devices[k].port = p
        BY <1>1, <1>8, <2>6, <3>2 DEF DiskInv, ListInv, Found, Usable, Present
      <4>2. k + 1 \in 2 .. Len(devices) + 1 /\ k + 1 \in DOMAIN devices' /\ (k + 1) - 1 = k
        BY <2>1
      <4>3. devices'[k + 1] = devices[k]
        BY <2>1, <4>2
      <4> QED
        BY <4>1, <4>2, <4>3 DEF Found
    <3> QED
      BY <3>1, <3>2
  <2> QED
    BY <1>5, <1>6, <2>4, <2>5, <2>6 DEF DiskInv, ListInv
<1>10. CASE ~identify_buf.lba48
  <2>1. devices' = devices /\ ~Usable(i)
    BY <1>2, <1>10 DEF Register, Usable
  <2>2. ListInv'
    BY <1>1, <1>7, <1>8, <2>1 DEF DiskInv, ListInv, Usable, Present, Found
  <2> QED
    BY <1>5, <1>6, <2>2 DEF DiskInv
<1> QED
  BY <1>9, <1>10

(* The other steps of AHCI_init() leave the list and the port.               *)
LEMMA SetUpInv ==
  DiskInv /\ (Reset \/ AfterReset \/ SetUpPort \/ Identify \/ PortsDone) => DiskInv'
<1> SUFFICES ASSUME DiskInv, Reset \/ AfterReset \/ SetUpPort \/ Identify \/ PortsDone
             PROVE  DiskInv'
  OBVIOUS
<1>1. /\ drives' = drives /\ CAP2' = CAP2 /\ i' = i /\ g_ahci_device_list' = g_ahci_device_list
      /\ pc' = pc /\ task # "use"
  BY DEF Reset, AfterReset, SetUpPort, Identify, PortsDone, prdtVars
<1>2. ListInv'
  BY <1>1, ListUnchanged DEF DiskInv
<1>3. CallInv'
  BY <1>1 DEF DiskInv, TaskInv, CallInv
<1>4. PortCount \in Nat /\ i \in 0 .. PortCount /\ (i < PortCount => i \in Ports)
  BY DiskAssumption DEF DiskInv, DiskTypeOK, Ports
<1>5. CASE Reset \/ AfterReset \/ PortsDone
  <2>1. port_regs' = port_regs /\ identify_buf' = identify_buf
    BY <1>5 DEF Reset, AfterReset, PortsDone
  <2>2. DiskTypeOK'
    BY <1>1, <1>5, <2>1 DEF DiskInv, DiskTypeOK, Reset, AfterReset, PortsDone
  <2>3. TaskInv'
    BY <1>1, <1>5, <2>1 DEF DiskInv, TaskInv, Reset, AfterReset, PortsDone, Present
  <2> QED
    BY <1>2, <1>3, <2>2, <2>3 DEF DiskInv
<1>6. CASE SetUpPort
  <2>1. i \in Ports /\ Present(i) /\ port_regs' = [port_regs EXCEPT ![i].CLB = TRUE, ![i].FRE = TRUE]
    BY <1>4, <1>6 DEF SetUpPort
  <2>2. port_regs' \in [Ports -> [CLB : BOOLEAN, FRE : BOOLEAN, FR : BOOLEAN, ST : BOOLEAN, CI : BOOLEAN]]
    BY <2>1 DEF DiskInv, DiskTypeOK
  <2>3. \A p \in Ports : port_regs'[p].CI = port_regs[p].CI
    BY <2>1 DEF DiskInv, DiskTypeOK
  <2>4. DiskTypeOK'
    BY <1>1, <1>6, <2>2 DEF DiskInv, DiskTypeOK, SetUpPort
  <2>5. TaskInv'
    BY <1>1, <1>6, <2>1, <2>3 DEF DiskInv, TaskInv, SetUpPort, Present
  <2> QED
    BY <1>2, <1>3, <2>4, <2>5 DEF DiskInv
<1>7. CASE Identify
  <2>1. i \in Ports /\ Present(i) /\ port_regs' = [port_regs EXCEPT ![i].ST = TRUE, ![i].CI = TRUE]
    BY <1>7 DEF DiskInv, TaskInv, Identify
  <2>2. port_regs' \in [Ports -> [CLB : BOOLEAN, FRE : BOOLEAN, FR : BOOLEAN, ST : BOOLEAN, CI : BOOLEAN]]
    BY <2>1 DEF DiskInv, DiskTypeOK
  <2>3. port_regs'[i].CI /\ \A p \in Ports : p # i => port_regs'[p].CI = port_regs[p].CI
    BY <2>1 DEF DiskInv, DiskTypeOK
  <2>4. DiskTypeOK'
    BY <1>1, <1>7, <2>2, DiskAssumption DEF DiskInv, DiskTypeOK, Identify
  <2>5. TaskInv'
    BY <1>1, <1>7, <2>1, <2>3 DEF DiskInv, TaskInv, Identify, Present
  <2> QED
    BY <1>2, <1>3, <2>4, <2>5 DEF DiskInv
<1> QED
  BY <1>5, <1>6, <1>7

(* A call leaves what AHCI_init() has found.                                 *)
LEMMA TransferInv == DiskInv /\ Transfer => DiskInv'
<1> SUFFICES ASSUME DiskInv, Transfer PROVE DiskInv'
  OBVIOUS
<1>1. /\ drives' = drives /\ CAP2' = CAP2 /\ i' = i /\ g_ahci_device_list' = g_ahci_device_list
      /\ task' = task /\ identify_buf' = identify_buf /\ HR' = HR
  BY DEF Transfer, Call, DescribeBuffer, Execute
<1>2. ListInv'
  BY <1>1, ListUnchanged DEF DiskInv
<1>3. task = "use"
  BY DEF DiskInv, CallInv, Transfer, Call, DescribeBuffer, Describe, Execute, Issue
<1>4. port_regs' \in [Ports -> [CLB : BOOLEAN, FRE : BOOLEAN, FR : BOOLEAN, ST : BOOLEAN, CI : BOOLEAN]]
  BY ZenonT(30) DEF DiskInv, DiskTypeOK, Transfer, Call, DescribeBuffer, Execute
<1>5. DiskTypeOK'
  BY <1>1, <1>4 DEF DiskInv, DiskTypeOK
<1>6. TaskInv'
  BY <1>1, <1>3 DEF DiskInv, TaskInv
<1>7. CallInv'
  <2>1. CASE Call
    <3>1. task' = "use" /\ port' \in Ports /\ lbaSize' \in Lookup(port')
      BY <2>1 DEF Call, Begin
    <3>2. lbaSize' \in Lookup(port)'
      BY <1>1, <3>1 DEF Lookup, Found
    <3> QED
      BY <3>1, <3>2 DEF CallInv
  <2>2. CASE DescribeBuffer \/ Execute
    <3>1. pc # "call" /\ port' = port /\ lbaSize' = lbaSize
      BY <2>2 DEF DescribeBuffer, Describe, Execute, Issue
    <3> QED
      BY <1>1, <3>1 DEF DiskInv, CallInv, Lookup, Found
  <2> QED
    BY <2>1, <2>2 DEF Transfer
<1> QED
  BY <1>2, <1>5, <1>6, <1>7 DEF DiskInv

(* What the adapter does to the page is to put the answer there that is      *)
(* waited for.                                                               *)
LEMMA AdapterInv == DiskInv /\ Adapter => DiskInv'
<1> SUFFICES ASSUME DiskInv, Adapter PROVE DiskInv'
  OBVIOUS
<1>1. /\ drives' = drives /\ CAP2' = CAP2 /\ i' = i /\ g_ahci_device_list' = g_ahci_device_list
      /\ task' = task /\ pc' = pc /\ port' = port /\ lbaSize' = lbaSize
  BY DEF Adapter, ResetDone, FisRunning, CommandDone, prdtVars
<1>2. ListInv' /\ CallInv'
  BY <1>1, ListUnchanged DEF DiskInv, CallInv, Lookup, Found
<1>3. CASE ResetDone
  <2>1. port_regs' = port_regs /\ identify_buf' = identify_buf /\ HR' = FALSE
    BY <1>3 DEF ResetDone
  <2>2. DiskTypeOK'
    BY <1>1, <2>1 DEF DiskInv, DiskTypeOK
  <2>3. TaskInv'
    BY <1>1, <2>1 DEF DiskInv, TaskInv, Present
  <2> QED
    BY <1>2, <2>2, <2>3 DEF DiskInv
<1>4. ASSUME NEW p \in Ports, FisRunning(p) PROVE DiskInv'
  <2>1. /\ port_regs' = [port_regs EXCEPT ![p].FR = TRUE]
        /\ identify_buf' = identify_buf /\ HR' = HR
    BY <1>4 DEF FisRunning
  <2>2. /\ port_regs' \in [Ports -> [CLB : BOOLEAN, FRE : BOOLEAN, FR : BOOLEAN, ST : BOOLEAN, CI : BOOLEAN]]
        /\ \A q \in Ports : port_regs'[q].CI = port_regs[q].CI
    BY <2>1 DEF DiskInv, DiskTypeOK
  <2>3. DiskTypeOK'
    BY <1>1, <2>1, <2>2 DEF DiskInv, DiskTypeOK
  <2>4. TaskInv'
    BY <1>1, <2>1, <2>2 DEF DiskInv, TaskInv, Present
  <2> QED
    BY <1>2, <2>3, <2>4 DEF DiskInv
<1>5. ASSUME NEW p \in Ports, CommandDone(p) PROVE DiskInv'
  <2>1. /\ port_regs' = [port_regs EXCEPT ![p].CI = FALSE] /\ port_regs[p].CI
        /\ identify_buf' = IF task = "identify" THEN drives[p].answer ELSE identify_buf
        /\ HR' = HR
    BY <1>5 DEF CommandDone
  <2>2. /\ port_regs' \in [Ports -> [CLB : BOOLEAN, FRE : BOOLEAN, FR : BOOLEAN, ST : BOOLEAN, CI : BOOLEAN]]
        /\ \A q \in Ports : port_regs'[q].CI => port_regs[q].CI
    BY <2>1 DEF DiskInv, DiskTypeOK
  <2>3. drives[p].answer \in Answers
    BY DEF DiskInv, DiskTypeOK, DrivesAtPorts
  <2>4. DiskTypeOK'
    BY <1>1, <2>1, <2>2, <2>3 DEF DiskInv, DiskTypeOK
  <2>5. task = "identify" => p = i
    BY <2>1 DEF DiskInv, TaskInv
  <2>6. TaskInv'
    BY <1>1, <2>1, <2>2, <2>5 DEF DiskInv, TaskInv, Present
  <2> QED
    BY <1>2, <2>4, <2>6 DEF DiskInv
<1> QED
  BY <1>3, <1>4, <1>5 DEF Adapter

(* The invariant of the driver                                               *)
THEOREM DiskInvariant == DiskSpec => []DiskInv
<1>1. DiskInv /\ [DiskNext]_diskVars => DiskInv'
  <2> SUFFICES ASSUME DiskInv, [DiskNext]_diskVars PROVE DiskInv'
    OBVIOUS
  <2>1. CASE UNCHANGED diskVars
    BY <2>1 DEF diskVars, prdtVars, DiskInv, DiskTypeOK, ListInv, TaskInv, CallInv, Usable,
                Present, Lookup, Found
  <2> QED
    BY <2>1, SkipPortInv, RegisterInv, SetUpInv, TransferInv, AdapterInv DEF DiskNext, AHCI_init
<1> QED
  BY <1>1, DiskInitInv, PTL DEF DiskSpec

(* The list holds each usable drive with its own answer, for any number of   *)
(* ports and whatever is at them.                                            *)
THEOREM DrivesAreListed == DiskSpec => []DevicesListed
<1>1. DiskInv => DevicesListed
  <2> SUFFICES ASSUME DiskInv PROVE DevicesListed
    OBVIOUS
  <2>1. ASSUME task = "use", ~CAP2, NEW p \in Ports, Usable(p) PROVE Found(p) # {}
    <3>1. p < i
      BY <2>1, DiskAssumption DEF DiskInv, TaskInv, Ports
    <3> QED
      BY <2>1, <3>1 DEF DiskInv, ListInv
  <2> QED
    BY <2>1 DEF DiskInv, ListInv, DevicesListed, Found
<1> QED
  BY <1>1, DiskInvariant, PTL

(* The driver describes its transfers as AhciPrdt does.                      *)
THEOREM DiskTransfers == DiskSpec => Spec
<1>1. DiskInit => Init
  BY DEF DiskInit
<1>2. DiskInv /\ [DiskNext]_diskVars => [Next]_prdtVars
  <2> SUFFICES ASSUME DiskInv, [DiskNext]_diskVars PROVE [Next]_prdtVars
    OBVIOUS
  <2>1. CASE Call
    <3>1. PICK size \in Lookup(port') : port' \in Ports /\ Begin(size)
      BY <2>1 DEF Call
    <3>2. size \in Nat
      BY <3>1, LookupIsNat DEF DiskInv
    <3> QED
      BY <3>1, <3>2 DEF Next
  <2>2. CASE DescribeBuffer \/ Execute
    BY <2>2 DEF DescribeBuffer, Execute, Next
  <2>3. CASE AHCI_init \/ Adapter \/ UNCHANGED diskVars
    BY <2>3 DEF AHCI_init, Reset, AfterReset, SkipPort, SetUpPort, Identify, Register, PortsDone,
                Adapter, ResetDone, FisRunning, CommandDone, diskVars
  <2> QED
    BY <2>1, <2>2, <2>3 DEF DiskNext, Transfer
<1> QED
  BY <1>1, <1>2, DiskInvariant, PTL DEF DiskSpec, Spec

(* So its table covers the buffer, also behind a null pointer.               *)
THEOREM DiskCoversBuffer == DiskSpec => []CoversBuffer
  BY DiskTransfers, TableCoversBuffer, PTL

(* A drive with 512-byte sectors transfers as many bytes as the buffer has   *)
(* that its table describes, whatever the other drives are.                  *)
THEOREM DiskTransferMatches == DiskSpec => []TransferMatchesDrive
<1>1. DiskInv /\ DevicesListed /\ CountMatches => TransferMatchesDrive
  <2> SUFFICES ASSUME DiskInv, DevicesListed, CountMatches, ~CAP2,
                      NEW p \in Ports, Usable(p), ~drives[p].answer.large,
                      pc = "issued", port = p, sectors \in 1 .. Counts
               PROVE  sectors * lbaSize = Transferred * SectorBytes(p)
    BY DEF TransferMatchesDrive, BufferMatches
  <2>1. task = "use" /\ lbaSize \in Lookup(p)
    BY DEF DiskInv, CallInv
  <2>2. Found(p) # {}
    BY <2>1 DEF DevicesListed, Found
  <2>3. PICK k \in Found(p) : lbaSize = g_ahci_device_list[k].lba_size
    BY <2>1, <2>2 DEF Lookup
  <2>4. lbaSize = 512
    BY <2>3 DEF DevicesListed, Found, LbaSizeIn
  <2>5. Transferred = sectors /\ SectorBytes(p) = 512
    BY DEF CountMatches, SectorBytes
  <2> QED
    BY <2>4, <2>5
<1> QED
  BY <1>1, DiskInvariant, DrivesAreListed, DiskTransfers, CountIsKept, PTL

-----------------------------------------------------------------------------
(* The command slots of a port                                             *)

-----------------------------------------------------------------------------
(* The inductive invariant.                                                *)

(* A command table that a slot points to is of a call on that port that     *)
(* has begun.                                                               *)
Owned ==
  \A p \in UsedPorts, s \in Slots, t \in Tasks, k \in 1 .. Calls :
    list[p][s].table = <<t, k>> => portOf[t] = p /\ k <= call[t]

(* A slot the register names, or may name after a write, points to a table. *)
Filled ==
  /\ \A p \in UsedPorts : \A s \in PxCI[p] : list[p][s].table \in Commands
  /\ \A t \in Tasks : at[t] = "write" => \A s \in read[t] : list[portOf[t]][s].table \in Commands
  /\ \A t \in Tasks : at[t] \in {"read", "write", "wait"} => list[portOf[t]][slot[t]].table \in Commands
  /\ \A t \in Tasks : at[t] # "done" => call[t] # 0

(* No command is executed before its call.                                  *)
Past == \A t \in Tasks, k \in 1 .. Calls : <<t, k>> \in executed => k <= call[t]

(* What a task that is alone on its port knows of it: the register is clear *)
(* until the task has written it, and then names the task's slot at most;   *)
(* the bit goes when the command is executed.                               *)
Own(t) ==
  /\ at[t] # "wait" => PxCI[portOf[t]] = {}
  /\ at[t] = "write" => read[t] = {}
  /\ at[t] \in {"table", "read", "write", "wait"} => list[portOf[t]][slot[t]].info = Command(t)
  /\ at[t] \in {"read", "write", "wait"} => list[portOf[t]][slot[t]].table = Command(t)
  /\ at[t] \in {"scan", "info", "table", "read", "write"} => Command(t) \notin executed
  /\ at[t] = "wait" =>
       /\ PxCI[portOf[t]] \subseteq {slot[t]}
       /\ slot[t] \in PxCI[portOf[t]] <=> Command(t) \notin executed
  /\ at[t] = "done" /\ call[t] > 0 => Command(t) \in executed

Owns == \A t \in Tasks : Alone(t) => Own(t)

WholeAndOnce == (\A t \in Tasks : Alone(t)) => ~again /\ ~torn

PortInv == PortTypeOK /\ Owned /\ Filled /\ Past /\ Owns /\ WholeAndOnce

-----------------------------------------------------------------------------
(* A header that was never written holds no command.                        *)
LEMMA NoCommandIsNone == \A t, k : NoCommand # <<t, k>>
  BY DEF NoCommand

(* Commands are pairs.                                                      *)
LEMMA CommandsArePairs ==
  ASSUME NEW c \in Commands
  PROVE  \E t \in Tasks, k \in 1 .. Calls : c = <<t, k>>
  BY DEF Commands

(* A task and its call make a command.                                      *)
LEMMA CommandIsOne ==
  ASSUME PortTypeOK, NEW t \in Tasks, call[t] # 0
  PROVE  Command(t) \in Commands /\ call[t] \in 1 .. Calls
<1>1. call[t] \in 0 .. Calls /\ Calls \in Nat
  BY AhciAssumption DEF PortTypeOK
<1>2. call[t] \in 1 .. Calls
  BY <1>1
<1> QED
  BY <1>2 DEF Command, Commands

(* Ports and slots of tasks                                                 *)
LEMMA Places ==
  ASSUME PortTypeOK, NEW t \in Tasks
  PROVE  portOf[t] \in UsedPorts /\ slot[t] \in Slots /\ call[t] \in Nat
         /\ PxCI[portOf[t]] \subseteq Slots /\ read[t] \subseteq Slots
  BY AhciAssumption DEF PortTypeOK

(* A task alone on its port has another port than any other task.           *)
LEMMA Apart ==
  ASSUME NEW t \in Tasks, NEW u \in Tasks, Alone(t), u # t
  PROVE  portOf[u] # portOf[t]
  BY DEF Alone

(* Before the first call                                                    *)
LEMMA PortInitInv == PortInit => PortInv
<1> SUFFICES ASSUME PortInit PROVE PortInv
  OBVIOUS
<1>1. 0 \in Slots /\ 0 \in 0 .. Calls
  BY AhciAssumption DEF Slots
<1>2. PortTypeOK
  BY <1>1 DEF PortInit, PortTypeOK
<1>3. Owned
  BY NoCommandIsNone DEF PortInit, Owned
<1>4. Filled /\ Past
  BY DEF PortInit, Filled, Past
<1>5. Owns
  BY <1>2, Places DEF PortInit, Owns, Own
<1>6. WholeAndOnce
  BY DEF PortInit, WholeAndOnce
<1> QED
  BY <1>2, <1>3, <1>4, <1>5, <1>6 DEF PortInv

(* A step of task u that touches no port leaves what the others know.       *)
LEMMA OthersOwn ==
  ASSUME PortInv, NEW u \in Tasks, NEW t \in Tasks, t # u, Alone(t),
         portOf' = portOf, at'[t] = at[t], slot'[t] = slot[t], call'[t] = call[t],
         read'[t] = read[t], executed' = executed,
         PxCI'[portOf[t]] = PxCI[portOf[t]], list'[portOf[t]] = list[portOf[t]]
  PROVE  Own(t)'
<1>1. Own(t)
  BY DEF PortInv, Owns
<1> QED
  BY <1>1 DEF Own, Command

(* A call begins with a command that was not executed.                      *)
LEMMA BeginCommandInv == ASSUME PortInv, NEW u \in Tasks, BeginCommand(u) PROVE PortInv'
<1> USE DEF PortInv
<1>1. /\ at[u] = "done" /\ call[u] < Calls /\ call[u] \in Nat
      /\ at' = [at EXCEPT ![u] = "scan"] /\ call' = [call EXCEPT ![u] = @ + 1]
      /\ slot' = [slot EXCEPT ![u] = 0]
      /\ UNCHANGED <<portOf, PxCI, list, read, executed, again, torn>>
  BY Places DEF BeginCommand, Goto
<1>2. /\ call' \in [Tasks -> 0 .. Calls] /\ slot' \in [Tasks -> Slots]
      /\ at' \in [Tasks -> {"scan", "info", "table", "read", "write", "wait", "done"}]
  <2>1. call[u] + 1 \in 0 .. Calls /\ 0 \in Slots
    BY <1>1, AhciAssumption DEF Slots
  <2> QED
    BY <1>1, <2>1 DEF PortTypeOK
<1>3. PortTypeOK'
  BY <1>1, <1>2 DEF PortTypeOK
<1>4. \A t \in Tasks : /\ call'[t] = (IF t = u THEN call[t] + 1 ELSE call[t])
                       /\ at'[t] = (IF t = u THEN "scan" ELSE at[t])
                       /\ call[t] \in Nat
  BY <1>1, Places DEF PortTypeOK
<1>5. Owned'
  BY <1>1, <1>4 DEF Owned
<1>6. Filled'
  <2>1. \A t \in Tasks : at'[t] \in {"read", "write", "wait"} =>
          t # u /\ at'[t] = at[t] /\ slot'[t] = slot[t]
    BY <1>1, <1>4 DEF PortTypeOK
  <2>2. \A t \in Tasks : at'[t] # "done" => call'[t] # 0
    BY <1>4 DEF Filled
  <2> QED
    BY <1>1, <2>1, <2>2 DEF Filled
<1>7. Past'
  BY <1>1, <1>4 DEF Past
<1>8. Owns'
  <2> SUFFICES ASSUME NEW t \in Tasks, Alone(t) PROVE Own(t)'
    BY <1>1 DEF Owns, Alone
  <2>1. CASE t = u
    <3>1. Own(u) /\ PxCI'[portOf'[u]] = {} /\ at'[u] = "scan"
      BY <1>1, <1>4, <2>1 DEF Owns, Own
    <3>2. <<u, call[u] + 1>> \notin executed
      <4>1. call[u] + 1 \in 1 .. Calls /\ ~(call[u] + 1 <= call[u])
        BY <1>1, AhciAssumption
      <4> QED
        BY <4>1 DEF Past
    <3>3. Command(u)' = <<u, call[u] + 1>>
      BY <1>4 DEF Command
    <3> QED
      BY <1>1, <2>1, <3>1, <3>2, <3>3 DEF Own
  <2>2. CASE t # u
    <3>1. at'[t] = at[t] /\ slot'[t] = slot[t] /\ call'[t] = call[t]
      BY <1>1, <2>2 DEF PortTypeOK
    <3> QED
      BY <1>1, <2>2, <3>1, OthersOwn
  <2> QED
    BY <2>1, <2>2
<1>9. WholeAndOnce'
  BY <1>1 DEF WholeAndOnce, Alone
<1> QED
  BY <1>3, <1>5, <1>6, <1>7, <1>8, <1>9

(* The search stays in the slots.                                           *)
LEMMA ScanInv == ASSUME PortInv, NEW u \in Tasks, Scan(u) PROVE PortInv'
<1> USE DEF PortInv
<1>1. /\ at[u] = "scan"
      /\ UNCHANGED <<portOf, PxCI, list, call, read, executed, again, torn>>
  BY DEF Scan
<1>2. \E s \in Slots, l \in {"scan", "info"} :
        slot' = [slot EXCEPT ![u] = s] /\ at' = [at EXCEPT ![u] = l]
  <2>1. slot[u] \in Slots /\ 0 \in Slots /\ slot = [slot EXCEPT ![u] = slot[u]]
        /\ at = [at EXCEPT ![u] = "scan"]
    BY <1>1, AhciAssumption DEF PortTypeOK, Slots
  <2>2. MoreSlots(u) => slot[u] + 1 \in Slots
    BY <2>1, AhciAssumption DEF MoreSlots, Slots
  <2>3. CASE slot[u] \notin PxCI[portOf[u]]
    BY <2>1, <2>3 DEF Scan, Goto
  <2>4. CASE slot[u] \in PxCI[portOf[u]] /\ MoreSlots(u)
    BY <2>1, <2>2, <2>4 DEF Scan
  <2>5. CASE slot[u] \in PxCI[portOf[u]] /\ ~MoreSlots(u)
    BY <2>1, <2>5 DEF Scan, Goto
  <2> QED
    BY <2>3, <2>4, <2>5
<1>3. PICK s \in Slots, l \in {"scan", "info"} :
        slot' = [slot EXCEPT ![u] = s] /\ at' = [at EXCEPT ![u] = l]
  BY <1>2
<1>4. PortTypeOK'
  BY <1>1, <1>3 DEF PortTypeOK
<1>5. \A t \in Tasks : t # u => at'[t] = at[t] /\ slot'[t] = slot[t]
  BY <1>3 DEF PortTypeOK
<1>6. at'[u] \in {"scan", "info"}
  BY <1>3 DEF PortTypeOK
<1>7. Owned' /\ Past'
  BY <1>1 DEF Owned, Past
<1>8. Filled'
  BY <1>1, <1>5, <1>6 DEF Filled
<1>9. Owns'
  <2> SUFFICES ASSUME NEW t \in Tasks, Alone(t) PROVE Own(t)'
    BY <1>1 DEF Owns, Alone
  <2>1. CASE t = u
    <3>1. Own(u)
      BY <2>1 DEF Owns
    <3> QED
      BY <1>1, <1>6, <2>1, <3>1 DEF Own, Command
  <2>2. CASE t # u
    BY <1>1, <1>5, <2>2, OthersOwn
  <2> QED
    BY <2>1, <2>2
<1>10. WholeAndOnce'
  BY <1>1 DEF WholeAndOnce, Alone
<1> QED
  BY <1>4, <1>7, <1>8, <1>9, <1>10

(* Header written by u: one field of one slot of its port.                  *)
Headers == [UsedPorts -> [Slots -> [info : Commands \union {NoCommand}, table : Commands \union {NoCommand}]]]

(* DESC_INFO is stored.                                                     *)
LEMMA SetInfoInv == ASSUME PortInv, NEW u \in Tasks, SetInfo(u) PROVE PortInv'
<1> USE DEF PortInv
<1>1. /\ at[u] = "info" /\ at' = [at EXCEPT ![u] = "table"]
      /\ list' = [list EXCEPT ![portOf[u]][slot[u]].info = Command(u)]
      /\ UNCHANGED <<PxCI, call, portOf, slot, read, executed, again, torn>>
  BY DEF SetInfo, Goto, local
<1>2. Command(u) \in Commands
  BY <1>1, CommandIsOne DEF Filled
<1>3. portOf[u] \in UsedPorts /\ slot[u] \in Slots
  BY Places
<1>4. list \in Headers
  BY DEF PortTypeOK, Headers
<1>5. list' \in Headers
  BY SMTT(30), <1>1, <1>2, <1>3, <1>4 DEF Headers
<1>6. list'[portOf[u]][slot[u]].info = Command(u)
  BY <1>1, <1>3, <1>4 DEF Headers
<1>7. \A p \in UsedPorts, s \in Slots : list'[p][s].table = list[p][s].table
  BY <1>1, <1>3, <1>4 DEF Headers
<1>8. \A p \in UsedPorts : p # portOf[u] => list'[p] = list[p]
  BY <1>1, <1>3, <1>4 DEF Headers
<1>9. \A t \in Tasks : at'[t] = IF t = u THEN "table" ELSE at[t]
  BY <1>1 DEF PortTypeOK
<1>10. PortTypeOK'
  BY <1>1, <1>5 DEF PortTypeOK, Headers
<1>11. Owned' /\ Past'
  BY <1>1, <1>7 DEF Owned, Past
<1>12. Filled'
  <2>1. \A p \in UsedPorts : PxCI[p] \subseteq Slots
    BY DEF PortTypeOK
  <2>2. \A t \in Tasks : portOf[t] \in UsedPorts /\ slot[t] \in Slots /\ read[t] \subseteq Slots
    BY Places
  <2> QED
    BY <1>1, <1>7, <1>9, <2>1, <2>2 DEF Filled
<1>13. Owns'
  <2> SUFFICES ASSUME NEW t \in Tasks, Alone(t) PROVE Own(t)'
    BY <1>1 DEF Owns, Alone
  <2>1. CASE t = u
    <3>1. Own(u) /\ at'[u] = "table"
      BY <1>9, <2>1 DEF Owns
    <3> QED
      BY <1>1, <1>6, <2>1, <3>1 DEF Own, Command
  <2>2. CASE t # u
    BY <1>1, <1>8, <1>9, <2>2, OthersOwn, Apart, Places
  <2> QED
    BY <2>1, <2>2
<1>14. WholeAndOnce'
  BY <1>1 DEF WholeAndOnce, Alone
<1> QED
  BY <1>10, <1>11, <1>12, <1>13, <1>14

(* CTBA is stored: the slot points to a table of u, on the port of u.       *)
LEMMA SetTableInv == ASSUME PortInv, NEW u \in Tasks, SetTable(u) PROVE PortInv'
<1> USE DEF PortInv
<1>1. /\ at[u] = "table" /\ at' = [at EXCEPT ![u] = "read"]
      /\ list' = [list EXCEPT ![portOf[u]][slot[u]].table = Command(u)]
      /\ UNCHANGED <<PxCI, call, portOf, slot, read, executed, again, torn>>
  BY DEF SetTable, Goto, local
<1>2. Command(u) \in Commands
  BY <1>1, CommandIsOne DEF Filled
<1>3. portOf[u] \in UsedPorts /\ slot[u] \in Slots
  BY Places
<1>4. list \in Headers
  BY DEF PortTypeOK, Headers
<1>5. list' \in Headers
  BY <1>1, <1>2, <1>3, <1>4 DEF Headers
<1>6. /\ list'[portOf[u]][slot[u]].info = list[portOf[u]][slot[u]].info
      /\ list'[portOf[u]][slot[u]].table = Command(u)
  BY <1>1, <1>3, <1>4 DEF Headers
<1>7. \A p \in UsedPorts, s \in Slots :
        list'[p][s].table = IF p = portOf[u] /\ s = slot[u] THEN Command(u) ELSE list[p][s].table
  BY <1>1, <1>3, <1>4 DEF Headers
<1>8. \A p \in UsedPorts : p # portOf[u] => list'[p] = list[p]
  BY <1>1, <1>3, <1>4 DEF Headers
<1>9. \A t \in Tasks : at'[t] = IF t = u THEN "read" ELSE at[t]
  BY <1>1 DEF PortTypeOK
<1>10. PortTypeOK'
  BY <1>1, <1>5 DEF PortTypeOK, Headers
<1>11. Owned'
  <2> SUFFICES ASSUME NEW p \in UsedPorts, NEW s \in Slots, NEW t \in Tasks, NEW k \in 1 .. Calls,
                      list'[p][s].table = <<t, k>>
               PROVE  portOf[t] = p /\ k <= call[t]
    BY <1>1 DEF Owned
  <2>1. CASE p = portOf[u] /\ s = slot[u]
    <3>1. t = u /\ k = call[u]
      BY <1>7, <2>1 DEF Command
    <3> QED
      BY <2>1, <3>1, Places
  <2>2. CASE ~(p = portOf[u] /\ s = slot[u])
    BY <1>7, <2>2 DEF Owned
  <2> QED
    BY <2>1, <2>2
<1>12. Past'
  BY <1>1 DEF Past
<1>13. Filled'
  <2>1. \A p \in UsedPorts : PxCI[p] \subseteq Slots
    BY DEF PortTypeOK
  <2>2. \A t \in Tasks : portOf[t] \in UsedPorts /\ slot[t] \in Slots /\ read[t] \subseteq Slots
    BY Places
  <2>3. \A p \in UsedPorts, s \in Slots : list[p][s].table \in Commands => list'[p][s].table \in Commands
    BY <1>2, <1>7
  <2>4. list'[portOf[u]][slot[u]].table \in Commands
    BY <1>2, <1>6
  <2> QED
    BY <1>1, <1>9, <2>1, <2>2, <2>3, <2>4 DEF Filled
<1>14. Owns'
  <2> SUFFICES ASSUME NEW t \in Tasks, Alone(t) PROVE Own(t)'
    BY SMTT(30), <1>1 DEF Owns, Alone
  <2>1. CASE t = u
    <3>1. Own(u) /\ at'[u] = "read"
      BY <1>9, <2>1 DEF Owns
    <3> QED
      BY <1>1, <1>6, <2>1, <3>1 DEF Own, Command
  <2>2. CASE t # u
    BY <1>1, <1>8, <1>9, <2>2, OthersOwn, Apart, Places
  <2> QED
    BY <2>1, <2>2
<1>15. WholeAndOnce'
  BY <1>1 DEF WholeAndOnce, Alone
<1> QED
  BY <1>10, <1>11, <1>12, <1>13, <1>14, <1>15

(* What is read names filled slots, and nothing when u is alone.            *)
LEMMA ReadCIInv == ASSUME PortInv, NEW u \in Tasks, ReadCI(u) PROVE PortInv'
<1> USE DEF PortInv
<1>1. /\ at[u] = "read" /\ at' = [at EXCEPT ![u] = "write"]
      /\ read' = [read EXCEPT ![u] = PxCI[portOf[u]]]
      /\ UNCHANGED <<portOf, PxCI, list, call, slot, executed, again, torn>>
  BY DEF ReadCI, Goto
<1>2. \A t \in Tasks : /\ at'[t] = IF t = u THEN "write" ELSE at[t]
                       /\ read'[t] = IF t = u THEN PxCI[portOf[u]] ELSE read[t]
  BY <1>1 DEF PortTypeOK
<1>3. portOf[u] \in UsedPorts /\ PxCI[portOf[u]] \subseteq Slots
  BY Places
<1>4. PortTypeOK'
  BY <1>1, <1>3 DEF PortTypeOK
<1>5. Owned' /\ Past'
  BY <1>1 DEF Owned, Past
<1>6. Filled'
  BY <1>1, <1>2, <1>3 DEF Filled
<1>7. Owns'
  <2> SUFFICES ASSUME NEW t \in Tasks, Alone(t) PROVE Own(t)'
    BY SMTT(30), <1>1 DEF Owns, Alone
  <2>1. CASE t = u
    <3>1. Own(u) /\ at'[u] = "write"
      BY <1>2, <2>1 DEF Owns
    <3>2. read'[u] = {}
      BY <1>1, <1>2, <3>1 DEF Own
    <3> QED
      BY <1>1, <2>1, <3>1, <3>2 DEF Own, Command
  <2>2. CASE t # u
    BY <1>1, <1>2, <2>2, OthersOwn
  <2> QED
    BY <2>1, <2>2
<1>8. WholeAndOnce'
  BY <1>1 DEF WholeAndOnce, Alone
<1> QED
  BY <1>4, <1>5, <1>6, <1>7, <1>8

(* The register names filled slots, and the one of u if u is alone.         *)
LEMMA WriteCIInv == ASSUME PortInv, NEW u \in Tasks, WriteCI(u) PROVE PortInv'
<1> USE DEF PortInv
<1>1. /\ at[u] = "write" /\ at' = [at EXCEPT ![u] = "wait"]
      /\ PxCI' = [PxCI EXCEPT ![portOf[u]] = @ \union read[u] \union {slot[u]}]
      /\ UNCHANGED <<list, call, portOf, slot, read, executed, again, torn>>
  BY DEF WriteCI, Goto, local
<1>2. portOf[u] \in UsedPorts /\ slot[u] \in Slots /\ read[u] \subseteq Slots /\ PxCI[portOf[u]] \subseteq Slots
  BY Places
<1>3. \A p \in UsedPorts :
        PxCI'[p] = IF p = portOf[u] THEN PxCI[p] \union read[u] \union {slot[u]} ELSE PxCI[p]
  BY <1>1, <1>2 DEF PortTypeOK
<1>4. \A t \in Tasks : at'[t] = IF t = u THEN "wait" ELSE at[t]
  BY <1>1 DEF PortTypeOK
<1>5. PortTypeOK'
  <2>1. PxCI' \in [UsedPorts -> SUBSET Slots]
    BY <1>1, <1>2 DEF PortTypeOK
  <2> QED
    BY <1>1, <2>1 DEF PortTypeOK
<1>6. Owned' /\ Past'
  BY <1>1 DEF Owned, Past
<1>7. Filled'
  <2>1. \A p \in UsedPorts : \A s \in PxCI'[p] : list[p][s].table \in Commands
    BY <1>1, <1>3 DEF Filled
  <2> QED
    BY <1>1, <1>4, <2>1 DEF Filled
<1>8. Owns'
  <2> SUFFICES ASSUME NEW t \in Tasks, Alone(t) PROVE Own(t)'
    BY SMTT(30), <1>1 DEF Owns, Alone
  <2>1. CASE t = u
    <3>1. Own(u) /\ at'[u] = "wait"
      BY <1>4, <2>1 DEF Owns
    <3>2. PxCI'[portOf[u]] = {slot[u]}
      BY <1>1, <1>2, <1>3, <3>1 DEF Own
    <3> QED
      BY <1>1, <2>1, <3>1, <3>2 DEF Own, Command
  <2>2. CASE t # u
    <3>1. PxCI'[portOf[t]] = PxCI[portOf[t]]
      BY <1>3, <2>2, Apart, Places
    <3> QED
      BY <1>1, <1>4, <2>2, <3>1, OthersOwn
  <2> QED
    BY <2>1, <2>2
<1>9. WholeAndOnce'
  BY <1>1 DEF WholeAndOnce, Alone
<1> QED
  BY <1>5, <1>6, <1>7, <1>8, <1>9

(* The wait ends when the bit is clear, which for a task alone means that   *)
(* its command was executed.                                                *)
LEMMA WaitInv == ASSUME PortInv, NEW u \in Tasks, Wait(u) PROVE PortInv'
<1> USE DEF PortInv
<1>1. /\ at[u] = "wait" /\ at' = [at EXCEPT ![u] = "done"] /\ slot[u] \notin PxCI[portOf[u]]
      /\ UNCHANGED <<PxCI, list, call, portOf, slot, read, executed, again, torn>>
  BY DEF Wait, Goto, local, Finished
<1>2. \A t \in Tasks : at'[t] = IF t = u THEN "done" ELSE at[t]
  BY <1>1 DEF PortTypeOK
<1>3. PortTypeOK'
  BY <1>1 DEF PortTypeOK
<1>4. Owned' /\ Past'
  BY <1>1 DEF Owned, Past
<1>5. Filled'
  BY <1>1, <1>2 DEF Filled
<1>6. Owns'
  <2> SUFFICES ASSUME NEW t \in Tasks, Alone(t) PROVE Own(t)'
    BY SMTT(30), <1>1 DEF Owns, Alone
  <2>1. CASE t = u
    <3>1. Own(u) /\ at'[u] = "done"
      BY <1>2, <2>1 DEF Owns
    <3>2. PxCI[portOf[u]] = {} /\ Command(u) \in executed
      BY <1>1, <3>1 DEF Own
    <3> QED
      BY <1>1, <2>1, <3>1, <3>2 DEF Own, Command
  <2>2. CASE t # u
    BY <1>1, <1>2, <2>2, OthersOwn
  <2> QED
    BY <2>1, <2>2
<1>7. WholeAndOnce'
  BY <1>1 DEF WholeAndOnce, Alone
<1> QED
  BY <1>3, <1>4, <1>5, <1>6, <1>7

(* The adapter executes a command of a task that uses the port; if that     *)
(* task is alone there, it waits for exactly this command.                  *)
LEMMA CompleteInv ==
  ASSUME PortInv, NEW p \in UsedPorts, NEW s \in Slots, Complete(p, s)
  PROVE  PortInv'
<1> USE DEF PortInv
<1> DEFINE command == list[p][s].table
<1>1. /\ s \in PxCI[p] /\ executed' = executed \union {command}
      /\ again' = (again \/ command \in executed)
      /\ torn' = (torn \/ list[p][s].info # command)
      /\ PxCI' = [PxCI EXCEPT ![p] = @ \ {s}]
      /\ UNCHANGED <<list, at, call, portOf, slot, read>>
  BY DEF Complete, local
<1>2. PICK o \in Tasks, n \in 1 .. Calls : command = <<o, n>>
  BY <1>1, CommandsArePairs DEF Filled
<1>3. portOf[o] = p /\ n <= call[o]
  BY <1>2 DEF Owned
<1>4. command \in Commands
  BY <1>1 DEF Filled
<1>5. \A q \in UsedPorts : PxCI'[q] = IF q = p THEN PxCI[q] \ {s} ELSE PxCI[q]
  BY <1>1 DEF PortTypeOK
<1>6. ASSUME NEW t \in Tasks, Alone(t), portOf[t] = p
      PROVE  /\ at[t] = "wait" /\ s = slot[t] /\ command = Command(t) /\ list[p][s].info = command
             /\ Command(t) \notin executed /\ PxCI'[p] = {}
  <2>1. Own(t)
    BY <1>6 DEF Owns
  <2>2. at[t] = "wait" /\ s = slot[t]
    BY <1>1, <1>6, <2>1 DEF Own
  <2>3. PxCI[p] \subseteq {s}
    BY <1>6, <2>1, <2>2 DEF Own
  <2> QED
    BY <1>1, <1>5, <1>6, <2>1, <2>2, <2>3 DEF Own
<1>7. PortTypeOK'
  <2>1. PxCI' \in [UsedPorts -> SUBSET Slots]
    BY <1>1 DEF PortTypeOK
  <2>2. executed' \subseteq Commands
    BY <1>1, <1>4 DEF PortTypeOK
  <2>3. again' \in BOOLEAN /\ torn' \in BOOLEAN
    BY <1>1, Zenon DEF PortTypeOK
  <2> QED
    BY <1>1, <2>1, <2>2, <2>3 DEF PortTypeOK
<1>8. Owned'
  BY <1>1 DEF Owned
<1>9. Filled'
  <2>1. \A q \in UsedPorts : PxCI'[q] \subseteq PxCI[q]
    BY <1>5
  <2> QED
    BY <1>1, <2>1 DEF Filled
<1>10. Past'
  <2> SUFFICES ASSUME NEW t \in Tasks, NEW k \in 1 .. Calls, <<t, k>> \in executed'
               PROVE  k <= call[t]
    BY <1>1 DEF Past
  <2>1. CASE <<t, k>> \in executed
    BY <2>1 DEF Past
  <2>2. CASE <<t, k>> = <<o, n>>
    BY <1>3, <2>2
  <2> QED
    BY <1>1, <1>2, <2>1, <2>2
<1>11. Owns'
  <2> SUFFICES ASSUME NEW t \in Tasks, Alone(t) PROVE Own(t)'
    BY <1>1 DEF Owns, Alone
  <2>1. Own(t)
    BY DEF Owns
  <2>2. CASE portOf[t] = p
    <3>1. at'[t] = "wait" /\ PxCI'[portOf'[t]] = {} /\ Command(t)' = Command(t)
          /\ Command(t) \in executed'
      BY <1>1, <1>6, <2>2 DEF Command
    <3> QED
      BY <1>1, <2>1, <3>1 DEF Own
  <2>3. CASE portOf[t] # p
    <3>1. o # t
      BY <1>3, <2>3
    <3>2. Command(t)' = Command(t) /\ (Command(t) \in executed' <=> Command(t) \in executed)
      BY <1>1, <1>2, <3>1 DEF Command
    <3>3. PxCI'[portOf[t]] = PxCI[portOf[t]]
      BY <1>5, <2>3, Places
    <3> QED
      BY <1>1, <2>1, <3>2, <3>3 DEF Own
  <2> QED
    BY <2>2, <2>3
<1>12. WholeAndOnce'
  <2> SUFFICES ASSUME \A t \in Tasks : Alone(t) PROVE ~again' /\ ~torn'
    BY <1>1 DEF WholeAndOnce, Alone
  <2>1. ~again /\ ~torn
    BY DEF WholeAndOnce
  <2>2. list[p][s].info = command /\ command \notin executed
    BY <1>3, <1>6
  <2> QED
    BY <1>1, <2>1, <2>2
<1> QED
  BY <1>7, <1>8, <1>9, <1>10, <1>11, <1>12

(* Every step keeps the invariant.                                          *)
LEMMA PortNextInv == PortInv /\ [PortNext]_portVars => PortInv'
<1> SUFFICES ASSUME PortInv, [PortNext]_portVars PROVE PortInv'
  OBVIOUS
<1>1. ASSUME NEW p \in UsedPorts, NEW s \in Slots, Complete(p, s) PROVE PortInv'
  BY <1>1, CompleteInv
<1>2. ASSUME NEW t \in Tasks, BeginCommand(t) PROVE PortInv'
  BY <1>2, BeginCommandInv
<1>3. ASSUME NEW t \in Tasks, ExecuteCommand(t) PROVE PortInv'
  BY <1>3, ScanInv, SetInfoInv, SetTableInv, ReadCIInv, WriteCIInv, WaitInv DEF ExecuteCommand
<1>4. CASE UNCHANGED portVars
  <2>1. UNCHANGED <<PxCI, list, at, call, portOf, slot, read, executed, again, torn>>
    BY <1>4 DEF portVars, local
  <2>2. PortTypeOK'
    BY <2>1 DEF PortInv, PortTypeOK
  <2>3. Owned' /\ Past' /\ Filled'
    BY <2>1 DEF PortInv, Owned, Past, Filled
  <2>4. Owns'
    BY <2>1 DEF PortInv, Owns, Own, Alone, Command
  <2>5. WholeAndOnce'
    BY <2>1 DEF PortInv, WholeAndOnce, Alone
  <2> QED
    BY <2>2, <2>3, <2>4, <2>5 DEF PortInv
<1> QED
  BY <1>1, <1>2, <1>3, <1>4 DEF PortNext, PortAdapter

(* The invariant of the ports holds for all interleavings of the tasks and  *)
(* the adapter.                                                             *)
THEOREM PortInvariant == PortSpec => []PortInv
<1>1. PortInit => PortInv
  BY PortInitInv
<1>2. PortInv /\ [PortNext]_portVars => PortInv'
  BY PortNextInv
<1> QED
  BY <1>1, <1>2, PTL DEF PortSpec

(* The types of the variables: slots stay in the list, also when all are    *)
(* busy, and the adapter executes commands only.                            *)
THEOREM PortTypeCorrect == PortSpec => []PortTypeOK
<1>1. PortInv => PortTypeOK
  BY DEF PortInv
<1> QED
  BY <1>1, PortInvariant, PTL

(* A task alone on its port returns after its command was executed, and     *)
(* with one task per port commands are executed whole and once.             *)
THEOREM Executed == PortSpec => []CommandsExecuted
<1>1. PortInv => CommandsExecuted
  BY DEF PortInv, Owns, Own, WholeAndOnce, CommandsExecuted
<1> QED
  BY <1>1, PortInvariant, PTL
=============================================================================
