------------------------------- MODULE AhciDisk -------------------------------
(***************************************************************************)
(* The AHCI driver from the reset of the adapter to a transfer:            *)
(* AHCI_init() sets the ports up one after the other and asks each drive   *)
(* who it is, register_device() keeps the answer, and AHCI_read() and      *)
(* AHCI_write() look it up to know how long the buffer is that they        *)
(* describe, which is module AhciPrdt.  The adapter and the drives answer  *)
(* in their own time.                                                      *)
(*                                                                         *)
(* Main alone calls the driver, so that it finds slot 0 free; tasks that   *)
(* share a port are module AhciPort.                                       *)
(***************************************************************************)
EXTENDS AhciPrdt, FiniteSets

CONSTANTS
  PortCount,   \* 32 ports
  DriveMaps,   \* what may be at the ports
  WildSizes,   \* what the physical addresses 4 to 7 may hold
  OldPages     \* what a new page may hold, read as an answer to IDENTIFY

(* An answer to IDENTIFY DEVICE: bit 10 of word 83, the bits 12, 14 and 15  *)
(* of word 106, the words 117 and 118                                       *)
Answers == [lba48 : BOOLEAN, large : BOOLEAN, words : Nat]

Ports == 0 .. PortCount - 1
DrivesAtPorts == [Ports -> [implemented : BOOLEAN, present : BOOLEAN, answer : Answers]]

ASSUME DiskAssumption ==
  /\ PortCount \in Nat /\ DriveMaps \subseteq DrivesAtPorts
  /\ WildSizes \subseteq Nat /\ OldPages \subseteq Answers

VARIABLES
  drives,               \* what is at each port
  CAP2,                 \* whether the BIOS has to hand the adapter over
  HR,                   \* GHC.HR, the reset bit
  port_regs,            \* of each port PxCLB (whether it is set), the bits
                        \* of PxCMD, and bit 0 of PxCI
  task,                 \* where Main is in AHCI_init(), "use" behind it
  i,                    \* the port AHCI_init() is at
  identify_buf,         \* what the page of the answer holds
  g_ahci_device_list,   \* port and sector size of the registered devices
  port                  \* the argument port of AHCI_read() or AHCI_write()

diskVars == <<drives, CAP2, HR, port_regs, task, i, identify_buf, g_ahci_device_list, port, prdtVars>>

DiskInit ==
  /\ Init /\ drives \in DriveMaps /\ CAP2 \in BOOLEAN /\ HR = FALSE
  /\ port_regs = [p \in Ports |-> [CLB |-> FALSE, FRE |-> FALSE, FR |-> FALSE, ST |-> FALSE, CI |-> FALSE]]
  /\ task = "reset" /\ i = 0 /\ identify_buf \in OldPages
  /\ g_ahci_device_list = <<>> /\ port = 0

-----------------------------------------------------------------------------
(* AHCI_init()                                                             *)

(* With a BIOS to ask, only a message is printed.                           *)
Reset ==
  /\ task = "reset"
  /\ IF CAP2 THEN task' = "use" /\ UNCHANGED HR
             ELSE task' = "resetting" /\ HR' = TRUE
  /\ UNCHANGED <<drives, CAP2, port_regs, i, identify_buf, g_ahci_device_list, port, prdtVars>>

AfterReset ==
  /\ task = "resetting" /\ ~HR /\ task' = "ports"
  /\ UNCHANGED <<drives, CAP2, HR, port_regs, i, identify_buf, g_ahci_device_list, port, prdtVars>>

Present(p) == drives[p].implemented /\ drives[p].present

SkipPort ==
  /\ task = "ports" /\ i < PortCount /\ ~Present(i) /\ i' = i + 1
  /\ UNCHANGED <<drives, CAP2, HR, port_regs, task, identify_buf, g_ahci_device_list, port, prdtVars>>

(* PxCLB, PxFB and PxCMD.FRE                                                *)
SetUpPort ==
  /\ task = "ports" /\ i < PortCount /\ Present(i) /\ task' = "fis"
  /\ port_regs' = [port_regs EXCEPT ![i].CLB = TRUE, ![i].FRE = TRUE]
  /\ UNCHANGED <<drives, CAP2, HR, i, identify_buf, g_ahci_device_list, port, prdtVars>>

(* When PxCMD.FR is there: PxCMD.ST, a page for the answer, and IDENTIFY    *)
(* DEVICE in a free slot                                                    *)
Identify ==
  /\ task = "fis" /\ port_regs[i].FR /\ task' = "identify"
  /\ port_regs' = [port_regs EXCEPT ![i].ST = TRUE, ![i].CI = TRUE]
  /\ identify_buf' \in OldPages
  /\ UNCHANGED <<drives, CAP2, HR, i, g_ahci_device_list, port, prdtVars>>

IdentifiedMutant == TRUE

(* AHCI_execute_command() returns.                                          *)
Identified == ~port_regs[i].CI

(* The sector size as AHCI_init() reads it from an answer                   *)
LbaSizeIn(answer) == IF answer.large THEN answer.words ELSE 512

(* register_device() puts the device in front.                              *)
Register ==
  /\ task = "identify" /\ Identified /\ task' = "ports" /\ i' = i + 1
  /\ g_ahci_device_list' =
       IF identify_buf.lba48
         THEN <<[port |-> i, lba_size |-> LbaSizeIn(identify_buf)]>> \o g_ahci_device_list
         ELSE g_ahci_device_list
  /\ UNCHANGED <<drives, CAP2, HR, port_regs, identify_buf, port, prdtVars>>

PortsDone ==
  /\ task = "ports" /\ i = PortCount /\ task' = "use"
  /\ UNCHANGED <<drives, CAP2, HR, port_regs, i, identify_buf, g_ahci_device_list, port, prdtVars>>

AHCI_init == Reset \/ AfterReset \/ SkipPort \/ SetUpPort \/ Identify \/ Register \/ PortsDone

-----------------------------------------------------------------------------
(* AHCI_read() and AHCI_write()                                            *)

Found(p) == {k \in DOMAIN g_ahci_device_list : g_ahci_device_list[k].port = p}

LookupMutant(p) ==
  IF g_ahci_device_list = <<>> THEN WildSizes ELSE {g_ahci_device_list[1].lba_size}

(* device->lba_size: behind the end of the list device is NULL, and what    *)
(* lies at the field's offset in physical memory is read.                   *)
Lookup(p) ==
  IF Found(p) = {} THEN WildSizes ELSE {g_ahci_device_list[k].lba_size : k \in Found(p)}

Call ==
  /\ task = "use" /\ port' \in Ports /\ \E size \in Lookup(port') : Begin(size)
  /\ UNCHANGED <<drives, CAP2, HR, port_regs, task, i, identify_buf, g_ahci_device_list>>

DescribeBuffer ==
  /\ Describe
  /\ UNCHANGED <<drives, CAP2, HR, port_regs, task, i, identify_buf, g_ahci_device_list, port>>

Execute ==
  /\ Issue /\ port_regs' = [port_regs EXCEPT ![port].CI = TRUE]
  /\ UNCHANGED <<drives, CAP2, HR, task, i, identify_buf, g_ahci_device_list, port>>

Transfer == Call \/ DescribeBuffer \/ Execute

-----------------------------------------------------------------------------
(* The adapter and the drives                                              *)

ResetDone ==
  /\ HR /\ HR' = FALSE
  /\ UNCHANGED <<drives, CAP2, port_regs, task, i, identify_buf, g_ahci_device_list, port, prdtVars>>

FisRunning(p) ==
  /\ port_regs[p].FRE /\ ~port_regs[p].FR
  /\ port_regs' = [port_regs EXCEPT ![p].FR = TRUE]
  /\ UNCHANGED <<drives, CAP2, HR, task, i, identify_buf, g_ahci_device_list, port, prdtVars>>

(* A command is done by a port that was started.                            *)
CommandDone(p) ==
  /\ port_regs[p].CI /\ port_regs[p].ST
  /\ port_regs' = [port_regs EXCEPT ![p].CI = FALSE]
  /\ identify_buf' = IF task = "identify" THEN drives[p].answer ELSE identify_buf
  /\ UNCHANGED <<drives, CAP2, HR, task, i, g_ahci_device_list, port, prdtVars>>

Adapter == ResetDone \/ \E p \in Ports : FisRunning(p) \/ CommandDone(p)

DiskNext == AHCI_init \/ Transfer \/ Adapter

DiskSpec == DiskInit /\ [][DiskNext]_diskVars

-----------------------------------------------------------------------------
(* Properties *)

(* What AHCI_init() should register: 48-bit addresses are needed            *)
Usable(p) == Present(p) /\ drives[p].answer.lba48

(* The types of the variables (ahci.c:159-181, 198-325).                    *)
DiskTypeOK ==
  /\ drives \in DrivesAtPorts /\ CAP2 \in BOOLEAN /\ HR \in BOOLEAN
  /\ port_regs \in [Ports -> [CLB : BOOLEAN, FRE : BOOLEAN, FR : BOOLEAN, ST : BOOLEAN, CI : BOOLEAN]]
  /\ task \in {"reset", "resetting", "ports", "fis", "identify", "use"}
  /\ i \in 0 .. PortCount /\ identify_buf \in Answers
  /\ g_ahci_device_list \in Seq([port : Ports, lba_size : Nat])

(* Every drive the driver can use is on the list once, with what that very  *)
(* drive has answered, not what was in the page before or what the drive    *)
(* of another port has answered (ahci.c:226-313, 360-382).                  *)
DevicesListed ==
  /\ \A k \in DOMAIN g_ahci_device_list : LET device == g_ahci_device_list[k] IN
       Usable(device.port) /\ device.lba_size = LbaSizeIn(drives[device.port].answer)
  /\ \A k, l \in DOMAIN g_ahci_device_list :
       k < l => g_ahci_device_list[k].port > g_ahci_device_list[l].port
  /\ task = "use" /\ ~CAP2 =>
       \A p \in Ports : Usable(p) => \E k \in DOMAIN g_ahci_device_list : g_ahci_device_list[k].port = p

(* The bytes in a logical sector of the drive: the words 117 and 118 of the *)
(* answer count words of two bytes.                                         *)
SectorBytes(p) == IF drives[p].answer.large THEN 2 * drives[p].answer.words ELSE 512

BufferMatches(p) ==
  pc = "issued" /\ port = p /\ sectors \in 1 .. Counts =>
    sectors * lbaSize = Transferred * SectorBytes(p)

(* The buffer described to the adapter is as long as what the drive of that *)
(* port transfers for the count it is given, among drives of other sector   *)
(* sizes, as long as this drive has 512-byte sectors                        *)
(* (ahci.c:454-460, 480-509).                                               *)
TransferMatchesDrive ==
  CAP2 \/ \A p \in Ports : Usable(p) /\ ~drives[p].answer.large => BufferMatches(p)

(* "Read 'sector_count' sectors" (ahci.c:519), whatever the drive           *)
WholeSectors == CAP2 \/ \A p \in Ports : Usable(p) => BufferMatches(p)
=============================================================================
