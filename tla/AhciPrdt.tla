------------------------------- MODULE AhciPrdt -------------------------------
(***************************************************************************)
(* How AHCI_read() and AHCI_write() describe a transfer to the adapter:    *)
(* the count of the command FIS, and the physical region descriptor table  *)
(* (PRDT) behind it in the one page of the command table.                  *)
(***************************************************************************)
EXTENDS Naturals, Sequences

CONSTANTS
  Chunk,     \* 0x2000, the bytes a PRDT entry describes at most
  Buffers,   \* the addresses of the caller's buffers
  Sectors,   \* the values of sector_count
  Counts     \* 65536, how many values the count's two bytes hold

ASSUME PrdtAssumption ==
  /\ Chunk \in Nat \ {0} /\ Counts \in Nat \ {0}
  /\ Buffers \subseteq Nat /\ Sectors \subseteq Nat

VARIABLES
  pc,           \* "call", "fill" or "issued"
  buf,          \* the argument buf
  sectors,      \* the argument sector_count
  lbaSize,      \* device->lba_size of the device that was looked up
  count,        \* SectorCount and SectorCountExp of the command FIS
  buf_u8,       \* the loop's position in the buffer
  prdt          \* the entries written: DBA and the byte count field of DBC

prdtVars == <<pc, buf, sectors, lbaSize, count, buf_u8, prdt>>

Entries == Seq([DBA : Nat, DBC : Nat])

Init ==
  /\ pc = "call" /\ buf \in Buffers /\ sectors \in Sectors
  /\ lbaSize = 0 /\ count = 0 /\ buf_u8 = 0 /\ prdt = <<>>

End == buf + sectors * lbaSize

(* SectorCount and SectorCountExp take the low bytes of sector_count. *)
CountField(n) == n % Counts

(* The device looked up has the sector size size.                           *)
Begin(size) ==
  /\ pc = "call" /\ pc' = "fill" /\ lbaSize' = size
  /\ count' = CountField(sectors) /\ buf_u8' = buf
  /\ UNCHANGED <<buf, sectors, prdt>>

LengthMutant == Chunk
Length == IF End - buf_u8 > Chunk THEN Chunk ELSE End - buf_u8

(* DBC holds the number of bytes less one. *)
ByteCount(length) == length - 1

More == buf_u8 < End

(* One turn of the loop *)
Describe ==
  /\ pc = "fill" /\ More
  /\ prdt' = Append(prdt, [DBA |-> buf_u8, DBC |-> ByteCount(Length)])
  /\ buf_u8' = buf_u8 + Length
  /\ UNCHANGED <<pc, buf, sectors, lbaSize, count>>

(* AHCI_execute_command(command_table, prdt_entry_count, port) *)
Issue ==
  /\ pc = "fill" /\ ~More /\ pc' = "issued"
  /\ UNCHANGED <<buf, sectors, lbaSize, count, buf_u8, prdt>>

Next == (\E size \in Nat : Begin(size)) \/ Describe \/ Issue

Spec == Init /\ [][Next]_prdtVars

-----------------------------------------------------------------------------
(* Properties *)

(* The first byte after the region of an entry, as the adapter reads it *)
Limit(entry) == entry.DBA + entry.DBC + 1

(* The types of the variables (ahci.c:484-509). *)
TypeOK ==
  /\ pc \in {"call", "fill", "issued"} /\ buf \in Buffers /\ sectors \in Sectors
  /\ lbaSize \in Nat /\ count \in 0 .. Counts - 1 /\ buf_u8 \in Nat /\ prdt \in Entries

(* Each entry begins where the one before it ends, the first one at the     *)
(* buffer, none is longer than a chunk, and the table of an issued command  *)
(* ends where the buffer ends: nothing is left out, sent twice or written   *)
(* behind the buffer (ahci.c:491-509, 562-580).                             *)
CoversBuffer ==
  /\ \A k \in DOMAIN prdt : prdt[k].DBC < Chunk
  /\ \A k \in DOMAIN prdt :
       prdt[k].DBA = IF k = 1 THEN buf ELSE Limit(prdt[k - 1])
  /\ pc = "issued" => IF prdt = <<>> THEN sectors * lbaSize = 0 ELSE Limit(prdt[Len(prdt)]) = End

(* What the adapter makes of the count field: 0 stands for all 65536. *)
Transferred == IF count = 0 THEN Counts ELSE count

(* The device transfers as many sectors as the table describes, unless they *)
(* are none or more than 65536 (ahci.c:480-481, 551-552).                   *)
CountMatches == pc = "issued" /\ sectors \in 1 .. Counts => Transferred = sectors
=============================================================================
