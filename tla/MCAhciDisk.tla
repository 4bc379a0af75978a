------------------------------ MODULE MCAhciDisk ------------------------------
(***************************************************************************)
(* Three ports with every combination of: nothing, a port that is not      *)
(* implemented, a drive without 48-bit addresses, drives of 512-byte and   *)
(* of 4096-byte sectors.  Transfers about the size of a chunk, and about   *)
(* 256 sectors, where the count needs its second byte.                     *)
(***************************************************************************)
EXTENDS AhciDisk

Drive(implemented, present, lba48, large, words) ==
  [implemented |-> implemented, present |-> present,
   answer |-> [lba48 |-> lba48, large |-> large, words |-> words]]

Small == Drive(TRUE, TRUE, TRUE, FALSE, 0)
Large == Drive(TRUE, TRUE, TRUE, TRUE, 2048)
DriveKinds ==
  {Drive(TRUE, FALSE, FALSE, FALSE, 0), Drive(FALSE, TRUE, TRUE, FALSE, 0),
   Drive(TRUE, TRUE, FALSE, FALSE, 0), Small, Large}
AllDriveMaps == [0 .. PortCount - 1 -> DriveKinds]

UnknownSizes == {0, 512}
OldAnswers == {Small.answer, Large.answer, [lba48 |-> FALSE, large |-> FALSE, words |-> 0]}

OneBuffer == {1048576}
SomeSectors == {0, 1, 3, 15, 16, 17, 255, 256, 257, 300}
=============================================================================
