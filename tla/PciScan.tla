------------------------------- MODULE PciScan --------------------------------
(***************************************************************************)
(* The walk over the PCI bus in pci.c.  find_PCI_device_no_progif(),       *)
(* find_PCI_device(), enum_PCI_count() and enum_PCI() take the same way    *)
(* through buses, devices and functions; the module walks it once for all  *)
(* of them: `token` is what the first two write, `listed` the tokens       *)
(* enum_PCI() writes, as many as enum_PCI_count() returns.                 *)
(*                                                                         *)
(* A device that has one function only may answer for all its functions,   *)
(* so the configuration space holds any header at the other places.        *)
(***************************************************************************)
EXTENDS Naturals, Sequences

CONSTANTS
  BusCount, DeviceCount, FunctionCount,  \* 256, 32 and 8
  Classes,        \* pairs of classCode and subClass
  ProgIFs,        \* programming interfaces
  AnyProgIF,      \* find_PCI_device_no_progif() asks for this one
  Cards,          \* pairs of vendor and device ID
  ConfigSpaces    \* the machines: a header for each place

Places == (0 .. BusCount - 1) \X (0 .. DeviceCount - 1) \X (0 .. FunctionCount - 1)

(* present: the vendor ID is not 0xFFFF.  multi: bit 7 of the header type. *)
Headers == [present : BOOLEAN, multi : BOOLEAN, class : Classes, progIF : ProgIFs, card : Cards]

ASSUME PciAssumption ==
  /\ BusCount \in Nat \ {0} /\ DeviceCount \in Nat \ {0} /\ FunctionCount \in Nat \ {0}
  /\ ConfigSpaces \subseteq [Places -> Headers]

VARIABLES
  config,     \* the configuration space
  wanted,     \* device_class: the class and programming interface to find
  bus, device, function,   \* i, j and k of the loops
  token,      \* *token
  listed      \* what enum_PCI() has written to its buffer

scanned == <<config, wanted>>
scanVars == <<config, wanted, bus, device, function, token, listed>>

ScanInit ==
  /\ config \in ConfigSpaces /\ wanted \in Classes \X (ProgIFs \union {AnyProgIF})
  /\ bus = 0 /\ device = 0 /\ function = 0 /\ token = <<0, 0, 0>> /\ listed = <<>>

Here == <<bus, device, function>>

Matches(header) ==
  header.class = wanted[1] /\ (wanted[2] = AnyProgIF \/ header.progIF = wanted[2])

FoundMutant == IF Matches(config[Here]) /\ token = <<0, 0, 0>> THEN Here ELSE token

(* A later match replaces an earlier one.                                  *)
Found == IF Matches(config[Here]) THEN Here ELSE token

MoreFunctionsMutant == config[bus, device, 0].present /\ function + 1 < FunctionCount

(* Functions from 1 on are looked at if function 0 says there are more.    *)
MoreFunctions ==
  /\ config[bus, device, 0].present /\ config[bus, device, 0].multi
  /\ function + 1 < FunctionCount

Advance ==
  IF MoreFunctions
    THEN function' = function + 1 /\ UNCHANGED <<bus, device>>
    ELSE /\ function' = 0
         /\ IF device + 1 < DeviceCount
              THEN device' = device + 1 /\ UNCHANGED bus
              ELSE device' = 0 /\ bus' = bus + 1

Scanning == bus < BusCount

(* A place whose vendor ID is not 0xFFFF                                    *)
Visit ==
  /\ Scanning /\ config[Here].present
  /\ token' = Found /\ listed' = Append(listed, Here)
  /\ Advance /\ UNCHANGED scanned

Skip ==
  /\ Scanning /\ ~config[Here].present
  /\ Advance /\ UNCHANGED <<scanned, token, listed>>

ScanNext == Visit \/ Skip

ScanSpec == ScanInit /\ [][ScanNext]_scanVars

-----------------------------------------------------------------------------
(* Properties *)

(* The types of the variables (pci.c:48-136).                               *)
ScanTypeOK ==
  /\ config \in ConfigSpaces /\ wanted \in Classes \X (ProgIFs \union {AnyProgIF})
  /\ bus \in 0 .. BusCount /\ device \in 0 .. DeviceCount - 1
  /\ function \in 0 .. FunctionCount - 1
  /\ token \in Places /\ listed \in Seq(Places)

(* A function that is there, and not function 0 answering once more         *)
Exists(p) ==
  /\ config[p[1], p[2], 0].present
  /\ p[3] # 0 => config[p[1], p[2], 0].multi /\ config[p].present

(* The order of the loops                                                   *)
Before(p, q) ==
  \/ p[1] < q[1]
  \/ p[1] = q[1] /\ p[2] < q[2]
  \/ p[1] = q[1] /\ p[2] = q[2] /\ p[3] < q[3]

(* The token names a function of the class and interface asked for, the     *)
(* last one in the order of the bus; it is as it was when there is none     *)
(* (pci.c:50-87, 95-132).                                                   *)
FindsLast ==
  ~Scanning =>
    LET matching == {p \in Places : Exists(p) /\ Matches(config[p])} IN
      /\ token # <<0, 0, 0>> => token \in matching
      /\ \A p \in matching : ~Before(token, p)

(* enum_PCI() lists every function once, so that the buffer for the number  *)
(* enum_PCI_count() gives is filled exactly, with no function of a device   *)
(* counted again because the device answers for it (pci.c:138-216).         *)
EnumListsAll ==
  ~Scanning =>
    /\ {p \in Places : Exists(p)} = {listed[k] : k \in DOMAIN listed}
    /\ \A k, l \in DOMAIN listed : k < l => Before(listed[k], listed[l])

(* Both kinds of walk visit what is there, once (pci.c:48-216)              *)
WalkComplete == FindsLast /\ EnumListsAll
=============================================================================
