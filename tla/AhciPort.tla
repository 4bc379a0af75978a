------------------------------- MODULE AhciPort -------------------------------
(***************************************************************************)
(* The command slots of an AHCI port: AHCI_execute_command() called by the *)
(* tasks of the kernel, with interrupts on, and the host bus adapter,      *)
(* which executes what its PxCI register names.                            *)
(*                                                                         *)
(* A command is <<task, number of the call>>.  PxCI is a set of slots; to  *)
(* write 1 to a bit sets it, to write 0 does nothing, and the adapter      *)
(* clears it when the command is done.                                     *)
(***************************************************************************)
EXTENDS Naturals, FiniteSets

CONSTANTS
  Tasks,        \* the tasks that use the disks
  UsedPorts,    \* the ports with a device
  PortMaps,     \* which port each task may use
  SlotCount,    \* 32 command slots
  Calls         \* how many commands each task executes

ASSUME AhciAssumption ==
  /\ PortMaps \subseteq [Tasks -> UsedPorts] /\ SlotCount \in Nat \ {0} /\ Calls \in Nat

VARIABLES
  portOf,     \* the port each task uses, the argument of its calls
  PxCI,       \* the register of each port
  list,       \* the command list: of each slot whose DESC_INFO and whose CTBA it holds
  at,         \* where each task is in AHCI_execute_command()
  call,       \* the call each task is at, 0 before the first
  slot,       \* i while it scans, then command_list_index
  read,       \* what the task has read for PxCI |= 1 << command_list_index
  executed,   \* the commands the adapter has executed
  again,      \* whether it has executed one that was executed before
  torn        \* whether it has executed a header of two commands

local == <<portOf, slot, read>>
portVars == <<portOf, PxCI, list, at, call, slot, read, executed, again, torn>>

Slots == 0 .. SlotCount - 1
NoCommand == <<>>
Command(t) == <<t, call[t]>>
Goto(t, label) == at' = [at EXCEPT ![t] = label]

PortInit ==
  /\ portOf \in PortMaps /\ PxCI = [p \in UsedPorts |-> {}]
  /\ list = [p \in UsedPorts |-> [s \in Slots |-> [info |-> NoCommand, table |-> NoCommand]]]
  /\ at = [t \in Tasks |-> "done"] /\ call = [t \in Tasks |-> 0]
  /\ slot = [t \in Tasks |-> 0] /\ read = [t \in Tasks |-> {}]
  /\ executed = {} /\ again = FALSE /\ torn = FALSE

(* AHCI_read() and AHCI_write() call with a command table of their own.   *)
BeginCommand(t) ==
  /\ at[t] = "done" /\ call[t] < Calls /\ Goto(t, "scan")
  /\ call' = [call EXCEPT ![t] = @ + 1] /\ slot' = [slot EXCEPT ![t] = 0]
  /\ UNCHANGED <<portOf, PxCI, list, read, executed, again, torn>>

(* i < 32 for the next i *)
MoreSlots(t) == slot[t] + 1 < SlotCount

(* One pass of the search: the register is read anew in each; if every    *)
(* slot is busy command_list_index stays 0.                               *)
Scan(t) ==
  /\ at[t] = "scan"
  /\ IF slot[t] \notin PxCI[portOf[t]]
       THEN Goto(t, "info") /\ UNCHANGED slot
       ELSE IF MoreSlots(t)
         THEN slot' = [slot EXCEPT ![t] = @ + 1] /\ UNCHANGED at
         ELSE slot' = [slot EXCEPT ![t] = 0] /\ Goto(t, "info")
  /\ UNCHANGED <<portOf, PxCI, list, call, read, executed, again, torn>>

SetInfo(t) ==
  /\ at[t] = "info" /\ Goto(t, "table")
  /\ list' = [list EXCEPT ![portOf[t]][slot[t]].info = Command(t)]
  /\ UNCHANGED <<PxCI, call, local, executed, again, torn>>

SetTable(t) ==
  /\ at[t] = "table" /\ Goto(t, "read")
  /\ list' = [list EXCEPT ![portOf[t]][slot[t]].table = Command(t)]
  /\ UNCHANGED <<PxCI, call, local, executed, again, torn>>

(* port_spec_regs->PxCI |= 1 << command_list_index is a read and a write. *)
ReadCI(t) ==
  /\ at[t] = "read" /\ Goto(t, "write")
  /\ read' = [read EXCEPT ![t] = PxCI[portOf[t]]]
  /\ UNCHANGED <<portOf, PxCI, list, call, slot, executed, again, torn>>

WriteCI(t) ==
  /\ at[t] = "write" /\ Goto(t, "wait")
  /\ PxCI' = [PxCI EXCEPT ![portOf[t]] = @ \union read[t] \union {slot[t]}]
  /\ UNCHANGED <<list, call, local, executed, again, torn>>

FinishedAtOnceMutant(t) == TRUE
FinishedNegatedMutant(t) == slot[t] \in PxCI[portOf[t]]

(* while (port_spec_regs->PxCI & (1 << command_list_index)) sleep(1); *)
Finished(t) == slot[t] \notin PxCI[portOf[t]]

Wait(t) ==
  /\ at[t] = "wait" /\ Finished(t) /\ Goto(t, "done")
  /\ UNCHANGED <<PxCI, list, call, local, executed, again, torn>>

ExecuteCommand(t) ==
  Scan(t) \/ SetInfo(t) \/ SetTable(t) \/ ReadCI(t) \/ WriteCI(t) \/ Wait(t)

(* The adapter executes one of the commands its register names and clears *)
(* its bit.                                                               *)
Complete(p, s) ==
  /\ s \in PxCI[p]
  /\ LET header == list[p][s] IN
       /\ executed' = executed \union {header.table}
       /\ again' = (again \/ header.table \in executed)
       /\ torn' = (torn \/ header.info # header.table)
  /\ PxCI' = [PxCI EXCEPT ![p] = @ \ {s}]
  /\ UNCHANGED <<list, at, call, local>>

PortAdapter == \E p \in UsedPorts, s \in Slots : Complete(p, s)

PortNext == PortAdapter \/ \E t \in Tasks : BeginCommand(t) \/ ExecuteCommand(t)

PortSpec == PortInit /\ [][PortNext]_portVars

(* The scheduler runs the tasks again and again, the adapter does what it  *)
(* is told to.                                                             *)
PortFairSpec ==
  /\ PortSpec
  /\ \A t \in Tasks : WF_portVars(ExecuteCommand(t))
  /\ \A p \in UsedPorts, s \in Slots : WF_portVars(Complete(p, s))

-----------------------------------------------------------------------------
(* Properties *)

Commands == Tasks \X (1 .. Calls)

(* The types of the variables (ahci.c:413-443). *)
PortTypeOK ==
  /\ portOf \in PortMaps /\ PxCI \in [UsedPorts -> SUBSET Slots] /\ read \in [Tasks -> SUBSET Slots]
  /\ list \in [UsedPorts -> [Slots -> [info : Commands \union {NoCommand}, table : Commands \union {NoCommand}]]]
  /\ at \in [Tasks -> {"scan", "info", "table", "read", "write", "wait", "done"}]
  /\ call \in [Tasks -> 0 .. Calls] /\ slot \in [Tasks -> Slots]
  /\ executed \subseteq Commands /\ again \in BOOLEAN /\ torn \in BOOLEAN

Alone(t) == \A u \in Tasks \ {t} : portOf[u] # portOf[t]

(* When no other task uses the port, AHCI_execute_command() returns only    *)
(* when the adapter has executed the command table it was given; two tasks  *)
(* on a port can take the same slot.  And with one task per port no command *)
(* is executed twice, and none with the header of another (ahci.c:408-410,  *)
(* 421-439).                                                                *)
CommandsExecuted ==
  /\ \A t \in Tasks : Alone(t) /\ at[t] = "done" /\ call[t] > 0 => Command(t) \in executed
  /\ (\A t \in Tasks : Alone(t)) => ~again /\ ~torn

(* Every call returns, also when tasks share a port and all its slots are   *)
(* busy (ahci.c:420-425, 439).                                              *)
ExecuteReturns == \A t \in Tasks : at[t] = "scan" ~> at[t] = "done"
=============================================================================
