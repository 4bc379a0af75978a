-------------------------------- MODULE Boot ----------------------------------
(***************************************************************************)
(* The start of the kernel: kernel_main() up to the network interface it   *)
(* goes on with, while interrupts and other tasks come in.                 *)
(*                                                                         *)
(* What Main does is a program, a sequence of instructions put together    *)
(* from the functions it calls; each instruction is one step, and so is    *)
(* code between disable_interrupts() and enable_interrupts().  While IF is *)
(* set a PIT interrupt may come before each of them, and after             *)
(* scheduler_start() it may give the CPU to another task.  The task queue  *)
(* and the gap of sleep() are those of module Scheduler: here any task     *)
(* that can run may be selected.                                           *)
(*                                                                         *)
(* memory_init() and the walk over the PCI bus are those of HeapLayout and *)
(* PciScan.  `made` names the data that has been written, `handlers` *)
(* the entries of the interrupt descriptor table.                          *)
(***************************************************************************)
EXTENDS HeapLayout, PciScan, InterruptControl

CONSTANTS
  Main, Idle, TxPoll, RxPoll,   \* the tasks
  Ethernet,                     \* classCode 2, subClass 0
  Intel8254xx                   \* vendor 0x8086, device 0x100E

(* Four tasks, whose names in `made` are not those of a register or list.   *)
ASSUME BootAssumption ==
  /\ Main \notin {Idle, TxPoll, RxPoll} /\ Idle \notin {TxPoll, RxPoll} /\ TxPoll # RxPoll
  /\ {TxPoll, RxPoll} \intersect {"RCTL", "TCTL", "listed"} = {}

VARIABLES
  step,       \* the instruction Main is at
  made,       \* the data structures and registers written so far
  handlers,   \* the vectors with a registered handler
  unmasked,   \* the lines the PICs let through
  intr,       \* IF and g_interrupt_disable_counter
  savedIF,    \* IF in the EFLAGS saved on the stack of each task
  current,    \* g_current_task_state
  ready,      \* the tasks that are on the task queue
  ticksLeft,  \* ticks_to_wakeup of Main while it sleeps, else Awake
  time,       \* g_scheduler_time
  running,    \* g_scheduler_running
  uart,       \* whether COM1 passes the loopback test
  busy,       \* whether the card is at a reset or at an EEPROM read
  net_intf    \* whether get_network_interface(0) gave an interface

scheduling == <<current, ready, ticksLeft, time, running, savedIF>>
bootVars == <<step, made, handlers, unmasked, intr, scheduling, uart, busy, net_intf, vars, scanVars>>

Tasks == {Main, TxPoll, RxPoll}
Awake == 10
TIME_SLICE_IN_TICKS == 2

(* Vectors: the lines of the PICs, and the software interrupt              *)
PIT == 0   Keyboard == 1   Cascade == 2   Spurious == 7   Blocking == 128

-----------------------------------------------------------------------------
(* The program of Main.                                                    *)

Do(op) == [op |-> op, arg |-> "none"]
DoWith(op, arg) == [op |-> op, arg |-> arg]

(* kalloc(), or a list or queue is changed, with interrupts disabled       *)
Protected(what) == DoWith("protected", what)

(* Data or a register is written with interrupts as they are.              *)
Write(what) == DoWith("write", what)

InterruptInit ==
  <<Write("idtr"), Do("PIC_init"), Do("enable"), DoWith("register", Spurious)>>

SerialInit == <<Do("disable"), Do("loopback"), Do("enable")>>

TimeInitMutant ==
  <<DoWith("register", PIT), DoWith("unmask", PIT),
    Protected("deltaQueue"), DoWith("register", Blocking)>>

TimeInit ==
  <<Protected("deltaQueue"), DoWith("register", PIT), DoWith("unmask", PIT),
    DoWith("register", Blocking)>>

KeyboardInit == <<DoWith("register", Keyboard), DoWith("unmask", Keyboard)>>

(* All of it with interrupts disabled                                       *)
SchedulerInit == <<Protected("tasks")>>

(* task_create() and task_create_param(): the task is on the list of       *)
(* processes, `made`, before it is on the task queue.                      *)
TaskCreate(task) == <<Protected(task), DoWith("push", task)>>

NetworkingInit == <<Protected("interfaces"), Write("interfaces.head")>> \o TaskCreate(TxPoll)

RxInit ==
  <<Protected("rxBuffers"), Write("RDBAL"), Write("RCTL"), Write("device.rxdl")>>

TxInit ==
  <<Protected("txDescriptors"), Write("TDBAL"), Write("TCTL"), Write("device.txdl")>>

EepromRead == <<Do("command"), Do("await")>>

CardInitMutant ==
  <<Protected("intf"), Do("command"), Do("sleep"), Do("await")>>
    \o EepromRead \o TaskCreate(RxPoll) \o RxInit \o TxInit
    \o <<Write("device.rar_add"), Write("intf.tx_send"), Write("intf.ip_addr"), Protected("listed")>>

CardInit ==
  <<Protected("intf"), Do("command"), Do("sleep"), Do("await")>>
    \o EepromRead \o EepromRead \o EepromRead \o RxInit \o TxInit
    \o <<Write("device.rar_add")>> \o TaskCreate(RxPoll)
    \o <<Write("intf.tx_send"), Write("intf.ip_addr"), Protected("listed")>>

BeforeCard ==
  <<Do("memory_init")>> \o InterruptInit \o SerialInit \o TimeInit \o KeyboardInit
    \o SchedulerInit \o <<Do("scheduler_start"), Do("scan")>> \o NetworkingInit
    \o <<Do("check")>>

(* kernel_main(), up to get_network_interface(0)                           *)
Program == BeforeCard \o CardInit \o <<Do("interface")>>

Ended == step > Len(Program)

-----------------------------------------------------------------------------
BootInit ==
  /\ Init /\ ScanInit /\ wanted = <<Ethernet, AnyProgIF>>
  /\ step = 1 /\ made = {} /\ handlers = {} /\ unmasked = 0 .. 15
  /\ intr = [counter |-> 0, enabled |-> FALSE]
  /\ savedIF = [t \in Tasks \union {Idle} |-> TRUE]
  /\ current = Main /\ ready = {Main} /\ ticksLeft = Awake
  /\ time = TIME_SLICE_IN_TICKS /\ running = FALSE
  /\ uart \in BOOLEAN /\ busy = FALSE /\ net_intf = FALSE

At(op) == current = Main /\ ~Ended /\ Program[step].op = op
Arg == Program[step].arg
GoOn == step' = step + 1

InitVars == <<made, handlers, unmasked>>
CardVars == <<uart, busy, net_intf, vars, scanVars>>

(* memory_init(), on the map the boot loader has collected; IF is clear.    *)
MemoryInit ==
  /\ At("memory_init")
  /\ IF pc = "done"
       THEN GoOn /\ made' = made \union {"heap"} /\ UNCHANGED vars
       ELSE Next /\ UNCHANGED <<step, made>>
  /\ UNCHANGED <<handlers, unmasked, intr, scheduling, uart, busy, net_intf, scanVars>>

WriteData ==
  /\ At("write") /\ GoOn /\ made' = made \union {Arg}
  /\ UNCHANGED <<handlers, unmasked, intr, scheduling, CardVars>>

ProtectedData ==
  /\ At("protected") /\ GoOn /\ made' = made \union {Arg}
  /\ intr' = ProtectedSection(intr)
  /\ UNCHANGED <<handlers, unmasked, scheduling, CardVars>>

Disable ==
  /\ At("disable") /\ GoOn /\ intr' = DisableInterrupts(intr)
  /\ UNCHANGED <<InitVars, scheduling, CardVars>>

Enable ==
  /\ At("enable") /\ GoOn /\ intr' = EnableInterrupts(intr)
  /\ UNCHANGED <<InitVars, scheduling, CardVars>>

(* Everything is masked but the line of the second PIC.                     *)
PIC_init ==
  /\ At("PIC_init") /\ GoOn /\ unmasked' = {Cascade}
  /\ UNCHANGED <<made, handlers, intr, scheduling, CardVars>>

(* register_interrupt(), register_software_interrupt()                      *)
Register ==
  /\ At("register") /\ GoOn /\ handlers' = handlers \union {Arg}
  /\ intr' = ProtectedSection(intr)
  /\ UNCHANGED <<made, unmasked, scheduling, CardVars>>

PIC_line_enable ==
  /\ At("unmask") /\ GoOn /\ unmasked' = unmasked \union {Arg}
  /\ UNCHANGED <<made, handlers, intr, scheduling, CardVars>>

(* serial_init() returns at once when the test fails, past its             *)
(* enable_interrupts().                                                    *)
Loopback ==
  /\ At("loopback") /\ step' = IF uart THEN step + 1 ELSE step + 2
  /\ UNCHANGED <<InitVars, intr, scheduling, CardVars>>

SchedulerStart ==
  /\ At("scheduler_start") /\ GoOn /\ running' = TRUE
  /\ intr' = ProtectedSection(intr)
  /\ UNCHANGED <<InitVars, current, ready, ticksLeft, time, savedIF, CardVars>>

(* push_task_queue() at the end of task_create()                           *)
Push ==
  /\ At("push") /\ GoOn /\ ready' = ready \union {Arg}
  /\ intr' = ProtectedSection(intr)
  /\ UNCHANGED <<InitVars, current, ticksLeft, time, running, savedIF, CardVars>>

(* find_PCI_device_no_progif(), and the messages printed after it           *)
FindCard ==
  /\ At("scan")
  /\ \/ ScanNext /\ UNCHANGED <<step, intr>>
     \/ ~Scanning /\ GoOn /\ intr' = ProtectedSection(intr) /\ UNCHANGED scanVars
  /\ UNCHANGED <<InitVars, scheduling, uart, busy, net_intf, vars>>

Supported(header) == header.present /\ header.class = Ethernet /\ header.card = Intel8254xx

(* networking_init_device(): class, then vendor and device                  *)
Check ==
  /\ At("check")
  /\ step' = IF Supported(config[token]) THEN step + 1 ELSE Len(Program)
  /\ UNCHANGED <<InitVars, intr, scheduling, CardVars>>

(* CTRL.RST or EERD.START is set.                                           *)
Command ==
  /\ At("command") /\ GoOn /\ busy' = TRUE
  /\ UNCHANGED <<InitVars, intr, scheduling, uart, net_intf, vars, scanVars>>

CardDone ==
  /\ busy /\ busy' = FALSE
  /\ UNCHANGED <<step, InitVars, intr, scheduling, uart, net_intf, vars, scanVars>>

(* scheduler(): a task of the task queue or else the idle task, and then a  *)
(* sleep that has run out ends.                                            *)
Select(able, left) ==
  /\ current' \in IF able = {} THEN {Idle} ELSE able
  /\ IF left = 0
       THEN ready' = able \union {Main} /\ ticksLeft' = Awake
       ELSE ready' = able /\ ticksLeft' = left

(* sleep(1): the delta queue in a protected section, then int 0x80          *)
SleepOne ==
  /\ LET after == ProtectedSection(intr) IN
       /\ savedIF' = [savedIF EXCEPT ![Main] = after.enabled]
       /\ Select(ready \ {Main}, 1)
       /\ intr' = ReturnFromInterrupt(savedIF[current'])
  /\ UNCHANGED <<time, running>>

Sleep ==
  /\ At("sleep") /\ GoOn /\ SleepOne
  /\ UNCHANGED <<InitVars, CardVars>>

(* while (busy) sleep(1);                                                   *)
Await ==
  /\ At("await")
  /\ IF busy THEN SleepOne /\ UNCHANGED step
             ELSE GoOn /\ UNCHANGED <<intr, scheduling>>
  /\ UNCHANGED <<InitVars, CardVars>>

(* get_network_interface(0), after the message with the error code          *)
Interface ==
  /\ At("interface") /\ GoOn /\ net_intf' = ("listed" \in made)
  /\ intr' = ProtectedSection(intr)
  /\ UNCHANGED <<InitVars, scheduling, uart, busy, vars, scanVars>>

MainStep ==
  \/ MemoryInit \/ WriteData \/ ProtectedData \/ Disable \/ Enable \/ PIC_init
  \/ Register \/ PIC_line_enable \/ Loopback \/ SchedulerStart \/ Push \/ FindCard
  \/ Check \/ Command \/ Sleep \/ Await \/ Interface

(* A PIT interrupt: the ticks, and when the time slice is over and the      *)
(* scheduler has been started, the next task                               *)
Tick ==
  /\ intr.enabled /\ PIT \in unmasked
  /\ LET now  == IF time > 0 THEN time - 1 ELSE 0
         left == IF ticksLeft \in {0, Awake} THEN ticksLeft ELSE ticksLeft - 1
     IN  IF now = 0 /\ running
           THEN /\ Select(ready, left) /\ time' = TIME_SLICE_IN_TICKS
                /\ savedIF' = [savedIF EXCEPT ![current] = intr.enabled]
                /\ intr' = ReturnFromInterrupt(savedIF'[current'])
           ELSE /\ time' = now /\ ticksLeft' = left
                /\ intr' = ReturnFromInterrupt(intr.enabled)
                /\ UNCHANGED <<current, ready, savedIF>>
  /\ UNCHANGED <<step, InitVars, running, CardVars>>

BootNext == MainStep \/ Tick \/ CardDone

BootSpec == BootInit /\ [][BootNext]_bootVars

(***************************************************************************)
(* Main runs if it gets the CPU again and again: the CPU executes many     *)
(* instructions between two ticks.  The PIT goes on, the card ends what it *)
(* was told to do, and the scheduler selects every ready task again and    *)
(* again, as the round robin does (SchedulerLatency, BoundedWait).         *)
(***************************************************************************)
BootFairSpec ==
  /\ BootSpec /\ SF_bootVars(MainStep) /\ WF_bootVars(CardDone)
  /\ SF_bootVars(Tick) /\ SF_bootVars(Tick /\ current' = Main)

-----------------------------------------------------------------------------
(* Properties *)

(* What the code reads that an interrupt runs: every handler, the PIT's     *)
(* also the delta queue, and the scheduler the queues and tasks.            *)
InterruptReads == {"idtr", "heap"} \union (IF PIT \in unmasked THEN {"deltaQueue"} ELSE {})
                  \union (IF running THEN {"tasks"} ELSE {})

(* An interrupt that can come finds its handler registered and the data it  *)
(* uses made: timer ticks come from time_init() on, before the scheduler    *)
(* has any task, and spurious ones from interrupt_init() on; and Main       *)
(* finds the handler of int 0x80 when it sleeps (interrupt.c:35-44,         *)
(* time.c:109-124, keyboard.c:17-24, kernel.c:43-52).                       *)
InterruptsFindHandlers ==
  /\ intr.enabled =>
       /\ unmasked \ {Cascade} \subseteq handlers
       /\ unmasked # {Cascade} => Spurious \in handlers
       /\ InterruptReads \subseteq made
  /\ ticksLeft # Awake => Blocking \in handlers

(* What each polling task and the card itself use                           *)
TaskReads(task) ==
  {task}
    \union (IF task = RxPoll THEN {"device.rxdl", "device.rar_add", "rxBuffers"} ELSE {})

(* The polling tasks can be selected as soon as they are pushed, and the    *)
(* card receives and sends as soon as it is told to: what they use is there *)
(* by then, and the interface is complete when it is listed                 *)
(* (networking.c:24-42, intel_8254xx.c:115-196, 213-296).                   *)
PollersFindCardReady ==
  /\ \A task \in ready \ {Main} : TaskReads(task) \subseteq made
  /\ "RCTL" \in made => {"rxBuffers", "RDBAL"} \subseteq made
  /\ "TCTL" \in made => {"txDescriptors", "TDBAL"} \subseteq made
  /\ "listed" \in made =>
       {"intf.tx_send", "intf.ip_addr", "device.txdl", "interfaces.head"} \subseteq made

(* With a card the kernel comes out of the start with interrupts on and the *)
(* counter at 0, also when serial_init() has returned without its           *)
(* enable_interrupts(): the first sleep() of Main repairs that              *)
(* (serial.c:16-42, time.s:132).                                            *)
InterruptsComeBack ==
  Ended /\ net_intf /\ current = Main => intr = [counter |-> 0, enabled |-> TRUE]

(* The start ends, whatever the tasks started meanwhile do.                 *)
BootEnds == <>Ended
=============================================================================
