# A verification of the kernel

TLA+ models of the kernel in `src/source`, checked with TLC on small instances
and, where it matters most, proved with TLAPS for every value of the constants.
All paths below are relative to `src/source/kernel` unless they say otherwise.

Contents: 1 the system · 2 modules · 3 runs, bounds, fairness · 4 proofs ·
5 where the code does not do what it says · 6 what is not modelled · 7 plan

## 1. The system

A 32-bit x86 kernel for QEMU: one CPU, one address space, tasks that are
switched by the timer, a page allocator, a disk driver, a network card driver
and a small network stack of which `kernel_main()` runs a demo client. A test of
any of this needs a whole machine, and its hard parts depend on when interrupts
come; there are no tests in the repository.

| Component | State | Operations | Shared with |
|---|---|---|---|
| Interrupt control (`interrupt.c`) | IF, one global disable counter | `disable_interrupts`, `enable_interrupts` nest | every critical section; both switch wrappers clear the counter |
| Scheduler (`scheduler.c`) | task queue, `on_task_queue`, `is_blocking`, current task, rest of the time slice | `scheduler`, `scheduler_start`, `task_create` | timer interrupt, `sleep` |
| Time (`time.c`, `time.s`) | delta queue of sleepers, tick counters | `sleep`, the PIT interrupt, software interrupt 0x80 | scheduler |
| Page allocator (`memory.c`) | nodes of a buddy tree, free lists | `memory_init`, `kalloc`, `kfree`, two merges | all; callers are in critical sections |
| Boot loader (`boot/bootloader_ss.asm`) | the memory map at 0x6000:0 | `get_memory_map` | `memory_init` |
| Sockets (`socket.c`) | SOCKET: status, numbers, two queues, addresses | `ksocket`, `kconnect`, `kwrite`, `kread`, `kclose` | the owner task, the TX task, the RX task, without locks |
| Networking tasks (`networking.c`) | none of their own | `networking_tx_poll` walks all sockets; `networking_rx_sort` gives a frame to a socket | sockets, ARP list, card |
| ARP (`arp.c`) | the ARP list, made on first use | `arp_lookup`, `arp_req`, `arp_sort` | `kconnect`, TX task, RX task |
| IPv4, UDP, TCP, Ethernet | none | header building and decoding, next hop | networking tasks |
| DHCP client (`dhcp_client.c`) | the interface's address, server, mask | `dhcp_client` in Main | sockets |
| Network card (`intel_8254xx.c`) | two descriptor rings, receive address registers | `rx_poll`, `tx_send` | the device |
| AHCI driver (`ahci.c`) | command list, command tables, the list of registered devices | `AHCI_init`, `register_device`, `AHCI_read`, `AHCI_write`, `AHCI_execute_command` | the adapter, the drives |
| PCI (`pci.c`) | none | four walks over the bus: find with and without interface, count, list | the start, drivers |
| Start (`kernel.c`, the `..._init` functions) | which handlers, lines, tasks and registers are set up | `kernel_main` up to the network interface | interrupts, from its second call on |
| Keyboard, serial port, screen, CPU access | registers | start-up and output | - |

How they interact: Main and two tasks per network card run concurrently, and a
timer interrupt can come between any two instructions outside a critical
section. `sleep()` is the only way to block; every wait is a loop around it.
Tasks hand over work through status fields and queues of the SOCKET. Devices
work on rings and registers that the driver polls.

What makes each part correct, and what is hard about it:

- *Scheduler and time.* No task is lost or queued twice although a sleeper
  leaves the task queue by being dropped and returns through the delta queue;
  wake-up times are exact; critical sections are atomic although the counter is
  global; every ready task runs. Hard: an interrupt in the gap between
  `enable_interrupts()` and `int 0x80` in `sleep()`.
- *Page allocator.* Pages belong to one caller, free lists are lists, and what is
  freed can be had again. Hard: long sequences of legal calls.
- *TCP sockets.* Bytes once and in order, none acknowledged that was not taken,
  `kconnect()` returns after the handshake. Hard: three tasks test and store
  `status` and the numbers without a lock; the peer's frames come again, and
  the kernel's own, which it sends once, can be lost.
- *DHCP and ARP.* The address is leased to this kernel; frames go to the host
  they are for; the answer to a question finds the list written. Hard: lazy
  creation by whichever task comes first, answers in any order, and replies
  nobody asked for.
- *Rings.* Frames once, in order, none lost while there is room. Hard: driver and
  device move round the ring at their own pace.
- *Pages of messages.* A received frame has two pages and a queue entry, a written
  one three and a page for the frame; every branch of the networking tasks frees
  them, passes them on or forgets them. Nobody may use a page another one has.
  Hard: the device reads a page long after `tx_send()` has returned, and a branch
  that forgets a page looks like one that passes it on.
- *AHCI.* A call returns after its own command was executed; a buffer is described
  with the sector size of the drive it is read from. Hard: the time between reading
  and writing `PxCI`; an answer that is not there yet; sector sizes that differ.
- *Start.* Interrupts are on after the second call of `kernel_main()`, long before
  the tasks, the delta queue and the card exist. Hard: the order of some fifty
  writes in eight files, and a `serial_init()` that leaves interrupts off.
- *PCI walk.* Every function once, though a device may answer for functions it
  does not have.
- *Heap layout, PRDT.* Arithmetic at boundaries.

`PROJECT.json` lists each hazard with the line where it bites and the properties
that would catch it.

## 2. Modules

| Module | Models | State and actions |
|---|---|---|
| `InterruptControl` | `interrupt.c:189-246`, the exit of `time.s` | operators on a record [counter, enabled]; used by `Scheduler` |
| `Scheduler` | `scheduler.c`, `time.c`, `time.s` | `Sleep`, `RaiseInterrupt0x80`, `Tick` (with and without switch), `EnterCritical`, `LeaveCritical`, `SchedulerStart`, `TaskCreate` |
| `TaskService` | abstract: what the scheduler promises | who is asleep, for how long, and who has the CPU - no queues |
| `SchedulerLatency` | `Scheduler` with a history variable for waiting times | |
| `SchedulerProofs` | proofs about `Scheduler` | |
| `HeapLayout` | `get_memory_map` and `memory_init()` | the three loops, one action per turn |
| `Buddy` | `kalloc()`, `kfree()`, `merge_bnode()`, `merge_bnode_nolimit()` | each call one step, as callers have interrupts off; nodes and links as in memory |
| `PageService` | abstract: what the page allocator promises | who holds which pages - no nodes, no lists |
| `BuddyProofs` | proofs about `Buddy` | |
| `TcpSocket` | TCP parts of `socket.c`, `networking.c` and the peer | each test and each store of `status` a step of its own, and each store of the RX task: `RxTest`, `RxMatch`, `RxStore` (number), `RxStatus`, `RxPush` |
| `HostSetup` | `dhcp_client()`, UDP and ARP parts of `socket.c` and `networking.c`, `arp.c`, next hop of `ipv4.c`/`ethernet.c`; servers and hosts | Main, TX task and RX task, a step between two accesses to shared state |
| `TcpSocketProofs`, `HostSetupProofs` | proofs about the two | |
| `RxRing`, `TxRing` | `intel_8254xx_rx_poll()`, `intel_8254xx_tx_send()` and the device | each access to a ring or register a step |
| `RxPages` (extends `RxRing`) | the pages of a received message: `rx_poll()`, the branches of `networking_rx_sort()`, `arp_sort()`, `kread()` | who has which page; the steps of the ring with what they do to pages |
| `TxPages` (extends `TxRing`) | the pages of a sent message: `kwrite()`, the TX task, `tx_send()`, the device | likewise |
| `RxRingProofs`, `TxRingProofs` | proofs about the rings and their pages | |
| `AhciPort` | `AHCI_execute_command()` and the adapter | the search for a slot, the two header words, the read and the write of `PxCI`, the wait |
| `AhciPrdt` | count and PRDT of `AHCI_read()`/`AHCI_write()` | one action per turn of the loop |
| `AhciDisk` (extends `AhciPrdt`) | `AHCI_init()`, `register_device()`, the lookup of the device, the drives | reset, ports, IDENTIFY, then a transfer |
| `AhciProofs` | proofs about `AhciPort`, `AhciPrdt`, `AhciDisk` | |
| `PciScan` | the four walks of `pci.c` | one step per function of a device |
| `Boot` (extends `HeapLayout`, `PciScan`, `InterruptControl`) | `kernel_main()` up to `get_network_interface(0)` | Main's program, one instruction a step; `Tick`, `CardDone` |
| `BootProofs` | proofs about `HeapLayout`, `PciScan`, `Boot` | |
| `MC*` | instances for TLC | |

Conventions. Actions carry the names of the functions they model, or of the part
of one they are. A definition named `...Mutant` is what a plausible mistake would
make of the definition next to it; no specification uses it, it is there to be
put in its place to see that a property notices. History variables (`due`,
`held`, `relinked`, `written`, `got`, `executed`, `lost`, ...) are read by
properties and bounds only.

How the code is abstracted:

- *Scheduler.* A task's code is "run" (outside `sleep()`) or "gap". Any code may
  enter and leave critical sections. A PIT interrupt is one step with the switch
  it causes, as IF is clear in it. Boot code that leaves a section open
  (`serial_init()` returns early when no UART answers) is the constant
  `LeakedDisables`.
- *Buddy.* Pages are counted from the start of the heap body, a node is its number
  in memory order. `kfree()` rounds the absolute address down to 128K
  (`memory.c:350-354`), the model its distance from the body: the two agree when the
  body is a multiple of 128K, that is, when the range of the heap starts at one, as
  QEMU's at 1 MB does. Elsewhere the search of `kfree()` runs past the list, and nothing is claimed.
  `MaxOrder` is 5 in the code. A loop or recursion down the tree is a
  function of the order it has reached: `SplitTurn`, `MergeBnodeTurn`,
  `MergeBnodeNolimitTurn` and `RootTurn` are one turn of it, given what is done below.
- *TcpSocket.* A message is one byte named by its place in the stream. A visit of
  the TX task to a socket is: select the branch by status, clear the status,
  build the segment, hand it to the card and advance the number (the number is
  advanced just before `tx_send()`; the model does both in one step). The RX task
  stores the number, then S_ACK, then queues the message, and the TX task can run
  between any two of these. Frames are lost on both ways; `cut` has the
  sockets that lost one on the way to the peer. Ports are not fields, because the
  code does not compare them.
- *HostSetup.* An address is a number, the MAC address of a host is its address,
  a mask is the size of the subnet. A socket or list is "none", "raw" (pointer
  stored, fields not) or "ready". Hosts also send ARP replies nobody asked for
  (`HostAnnounces`), and `arp_sort()` takes them whether or not there is a list:
  without one (`RxArpWild`) it follows NULL or a head that is not written, and may
  find nothing, find the sender, write somewhere, or never return. `wild` names the
  functions that did so. The properties but `NoWildRead` and `LeaseHeld` claim
  nothing from then on.
- *HeapLayout.* Base and length of a range are two words each, as in
  ADDRESS_RANGE_DESCRIPTOR, of which `memory_init()` reads the low ones. Sums that
  wrap at 32 bits, of a range that ends beyond 4 GB, are not modelled.
- *RxRing, TxRing.* A frame is the number of its arrival or call.
- *RxPages, TxPages.* The allocator gives any free page - `Buddy` is about which -
  and the model ends where none is left. A frame is of one of five kinds, one for
  each way `networking_rx_sort()` treats pages. `misuse` records that a page was read,
  written or freed while free.
- *AhciDisk.* An answer to IDENTIFY is three fields: 48-bit addresses, large
  sectors, and the words 117 and 118. A page the allocator gives holds any old answer.
- *Boot.* Main's program is a sequence put together, as in the code, from the
  sequences of the functions `kernel_main()` calls. `made` are the data and registers
  written, `handlers` the registered vectors, `unmasked` the lines of the PICs. Code
  between `disable_interrupts()` and `enable_interrupts()` is one step. Of the task
  queue only the set of tasks is kept: any of them may be selected. `memory_init()`
  and the PCI walk are the ones of `HeapLayout` and `PciScan`, run as instructions.
- *PciScan.* A header of the configuration space is what the code reads of it.
- *AhciPort.* `PxCI |= bit` is a read and a write; writing 1 sets a bit.

## 3. Runs

Every passing run is complete: TLC explores all states within the bounds.

| Run | What it shows | Instance |
|---|---|---|
| `scheduler` | queue and flags agree, no task lost, every sleeper timed once, differences exact, no early return, critical sections atomic, bounded wait; `Scheduler` implements `TaskService`; `sleep()` returns | Main and two workers, sleeps of 0 to 3 ticks, nesting 1, with and without the leaked disable |
| `buddy` | tree, lists and callers agree; an empty block is whole; `Buddy` implements `PageService` | two blocks of four pages, requests of 1 to 4 |
| `buddy_overlap` | violated: see section 5 | same, requests of 1 and 2 |
| `tcp` | delivery, acknowledgment, handshake, sending; connect returns unless its SYN was lost; bytes arrive unless an ACK was replaced or a frame of the kernel lost, and the ends disagree for good | one socket, two bytes each way, losses both ways; 362,671 states |
| `tcp_queue` | violated: see section 5 | one byte each way, no loss |
| `setup` | lease, addressing, ARP list; only a reply nobody asked for finds the list not written; set-up ends | two DHCP servers, one off the subnet; two hosts; two connects; losses, repeated and unasked replies; 82,036 states |
| `rx_ring` | each frame sorted once, none lost before an overrun, all sorted in the end; no page used by two, only dropped frames keep theirs | three descriptors, 6 frames in three mixes of the five kinds, a reader |
| `tx_ring` | frames go out in order, none dropped before the driver laps the device; no page used by two, only frames keep theirs | three descriptors, 8 frames, three `kwrite()` |
| `ahci` | returns after its own command, whole and once; always returns | two tasks, own ports or a shared one, two slots, two calls |
| `disk` | the list holds each usable drive with its own answer; the table covers the buffer, which is as long as what a drive of 512-byte sectors transfers | three ports, five kinds of drive in every combination; 0, 1, 3, 15-17, 255-257, 300 sectors |
| `disk_sectors` | violated: see section 5 | same |
| `boot` | heap apart from records, where the low words of the map say; interrupts find handlers and data; tasks and device find the card ready; the walk finds every function once; interrupts are on in the end; the start ends | 16 memory maps, 112 machines, with and without a serial port; 466,112 states |

Why the bounds are enough:

- *Scheduler.* Three tasks are the least with a runner, a sleeper before and a
  sleeper behind the new one in the delta queue; `MaxSleep` 3 exceeds the time
  slice of two ticks. The invariants, `BoundedWait` among them, are
  proved without bounds (section 4); liveness is checked only.
- *Buddy.* `MaxOrder` 2 has a split of a split and merges on two levels; two blocks
  let one be full; a request of 3 leaves a block whose pages are an allocated node and
  the front of its buddy. The state constraint `BeforeRelink` stops at the first step
  that pushes a node twice (section 5): a list has a cycle then and `kfree()` may
  follow NULL, which has no defined result. The four properties of the run say "until then", and
  they are proved without bounds.
- *TcpSocket.* `MaxWire` 1 bounds the frames on their way to the kernel, not those
  from it. Two writes are the least with which S_WRITE meets an empty queue. A frame
  is taken from the front and may be lost, on either way, so what the peer sends
  again, what is dropped while the status is S_ACK and what the kernel never sends
  again all occur; frames do not overtake each other between one peer and one ring.
  Each exception of the two liveness properties is needed: without any one of
  them TLC finds a behaviour that violates the property.
- *HostSetup.* Two servers let the offer of one come when the answer of the other
  is awaited; `MaxReplies` 2 lets a host answer twice; `MaxOthers` 1 admits one
  frame nobody in the kernel asked for: an answer to another client, an ARP
  request of a server, or an ARP reply of a host, at any time - before the list
  is made, between its two writes, or after. The proofs have no such bound. Two connects let the second find the host listed. Frames
  on the wire are a set, so they overtake each other.
- *Rings.* Three descriptors and two rounds, so each descriptor is used again while
  others wait. In the mixes every kind of frame follows several others, and
  two frames of a socket are queued at once. There are pages enough for all that
  is kept, since what `kalloc()` does without pages is undefined.
- *Disk.* The counts lie on both sides of one entry (16 sectors of 512 bytes) and
  of 256 sectors, where the count needs its second byte; entry size and count field
  are the real ones. Three ports let a drive be registered behind, before
  and between others of another size. The proofs cover every count.
- *Boot.* The maps have three entries: the longest usable range has no, one or two
  blocks, with and without a rest, and the first one is usable or not; two more
  maps have a usable range from 4 GB on that is 4 GB long, or whose length
  has the larger low word; block and node sizes are the real ones. The machines have two buses of two devices of three
  functions: a card of the known kind, of another, or none; several, so that the last
  one counts; and devices with one function that answer for others. The walk and
  the layout are proved for every machine and map.
- *AhciPort.* With two slots, a stale write of `PxCI` can fill both, so the search
  fails and falls back to slot 0.

Deadlock is checked except where the work is bounded and ends: `tcp`,
`tcp_queue` (all written, all closed), `tx_ring`, `ahci`, `disk`,
`disk_sectors` (one transfer), `boot` (the program has ended).

Fairness, and why the code justifies it:

- `Scheduler`: strong fairness of `Tick`: the PIC keeps the request while IF is
  clear, so it is taken when IF is set again and again. Strong fairness of
  `int 0x80` and weak fairness of leaving a section: thousands of instructions
  run between two ticks. Nothing makes a task sleep, enter a section or exist.
  `SleepReturns` supposes interrupts on at first: after a leaked disable no
  interrupt comes until Main sleeps, and nothing in the scheduler makes it sleep.
- `Boot`: strong fairness of `Tick` for the same reason, of Main's steps since
  it executes many instructions in a time slice, and of a tick that selects Main,
  which `BoundedWait` of the scheduler justifies: who is ready is selected within a
  slice per task. The card ends a reset or an EEPROM read (weak fairness).
- `TcpSocket`, `HostSetup`, `RxPages`, `AhciPort`: each kernel task goes on, which is
  `BoundedWait` of the scheduler. The networking TX task walks all sockets in a
  loop, so it comes to each status it can act on: strong fairness. The application
  is not fair: nobody must write, read or close.
- The peer of `TcpSocket` answers and sends again, and of what it sends
  again and again not everything is lost (strong fairness of `RxTake`). Of the kernel's
  frames, which it sends once, any can be lost: where that ends a conversation the
  liveness properties say so (`SynLost`, `OutOfStep`). In `HostSetup` nothing is sent again, so liveness
  is claimed for behaviours without loss (`lost`) and without a use of a list that is not
  written (`wild`).
- Devices do what they were told.

## 4. Proofs

All theorems hold for every value of the constants that meets the named
assumptions, which only give the constants their types, make the sets of tasks
and of hosts finite, and keep the names of tasks apart from each other and, in
`Boot`, from those of registers. The theorems about TCP streams have one hypothesis more,
`SingleSocket` (below). `SchedulerProofs` and `BuddyProofs` use the theorems on finite sets,
sequences and well-founded relations of the library.

*Scheduler.* `IInv` is inductive. It joins `TypeOK`, `QueueConsistent`,
`NoTaskLost` (which is `ReadyTasksQueued` and `SleepersTimed`), `DeltaExact`,
`NoEarlyReturn`, `CriticalSectionsAtomic` and `PlacesOK`. None is inductive alone: that no task is
lost needs that a dropped task is in the delta queue; that it is there once needs
that a blocking task runs only the gap; that nobody wakes early needs exact
differences; that sections are atomic when a wrapper clears the counter needs that
the switched-out task is inside none, hence that the counter covers the running
task's depth (`PlacesOK`). The lemmas say what each loop of the code computes -
the selection, the draining of the delta queue, the walk of `sleep()`, the tick -
and each action then has a step. From `IInv` follow the theorems for each
property and `Implements`: every step of the scheduler is a step of
`TaskService` or a stutter.

*Waiting time.* `LatencyInv` adds up, for a task that waits for the CPU, the ticks it has
waited, those left of the running task's slice, and a slice for each task before it
in the queue: never more than two ticks per task, which is `MaxWait`. A
sleeper that the current tick drains from the delta queue has waited 0. The sum is kept by
an ordinary tick, as one term grows and one shrinks, and by a switch, as everybody moves up;
it needs `IInv`, for the queue holds no task twice and so is not longer than there
are tasks. `WaitIsBounded` follows for any finite set of workers.

*Buddy.* The properties of the run hold for blocks of every order, any number of blocks, any
mix of sizes and every sequence of calls up to the first relink. None of the three invariants is
inductive: they speak of the tree through `LiveNodes` and of the lists through
`ListNode`, which are computed from a heap that a call has just rewritten. `BuddyInv`
says instead that there is a set L of nodes with

- `TreeOK`: L holds the highest nodes, with each node both of its leaves or neither, at their
  places in memory and with their half of the pages; what overlaps in memory is nested;
- `PagesOK`: a piece (a node of L without leaves) is allocated exactly if its pages are held;
- `ListsOK`: a node with links is a free piece, the node behind points back at it, and the
  first of a list has the list's order;
- `HeldOK`: a block held is the front of a node's pages, blocks are disjoint, and the pages
  of an allocated piece belong to one block;
- `NoFreePair`: no node has two free leaves.

The proof follows the code. `SplitDoes`, `MergeBnodeDoes`, `NolimitDoes` and `RootDoes`
say what the loop of `kalloc()`, the two merges and the descent of `kfree()` do below any node of
any order: which nodes leave or join L, which pages change hands, and that nothing outside
the node's subtree moves. Each is an induction on the order (`UpTo`, from the library's
well-founded induction on numbers) over one turn of the recursion (`SplitStep`,
`MergeBnodeStep`, `NolimitStep`, `RootStep`). What `merge_bnode()` frees is the front of
a node's pages, so its induction carries a boundary: the pages before it are held, and no
piece lies on both sides of it. Between the two merges `NoFreePair` may be broken above the node that was freed;
`KallocWorks` and `KfreeWorks` put the parts together. `NoFreePair` is why an empty block is whole
(`EmptyWhole`). `LiveIsTree` shows that L is what is reached from the highest nodes, and a
free list ends since a chain of back links that does not repeat is no longer than there are
nodes (`ChainEnds`, by the pigeonhole principle).
`Implements` shows that every call is a
step of `PageService`: since `held` is a set, `TreeTellsHeldPages` would not notice a block that
is handed out twice as a whole, and this does.
After a relink the lists may be cycles and blocks overlap (section 5), so every part is
only claimed before.

*TcpSocket.* Under `SingleSocket` - the process has one TCP socket - three theorems hold for every length
of the streams, every number of losses and every interleaving of the
tasks and the peer: `StreamDelivered`, `AcknowledgedIsTaken` and `StreamSent`. Without it they are
false: `networking_rx_sort()` does not compare ports, so a segment for one socket is
taken by another (section 5). `IInv` says for each segment on the wire that the byte it carries
is the one its number names, of the socket that `ack` counts the bytes delivered and the one the
RX task has counted but not queued yet, and never shrinks, of the RX task which of its three
stores are done, and for the TX task's visit which parts of the segment are already
written: advancing the number and the hand-over are one step, so before it the next byte is both
in hand and next in number. `AcknowledgedIsTaken` says no more than that: between
`networking.c:449` and `networking.c:453` the TX task can acknowledge a byte that is in no queue. Nothing is inductive without the handshake part, which says
which status the socket may have while the peer still listens.

*HostSetup.* For any DHCP servers, hosts, targets and masks, any number of replies, asked
for or not, and of other clients' frames, and every order in which frames arrive or are lost:
`LeaseIsHeld`, `SynReachesHost`, `HostsListedOnce` and `AnswersFindTheList`, the second and third
unless the list was used before it was written. `IInv` says of
each frame in flight who can have sent it and in answer to what; of the offer Main
keeps that it is the one its request repeats; of the ARP list that it is published before it is
written only where `main` or `tx` stands in between, that whatever was asked for is listed
before the next question, that an entry is a host that answered, and that the receive address
registers are one more than the entries - the last three as long as `wild` is empty. That these stay within the hosts needs `Hosts` finite.

*HeapLayout.* `LayoutInv` says how far each of the three loops has come and what it
has established: the copied entries are the map's but for the last one, the range
is the usable one seen with the largest low word of its length, node n lies at `start + (n-1) * Records` and has
the address `body + (n-1) * BlockSize`. With lemmas on division and products follow
`LayoutDisjoint`, `OverrunBounded` and `HeapByLowWords`; where all usable ranges lie
below 4 GB the last says that none is longer.

*RxRing.* `RingInv` says, for each descriptor, whether the frame in it was sorted
already and whether the driver has yet to clear its status, and that every sorted
frame arrived before. `SortedExactlyOnce` does not speak of the steps between
reading the status and clearing it, so it is not inductive; with `RingInv` it holds
for rings of every size. `PagesKeepRing` - `RxPages` is a ring with pages - carries it over.

*RxPages.* `OwnersInv` says that the pages of the message in `rx_poll()`, of each
queue entry, of the reader and of the ARP list are disjoint from each other and from
the free ones; `NoPageReused` follows, for every heap, mix of frames and ring.
`OnlyDroppedLeak` counts: a further invariant on what nobody has says that each
step moves pages between owners but for the two of a dropped frame.

*TxRing.* `TxInv` says that the descriptors from head to tail, in the order the device
takes them, hold ever newer frames, all newer than those on the wire, and that the
frame not yet handed over lies at the tail. The steps that need it are the write of
the tail register, which adds that frame or empties the ring, and the device's.
`SentExactlyOnce` follows for rings of every size, and for `TxPages` by its
`PagesKeepRing`.

*TxPages.* `PagesAccounted` needs `LeakInv`: what kwrite(), the queue, the TX task and
free have are disjoint, the pages of the descriptors are in none of these, and the
pages nobody has (`Lost`) are as many as frames were given to the ring.

*AhciPort.* `PortInv` says for a task that is alone on its port what holds at each
step of the call: its slot is free until `PxCI` is written and the only one issued
after, the header is its own from the step that wrote it on, its command is among
the executed ones when the bit is clear, and no later one is. `CommandsExecuted`
follows, for any number of tasks, ports, slots and calls.

*AhciPrdt.* `PrdtInv` says that the entries written so far cover the buffer up to
`buf_u8`; `TableCoversBuffer` and `CountIsKept` follow for every chunk, sector size
and count.

*AhciDisk.* `DiskInv` says where `AHCI_init()` is with the port it is at - what is
registered are the usable ports before it, and the answer in the page is the drive's
once the command is done - and which drive's size the transfer uses. `DevicesListed`
and `TransferMatchesDrive` follow for any number of ports and drives. `DiskTransfers`
shows that a transfer in `AhciDisk` is one of `AhciPrdt`, so `CoversBuffer` carries over.

*PciScan.* `ScanInv` says that the walk has visited exactly the places before the
current one that exist; `FindsLast` and `EnumListsAll`, and so `WalkComplete`, follow for buses of every size
and every content. `BootWalks` and `BootLaysOutHeap` show that `Boot` implements
`PciScan` and `HeapLayout`: nothing that comes in between touches their state. So
what is proved about the walk and the heap holds of the start.

*Boot.* `BootInv` says that what is written, registered, let through and pushed on the
task queue before the n-th instruction is what the instructions before it are about; that
only Main is ever interrupted with IF clear; and that Main comes back from its first
sleep with the counter at 0. `ProgramText` puts Main's program together from
its parts, so that "handler before unmasking" and "ring before its poller" are facts
about places in it, whatever the walk finds and however the ticks fall. `HandlersComeFirst`,
`CardIsReadyFirst` and `InterruptsAreOn` follow.

The type invariants are proved for every module with proofs and are no property of a run;
that of `Buddy` is a part of `BuddyInv`. `OverrunBelowBlock`
and `CountMatches` are proved and in no run.

Checked only: all liveness, which is out of the prover's reach. Every invariant and every
action property of a passing run is proved.

## 5. Where the code does not do what it says

Shown by a run that TLC finds violated:

- `buddy_overlap`: `merge_bnode()` (`memory.c:521`) pushes a free leaf that is on its
  list already. If it is first, its `list_next` becomes itself and two later
  `kalloc()` return the same pages.
- `tcp_queue`: the RX task stores S_ACK over S_WRITE (`networking.c:450`); the TX
  task then sends an ACK and stores S_OPEN, and the queued message stays until
  another `kwrite()`.
- `disk_sectors`: the words 117 and 118 of an answer to IDENTIFY count words, the
  driver takes them for bytes (`ahci.c:305`): a drive of 4096-byte sectors is
  described half of the buffer. `TransferMatchesDrive` is about 512-byte sectors.

Met while modelling; the properties are stated so that they say what does hold:

- A freed leaf whose buddy stays allocated is on no list (`memory.c:516` asks for
  links that a freed leaf never has). `EmptyBlocksWhole` says when it is back.
- The heap's header is rounded up after the blocks were counted
  (`memory.c:134-147`), so the last block may lie partly behind the range.
  `OverrunBelowBlock` bounds it.
- The boot loader leaves its loop on the last entry of the memory map before it
  copies it (`boot/bootloader_ss.asm:62`). `LongestUsable` leaves that entry out.
- `memory_init()` compares and keeps the low words of length and base only
  (`memory.c:125-128`): a range of 4 GB counts as empty, and one that begins at
  4 GB puts the heap at address 0. `LongestUsable` says "longest" of maps whose usable ranges
  all lie below 4 GB, and of the others what the code does; what a heap that lies over
  the kernel destroys is not modelled.
- Two sockets that connect at once take each other's segments: ports are not
  compared and all numbers start at 0 (`networking.c:417-431`). The runs have one.
- `kwrite()` stores S_WRITE after it has queued the message (`socket.c:205`). If the
  message is on the wire by then, as it is when an earlier write had left S_WRITE,
  and the RX task has stored S_ACK since, the ACK is lost: S_WRITE with an empty queue
  sends nothing, and the peer repeats bytes the socket has. Only another `kwrite()`
  helps. TLC found this with two writes; `PeerBytesArrive` leaves out the
  behaviours that stay so (`AckReplaced`).
- The kernel sends every frame once (`networking.c:222-305`). If its SYN is lost,
  `kconnect()` waits for ever: `ConnectReturns` leaves that out (`SynLost`). If an ACK
  is lost, the peer repeats what the kernel has, the kernel drops the repetition
  without an answer (`networking.c:442`), and no later byte comes through; if a message is
  lost, the peer never acknowledges the number the kernel expects.
  `PeerBytesArrive` leaves out the behaviours in which the two ends disagree for good
  after such a loss (`OutOfStep`).
- The RX task advances `ack` and stores S_ACK before it queues the message
  (`networking.c:449-453`), with interrupts on: a byte can be acknowledged before
  `kread()` can see it. `AcksTaken` counts what the RX task holds as taken.
- `arp_sort()` follows `g_arp_list` without a test (`arp.c:115`). The list is made by the
  first `arp_lookup()`, but the card takes unicast frames for others and all broadcasts
  (UPE and BAM, `intel_8254xx.c:245,248`), so a host that announces itself earlier, or
  between the two writes of `arp.c:55-57`, makes the RX task read at NULL or an unwritten head.
  `NoWildRead` says that no other use, and no answer to a question of the kernel,
  finds the list not written.
- The ACK a DHCP server sends to another client is taken for the answer
  (`dhcp_client.c:128` compares the type only). `LeaseHeld` leaves these
  behaviours out.
- `ksocket()` and `kconnect()` store a page before they write it (`socket.c:23`,
  `socket.c:157`), with interrupts on; the model takes the page for zeros.
- `kconnect()` and `ipv4_req()` compare with different addresses, so a frame to a
  target off the subnet goes to a next hop nobody resolved (`ipv4.c:55-63`).
  `SynAddressed` is about the others.
- Two tasks on one AHCI port can take the same slot (`ahci.c:421`).
  `CommandsExecuted` is about ports that one task uses.
- More than 3968 sectors need more entries than the page of the table holds
  (`ahci.c:491`, against the comment at `ahci.c:449`). The model's table has no page.
- For a port without a registered device the lookup ends with NULL and the sector size is
  read from low memory (`ahci.c:525`): `Lookup` then gives any value, and
  `TransferMatchesDrive` is about registered drives.
- A received frame that cannot be decoded or that no socket takes keeps its two
  pages (`networking.c:374`, `intel_8254xx.c:321`), a sent one the page it was put
  together in (`networking.c:142`). `OnlyDroppedLeak` and `PagesAccounted` say that
  nothing else is lost.
- `serial_init()` returns without `enable_interrupts()` when no UART answers
  (`serial.c:16-42`). The first `sleep()` repairs that, because the wrapper of int 0x80
  clears the counter; there is one only when a card is found, hence the
  condition of `InterruptsComeBack`.
- Nothing keeps the device from overrunning the receive ring or the driver from
  lapping the transmit ring; the ring properties hold up to that point.

Read, and below the grain of the models: `arp_sck` of Main is never set to NULL
(`scheduler.c:76`); `PIC_line_enable(8)` would go to the first PIC
(`interrupt.c:55`); `ctrl |= CTRL_SLU_SHIFT` sets bits by the number of a bit
(`intel_8254xx.c:162`); `AHCI_write()` does not set the W bit of the command
header; the AHCI handler clears `PxIS` but not `IS`; the wrappers of the keyboard,
AHCI and spurious interrupts save only ebp (`keyboard.s:7`).

## 6. What is not modelled

- Register set-up bit by bit: gates of the IDT, words to PIC and PIT, the fields of the
  card's registers, CPUID, MSR and MTRR decoding, single reads of the PCI configuration
  space. `Boot` has the order of these steps, not their words.
- Header layouts and checksums: bytes without control.
- Printing, strings, the keyboard handler: output only. The text of the HTTP request
  and of its answer in `kernel_main()`.
- The interrupt handler of `AHCI`, on which nothing waits; drives that answer IDENTIFY
  with an error, ATAPI drives, and `sector_count * lba_size` beyond 32 bits.
- `kernel_main()` ignores errors and goes on; without a card, or after a failed
  `kconnect()`, it would use pointers that are NULL. `Boot` ends with `net_intf` FALSE,
  `HostSetup` stops there ("refused").
- The socket lists of several tasks, and two network cards: the demo has one socket at
  a time and one card.
- `kalloc()` with nothing left, and what follows a double push: undefined.
- Memory that is not zero at boot, but for the pages of `AhciDisk`.
- Loading the kernel from disk, real-mode set-up, and the scripts that build the image.

## 7. Plan

Done, in this order: the scheduler with its abstract specification and proofs,
since every other module's fairness rests on it; the page allocator; TCP sockets;
set-up; rings; AHCI commands; the layout of the heap; then the pages of messages,
composed with the rings; the PCI walk; the start, composed of the layout, the walk and
interrupt control; identification of drives, composed with the transfer.

Left:

1. An abstract channel of frames - sent, delivered once, possibly dropped - that
   `RxRing` and `TxRing` implement, and that `TcpSocket` assumes of the wire.
2. An abstract byte stream for `TcpSocket` (written, sent, delivered, read) and a
   refinement mapping; an abstract command service for `AhciPort`.
3. The socket lists of several tasks, with the TX task that walks them.
4. Proofs of the refinements of items 1 and 2, once stated.
